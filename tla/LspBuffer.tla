----------------------------- MODULE LspBuffer -----------------------------
(***************************************************************************)
(* lsp/buffer.go: the linked list of messages behind every buffer of the   *)
(* client and the server.  An operator that changes the list gives the     *)
(* list afterwards.                                                        *)
(***************************************************************************)
EXTENDS Integers, Sequences

SE == INSTANCE SequencesExt

(* The message goes before the first element that is not smaller, unless   *)
(* that one has the same number.                                           *)
Insert(l, m) ==
  IF l = <<>> \/ m.seqNum > SE!Last(l).seqNum
  THEN Append(l, m)
  ELSE LET i == SE!SelectInSeq(l, LAMBDA e : m.seqNum <= e.seqNum)
       IN  IF m.seqNum < l[i].seqNum THEN SE!InsertAt(l, i, m) ELSE l

Front(l) == Head(l)

Remove(l) == Tail(l)

Delete(l, n) ==
  LET i == SE!SelectInSeq(l, LAMBDA e : e.seqNum = n)
  IN  IF i = 0 THEN l ELSE SE!RemoveAt(l, i)

(* Variant: the left end of the window is one too low.                     *)
AdjustUsingWindowSlack(l, w) ==
  LET first == SE!SelectInSeq(l, LAMBDA e : e.seqNum >= SE!Last(l).seqNum - w)
  IN  SubSeq(l, first, Len(l))

AdjustUsingWindow(l, w) ==
  LET first == SE!SelectInSeq(l, LAMBDA e : e.seqNum >= SE!Last(l).seqNum - w + 1)
  IN  SubSeq(l, first, Len(l))
=============================================================================
