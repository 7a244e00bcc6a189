---------------------------- MODULE FifoChannel ----------------------------
(***************************************************************************)
(* What one direction of an LSP connection promises to its two users while *)
(* the connection lives (lsp/client_api.go, lsp/server_api.go): Read       *)
(* returns the payloads of Write, each once and in order.                  *)
(***************************************************************************)
EXTENDS Naturals, Sequences

CONSTANT Payload

VARIABLES written,    \* the payloads accepted by Write
          delivered   \* the payloads returned by Read

Init == written = <<>> /\ delivered = <<>>

Write ==
  /\ \E p \in Payload : written' = Append(written, p)
  /\ UNCHANGED delivered

Read ==
  /\ Len(delivered) < Len(written)
  /\ delivered' = Append(delivered, written[Len(delivered) + 1])
  /\ UNCHANGED written

Spec == Init /\ [][Write \/ Read]_<<written, delivered>>
=============================================================================
