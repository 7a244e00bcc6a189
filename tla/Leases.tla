------------------------------- MODULE Leases -------------------------------
(***************************************************************************)
(* The cache leases of Tribbler (p2): the storage server that owns a key   *)
(* (storageserver_impl.go: Get, Put, grantLeaseIfNecessary,                *)
(* revokeGrantedLease) and the libstores that cache it                     *)
(* (libstore_impl.go: Get, RevokeLease, deleteinvalid).                    *)
(*                                                                         *)
(* One key.  It may be stored as a value (Get, Put) and as a list          *)
(* (GetList, AppendToList, RemoveFromList), with separate maps and locks   *)
(* but the same code; what is stored is a version number, 0 if nothing.    *)
(* Readers are calls of Get on a libstore, writers are Put handlers on the *)
(* server.  Locks are held as in the code: a reader keeps its libstore's   *)
(* key locked during the RPC, a writer the server's during the revocations.*)
(* Time is the same everywhere; leases only compare durations.             *)
(***************************************************************************)
EXTENDS Integers

CONSTANTS Client,        \* the libstores
          Kind,          \* how the key is used: "value", "list" or both
          Reader, Writer,
          Home,          \* Home[r]: the libstore of reader r
          KindOf,        \* KindOf[t]: what reader or writer t accesses
          None,
          LeaseSeconds, LeaseGuardSeconds,
          MaxTime,       \* bound: the clock, and the leases, end here
          MayCrash       \* the libstores whose process may die

ASSUME LeaseAssumption ==
  /\ Kind \subseteq {"value", "list"}
  /\ Home \in [Reader -> Client]
  /\ KindOf \in [Reader \cup Writer -> Kind]
  /\ None \notin Reader \cup Writer \cup Client
  /\ LeaseSeconds \in Nat \ {0} /\ LeaseGuardSeconds \in Nat \ {0}
  /\ MaxTime \in Nat /\ MayCrash \subseteq Client

VARIABLES
  clock,
  value, leaseGranted, serverLock,   \* server, by kind; a lease is its end, 0 if none
  wpc, todo, target, acked,          \* Put handlers: leases to revoke, the one in work
  revokes,                           \* RevokeLease calls under way: <<writer, client>>
  dialed, dialLocked,                \* clientCache, and the clientCacheMutexes never unlocked
  up, cache, mutex, doomed,          \* libstores, by kind
  rpc, now, floor, got, granted      \* Get calls; floor: the version when it was called

storeVars == <<value, leaseGranted, serverLock>>
putVars == <<wpc, todo, target, acked, revokes, dialed, dialLocked>>
libVars == <<up, cache, mutex, doomed>>
getVars == <<rpc, now, floor, got, granted>>
vars == <<clock, storeVars, putVars, libVars, getVars>>

NoEntry == [value |-> 0, until |-> -1]

Init ==
  /\ clock = 0
  /\ value = [k \in Kind |-> 0]
  /\ leaseGranted = [k \in Kind |-> [c \in Client |-> 0]]
  /\ serverLock = [k \in Kind |-> None]
  /\ wpc = [w \in Writer |-> "idle"]
  /\ todo = [w \in Writer |-> {}]
  /\ target = [w \in Writer |-> None]
  /\ acked = [w \in Writer |-> FALSE]
  /\ revokes = {} /\ dialed = {} /\ dialLocked = {}
  /\ up = [c \in Client |-> TRUE]
  /\ cache = [c \in Client |-> [k \in Kind |-> NoEntry]]
  /\ mutex = [c \in Client |-> [k \in Kind |-> None]]
  /\ doomed = [c \in Client |-> [k \in Kind |-> FALSE]]
  /\ rpc = [r \in Reader |-> "idle"]
  /\ now = [r \in Reader |-> 0]
  /\ floor = [r \in Reader |-> 0]
  /\ got = [r \in Reader |-> 0]
  /\ granted = [r \in Reader |-> FALSE]

Tick ==
  /\ clock < MaxTime
  /\ clock' = clock + 1
  /\ UNCHANGED <<storeVars, putVars, libVars, getVars>>

-----------------------------------------------------------------------------
(* libstore.Get and GetList.                                               *)

(* The clock is read before the key is locked.                             *)
GetBegin(r) ==
  /\ up[Home[r]] /\ rpc[r] = "idle"
  /\ rpc' = [rpc EXCEPT ![r] = "lock"]
  /\ now' = [now EXCEPT ![r] = clock]
  /\ floor' = [floor EXCEPT ![r] = value[KindOf[r]]]
  /\ UNCHANGED <<clock, storeVars, putVars, libVars, got, granted>>

Entry(r) == cache[Home[r]][KindOf[r]]

(* Variant: entries stay valid.                                            *)
ValidAlways(r) == Entry(r) # NoEntry

Valid(r) == now[r] <= Entry(r).until

Locks(r) == up[Home[r]] /\ rpc[r] = "lock" /\ mutex[Home[r]][KindOf[r]] = None

GetCached(r) ==
  /\ Locks(r) /\ Valid(r)
  /\ rpc' = [rpc EXCEPT ![r] = "done"]
  /\ got' = [got EXCEPT ![r] = Entry(r).value]
  /\ UNCHANGED <<clock, storeVars, putVars, libVars, now, floor, granted>>

GetCall(r) ==
  /\ Locks(r) /\ ~ Valid(r)
  /\ rpc' = [rpc EXCEPT ![r] = "call"]
  /\ mutex' = [mutex EXCEPT ![Home[r]][KindOf[r]] = r]
  /\ cache' = [cache EXCEPT ![Home[r]][KindOf[r]] = NoEntry]
  /\ UNCHANGED <<clock, storeVars, putVars, up, doomed, now, floor, got, granted>>

(* grantLeaseIfNecessary: one lease at a time.                             *)
Grants(r) ==
  LET end == leaseGranted[KindOf[r]][Home[r]]
  IN  end = 0 \/ clock > end

(* want is what the mode and the query history of the libstore make of it. *)
ServerGrants(r, want) == want /\ value[KindOf[r]] # 0 /\ Grants(r)

(* The server's Get handler.  A call that failed for the libstore may      *)
(* still be handled.                                                       *)
ServerGet(r, want) ==
  LET k == KindOf[r]
      end == clock + LeaseSeconds + LeaseGuardSeconds
      grant == ServerGrants(r, want)
  IN  /\ rpc[r] \in {"call", "lost"} /\ serverLock[k] = None
      /\ grant => end <= MaxTime
      /\ leaseGranted' =
           IF grant THEN [leaseGranted EXCEPT ![k][Home[r]] = end] ELSE leaseGranted
      /\ rpc' = [rpc EXCEPT ![r] = IF @ = "call" THEN "reply" ELSE "failed"]
      /\ got' = [got EXCEPT ![r] = value[k]]
      /\ granted' = [granted EXCEPT ![r] = grant]
      /\ UNCHANGED <<clock, value, serverLock, putVars, libVars, now, floor>>

LeaseEnd(r) == now[r] + LeaseSeconds

GetReturn(r) ==
  /\ up[Home[r]] /\ rpc[r] = "reply"
  /\ rpc' = [rpc EXCEPT ![r] = "done"]
  /\ mutex' = [mutex EXCEPT ![Home[r]][KindOf[r]] = None]
  /\ cache' = IF granted[r]
              THEN [cache EXCEPT ![Home[r]][KindOf[r]] =
                      [value |-> got[r], until |-> LeaseEnd(r)]]
              ELSE cache
  /\ UNCHANGED <<clock, storeVars, putVars, up, doomed, now, floor, got, granted>>

(* The RPC fails, before or after the server handled it.                   *)
GetFails(r) ==
  /\ up[Home[r]] /\ rpc[r] \in {"call", "reply"}
  /\ rpc' = [rpc EXCEPT ![r] = IF @ = "call" THEN "lost" ELSE "failed"]
  /\ mutex' = [mutex EXCEPT ![Home[r]][KindOf[r]] = None]
  /\ UNCHANGED <<clock, storeVars, putVars, up, cache, doomed, now, floor, got, granted>>

(* deleteinvalid looks at an entry, then locks the key and deletes what is *)
(* cached by then.                                                         *)
SweepLooks(c, k) ==
  /\ up[c] /\ cache[c][k] # NoEntry /\ clock > cache[c][k].until
  /\ doomed' = [doomed EXCEPT ![c][k] = TRUE]
  /\ UNCHANGED <<clock, storeVars, putVars, up, cache, mutex, getVars>>

SweepDeletes(c, k) ==
  /\ up[c] /\ doomed[c][k] /\ mutex[c][k] = None
  /\ doomed' = [doomed EXCEPT ![c][k] = FALSE]
  /\ cache' = [cache EXCEPT ![c][k] = NoEntry]
  /\ UNCHANGED <<clock, storeVars, putVars, up, mutex, getVars>>

Crash(c) ==
  /\ c \in MayCrash /\ up[c]
  /\ up' = [up EXCEPT ![c] = FALSE]
  /\ UNCHANGED <<clock, storeVars, putVars, cache, mutex, doomed, getVars>>

-----------------------------------------------------------------------------
(* The server's Put, AppendToList and RemoveFromList.                      *)

Holders(k) == {c \in Client : leaseGranted[k][c] # 0}

(* A new key has no leases ...                                             *)
PutCreates(w) ==
  LET k == KindOf[w]
  IN  /\ wpc[w] = "idle" /\ serverLock[k] = None /\ value[k] = 0
      /\ value' = [value EXCEPT ![k] = 1]
      /\ wpc' = [wpc EXCEPT ![w] = "done"]
      /\ UNCHANGED <<clock, leaseGranted, serverLock, todo, target, acked, revokes, dialed,
                     dialLocked, libVars, getVars>>

(* ... otherwise the key stays locked while its leases are revoked.        *)
PutLocks(w) ==
  LET k == KindOf[w]
  IN  /\ wpc[w] = "idle" /\ serverLock[k] = None /\ value[k] # 0
      /\ serverLock' = [serverLock EXCEPT ![k] = w]
      /\ todo' = [todo EXCEPT ![w] = Holders(k)]
      /\ wpc' = [wpc EXCEPT ![w] = "revoke"]
      /\ UNCHANGED <<clock, value, leaseGranted, target, acked, revokes, dialed, dialLocked,
                     libVars, getVars>>

PutBegin(w) == PutCreates(w) \/ PutLocks(w)

(* The server's side of a lease has run out.                               *)
Lapsed(k, c) == clock >= leaseGranted[k][c]

RevokeSkips(w, c) ==
  /\ wpc[w] = "revoke" /\ c \in todo[w] /\ Lapsed(KindOf[w], c)
  /\ todo' = [todo EXCEPT ![w] = @ \ {c}]
  /\ UNCHANGED <<clock, storeVars, wpc, target, acked, revokes, dialed, dialLocked,
                 libVars, getVars>>

RevokeBegins(w, c) ==
  /\ wpc[w] = "revoke" /\ c \in todo[w] /\ ~ Lapsed(KindOf[w], c)
  /\ wpc' = [wpc EXCEPT ![w] = "dial"]
  /\ target' = [target EXCEPT ![w] = c]
  /\ UNCHANGED <<clock, storeVars, todo, acked, revokes, dialed, dialLocked, libVars, getVars>>

RevokeSends(w) ==
  /\ wpc[w] = "dial" /\ target[w] \notin dialLocked
  /\ target[w] \in dialed \/ up[target[w]]
  /\ wpc' = [wpc EXCEPT ![w] = "wait"]
  /\ acked' = [acked EXCEPT ![w] = FALSE]
  /\ dialed' = dialed \cup {target[w]}
  /\ revokes' = revokes \cup {<<w, target[w]>>}
  /\ UNCHANGED <<clock, storeVars, todo, target, dialLocked, libVars, getVars>>

(* The error return leaves clientCacheMutex locked.                        *)
DialFails(w) ==
  /\ wpc[w] = "dial" /\ target[w] \notin dialLocked
  /\ target[w] \notin dialed /\ ~ up[target[w]]
  /\ wpc' = [wpc EXCEPT ![w] = "error"]
  /\ dialLocked' = dialLocked \cup {target[w]}
  /\ serverLock' = [serverLock EXCEPT ![KindOf[w]] = None]
  /\ UNCHANGED <<clock, value, leaseGranted, todo, target, acked, revokes, dialed,
                 libVars, getVars>>

(* What RevokeLease deletes: the value, or else the list.                  *)
Revoked(c) ==
  IF "value" \in Kind /\ cache[c]["value"] # NoEntry THEN {"value"} ELSE {"list"}

(* The libstore's RevokeLease, under both of the key's locks.  The reply   *)
(* may be lost.                                                            *)
RevokeLease(w, c, heard) ==
  /\ <<w, c>> \in revokes /\ up[c]
  /\ \A k \in Kind : mutex[c][k] = None
  /\ revokes' = revokes \ {<<w, c>>}
  /\ cache' = [cache EXCEPT ![c] =
                 [k \in Kind |-> IF k \in Revoked(c) THEN NoEntry ELSE cache[c][k]]]
  /\ acked' = [acked EXCEPT ![w] = @ \/ (heard /\ wpc[w] = "wait" /\ target[w] = c)]
  /\ UNCHANGED <<clock, storeVars, wpc, todo, target, dialed, dialLocked, up, mutex, doomed,
                 getVars>>

(* Variant: an answer or the end of the lease, whichever is later.         *)
SettledBoth(w) == acked[w] /\ Lapsed(KindOf[w], target[w])

(* <-c: an answer, or expireTimer.                                         *)
Settled(w) == acked[w] \/ Lapsed(KindOf[w], target[w])

RevokeEnds(w) ==
  /\ wpc[w] = "wait" /\ Settled(w)
  /\ wpc' = [wpc EXCEPT ![w] = "revoke"]
  /\ todo' = [todo EXCEPT ![w] = @ \ {target[w]}]
  /\ UNCHANGED <<clock, storeVars, target, acked, revokes, dialed, dialLocked, libVars, getVars>>

PutEnd(w) ==
  LET k == KindOf[w]
  IN  /\ wpc[w] = "revoke" /\ todo[w] = {}
      /\ wpc' = [wpc EXCEPT ![w] = "done"]
      /\ leaseGranted' = [leaseGranted EXCEPT ![k] = [c \in Client |-> 0]]
      /\ value' = [value EXCEPT ![k] = @ + 1]
      /\ serverLock' = [serverLock EXCEPT ![k] = None]
      /\ UNCHANGED <<clock, todo, target, acked, revokes, dialed, dialLocked, libVars, getVars>>

-----------------------------------------------------------------------------

(* The steps of a Get, and in the same way of a GetList, after its call.   *)
ReaderStep(r) ==
  \/ GetCached(r) \/ GetCall(r) \/ GetReturn(r)
  \/ \E want \in BOOLEAN : ServerGet(r, want)

(* The steps of a Put, AppendToList or RemoveFromList that holds the lock  *)
(* of its key.  An update that leaves a list as it was is a new version.   *)
WriterStep(w) ==
  \/ RevokeSends(w) \/ DialFails(w) \/ RevokeEnds(w) \/ PutEnd(w)
  \/ \E c \in Client : RevokeSkips(w, c) \/ RevokeBegins(w, c)

Next ==
  \/ Tick
  \/ \E r \in Reader : GetBegin(r) \/ GetFails(r) \/ ReaderStep(r)
  \/ \E w \in Writer : PutBegin(w) \/ WriterStep(w)
  \/ \E w \in Writer, c \in Client, heard \in BOOLEAN : RevokeLease(w, c, heard)
  \/ \E c \in Client : Crash(c) \/ \E k \in Kind : SweepLooks(c, k) \/ SweepDeletes(c, k)

Spec == Init /\ [][Next]_vars

(* Time passes; the server and the libstores run.                          *)
Fairness ==
  /\ WF_vars(Tick)
  /\ \A r \in Reader : WF_vars(ReaderStep(r))
  /\ \A w \in Writer : WF_vars(WriterStep(w))

FairSpec == Spec /\ Fairness

-----------------------------------------------------------------------------

StoreOK ==
  /\ value \in [Kind -> Nat]
  /\ leaseGranted \in [Kind -> [Client -> Nat]]
  /\ serverLock \in [Kind -> Writer \cup {None}]

PutOK ==
  /\ wpc \in [Writer -> {"idle", "revoke", "dial", "wait", "done", "error"}]
  /\ todo \in [Writer -> SUBSET Client]
  /\ target \in [Writer -> Client \cup {None}]
  /\ acked \in [Writer -> BOOLEAN]
  /\ revokes \subseteq Writer \X Client
  /\ dialed \subseteq Client /\ dialLocked \subseteq Client

LibOK ==
  /\ up \in [Client -> BOOLEAN]
  /\ cache \in [Client -> [Kind -> [value : Nat, until : Nat] \cup {NoEntry}]]
  /\ mutex \in [Client -> [Kind -> Reader \cup {None}]]
  /\ doomed \in [Client -> [Kind -> BOOLEAN]]

GetOK ==
  /\ rpc \in [Reader -> {"idle", "lock", "call", "reply", "lost", "done", "failed"}]
  /\ now \in [Reader -> Nat] /\ floor \in [Reader -> Nat] /\ got \in [Reader -> Nat]
  /\ granted \in [Reader -> BOOLEAN]

TypeOK == clock \in Nat /\ StoreOK /\ PutOK /\ LibOK /\ GetOK

(* A Get returns a version at least as new as the one the server held when *)
(* Get was called: leases make caching invisible, although Put does not    *)
(* wait for libstores that are slow or gone, replies cross revocations,    *)
(* and Get compares the lease with a clock read before it waited.          *)
Fresh == \A r \in Reader : rpc[r] = "done" => got[r] >= floor[r]

(* Who holds the locks of a libstore and of the server.                    *)
ClientLocks ==
  \A r \in Reader : rpc[r] \in {"call", "reply"} <=> mutex[Home[r]][KindOf[r]] = r

ServerLocks ==
  /\ \A w \in Writer : wpc[w] \in {"revoke", "dial", "wait"} <=> serverLock[KindOf[w]] = w
  /\ \A k \in Kind : serverLock[k] # None => KindOf[serverLock[k]] = k
  /\ \A w \in Writer : wpc[w] \in {"dial", "wait"} => target[w] \in Client

(* There is no lease on a key that is not stored.                          *)
Unleased ==
  \A k \in Kind, c \in Client : value[k] = 0 => leaseGranted[k][c] = 0

(* An entry in the hands of libstore c has run out, or it is the stored    *)
(* version, the server knows of it, for longer, and will not change the    *)
(* version before it has dealt with c.                                     *)
Backed(c, k, version, until) ==
  \/ until < clock
  \/ /\ version = value[k]
     /\ until + LeaseGuardSeconds <= leaseGranted[k][c]
     /\ \A w \in Writer : serverLock[k] = w => c \in todo[w]

EntriesBacked ==
  \A c \in Client, k \in Kind : Backed(c, k, cache[c][k].value, cache[c][k].until)

(* So are the entries on their way in a reply.                             *)
RepliesBacked ==
  \A r \in Reader : rpc[r] = "reply" /\ granted[r] =>
    Backed(Home[r], KindOf[r], got[r], now[r] + LeaseSeconds)

(* A libstore that has answered RevokeLease holds nothing, and has no Get  *)
(* under way that could bring an old entry back.                           *)
AckedIsClean ==
  \A w \in Writer : wpc[w] = "wait" /\ acked[w] =>
    /\ cache[target[w]][KindOf[w]] = NoEntry
    /\ \A r \in Reader : rpc[r] = "reply" => ~ (Home[r] = target[w] /\ KindOf[r] = KindOf[w])

(* What a Get may return is new enough.                                    *)
Floors ==
  \A r \in Reader :
    /\ now[r] <= clock
    /\ rpc[r] \in {"lock", "call"} => floor[r] <= value[KindOf[r]]
    /\ rpc[r] \in {"reply", "done"} => floor[r] <= got[r]
    /\ rpc[r] = "lock" =>
         /\ now[r] <= Entry(r).until => floor[r] <= Entry(r).value
         /\ \A q \in Reader :
              /\ rpc[q] = "reply" /\ granted[q] /\ Home[q] = Home[r] /\ KindOf[q] = KindOf[r]
              /\ now[r] <= now[q] + LeaseSeconds
              => floor[r] <= got[q]

IInv ==
  /\ TypeOK /\ ClientLocks /\ ServerLocks /\ Unleased
  /\ EntriesBacked /\ RepliesBacked /\ AckedIsClean /\ Floors

(* "service should continue after lease expires" even if libstores do not  *)
(* answer RevokeLease: a Put that has begun comes to an end, unless a dial *)
(* that failed has left a clientCacheMutex locked for good.                *)
PutEnds ==
  \A w \in Writer :
    wpc[w] \in {"revoke", "dial", "wait"} ~> wpc[w] \in {"done", "error"} \/ dialLocked # {}

(* A Get comes to an end although it may hold the lock RevokeLease needs   *)
(* while it waits for the lock of the Put that is revoking, unless its     *)
(* process dies or that Put meets the mutex of a failed dial.              *)
GetEnds ==
  \A r \in Reader :
    rpc[r] = "lock" ~>
      rpc[r] \in {"done", "failed", "lost"} \/ ~ up[Home[r]] \/ dialLocked # {}
=============================================================================
