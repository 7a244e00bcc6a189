---------------------------- MODULE LeasesProof -----------------------------
(***************************************************************************)
(* Proof that leases make caching invisible, for any libstores, readers    *)
(* and writers, any durations with a guard above zero, failing calls and   *)
(* dying libstores, as long as the key is used as a value or as a list and *)
(* not as both.                                                            *)
(***************************************************************************)
EXTENDS Leases, TLAPS

(* The types of single entries.                                            *)
Numbers ==
  /\ \A r \in Reader : /\ Home[r] \in Client /\ KindOf[r] \in Kind
                       /\ now[r] \in Nat /\ floor[r] \in Nat /\ got[r] \in Nat
  /\ \A w \in Writer : KindOf[w] \in Kind
  /\ \A c \in Client, k \in Kind : /\ cache[c][k].value \in Nat
                                   /\ cache[c][k].until \in Int
                                   /\ leaseGranted[k][c] \in Nat
  /\ \A k \in Kind : value[k] \in Nat

(* They follow from the type invariant.                                    *)
LEMMA TypedNumbers == IInv => Numbers
<1>. SUFFICES ASSUME IInv PROVE Numbers
  OBVIOUS
<1>1. \A r \in Reader : /\ Home[r] \in Client /\ KindOf[r] \in Kind
                        /\ now[r] \in Nat /\ floor[r] \in Nat /\ got[r] \in Nat
  BY LeaseAssumption, Zenon DEF IInv, TypeOK, GetOK
<1>2. \A w \in Writer : KindOf[w] \in Kind
  BY LeaseAssumption, Zenon
<1>3. ASSUME NEW c \in Client, NEW k \in Kind
      PROVE  cache[c][k].value \in Nat /\ cache[c][k].until \in Int
  <2>1. cache[c][k] \in [value : Nat, until : Nat] \cup {NoEntry}
    BY Zenon DEF IInv, TypeOK, LibOK
  <2>2. NoEntry.value = 0 /\ NoEntry.until = -1
    BY Zenon DEF NoEntry
  <2>3. QED
    BY <2>1, <2>2
<1>4. /\ \A c \in Client, k \in Kind : leaseGranted[k][c] \in Nat
      /\ \A k \in Kind : value[k] \in Nat
  BY Zenon DEF IInv, TypeOK, StoreOK
<1>5. QED
  BY <1>1, <1>2, <1>3, <1>4, Zenon DEF Numbers

(* Backed in the next state, of an entry of this one.                      *)
BackedNext(c, k, version, until) ==
  \/ until < clock'
  \/ /\ version = value'[k]
     /\ until + LeaseGuardSeconds <= leaseGranted'[k][c]
     /\ \A w \in Writer : serverLock'[k] = w => c \in todo'[w]

(* No entry is older than any entry.                                       *)
LEMMA NoEntryOld == \A n \in Nat : ~ (n <= NoEntry.until)
  BY DEF NoEntry

(* A handler locks only its own kind of key.                               *)
LEMMA OneLock ==
  ASSUME ServerLocks, NEW j \in Kind, NEW w \in Writer, serverLock[j] = w
  PROVE  j = KindOf[w]
<1>1. serverLock[j] # None
  BY LeaseAssumption, Zenon
<1>2. QED
  BY <1>1, Zenon DEF ServerLocks

(* Steps of the libstores leave the locks of the server alone.             *)
LEMMA SameLocks ==
  ASSUME ServerLocks, UNCHANGED <<wpc, serverLock, target>>
  PROVE  ServerLocks'
<1>1. \A w \in Writer : wpc'[w] \in {"revoke", "dial", "wait"} <=> serverLock'[KindOf[w]] = w
  BY Zenon DEF ServerLocks
<1>2. \A k \in Kind : serverLock'[k] # None => KindOf[serverLock'[k]] = k
  BY Zenon DEF ServerLocks
<1>3. \A w \in Writer : wpc'[w] \in {"dial", "wait"} => target'[w] \in Client
  BY Zenon DEF ServerLocks
<1>4. QED
  BY <1>1, <1>2, <1>3, Zenon DEF ServerLocks

(* A conjunct of the invariant stays true while its variables do not       *)
(* change.  What the server stores:                                        *)
LEMMA SameStore ==
  ASSUME StoreOK, UNCHANGED <<value, leaseGranted, serverLock>>
  PROVE  StoreOK'
  BY Zenon DEF StoreOK

(* The state of the writers.                                               *)
LEMMA SamePut ==
  ASSUME PutOK, UNCHANGED <<wpc, todo, target, acked, revokes, dialed, dialLocked>>
  PROVE  PutOK'
  BY Zenon DEF PutOK

(* The state of the libstores.                                             *)
LEMMA SameLib ==
  ASSUME LibOK, UNCHANGED <<up, cache, mutex, doomed>>
  PROVE  LibOK'
  BY Zenon DEF LibOK

(* The state of the readers.                                               *)
LEMMA SameGet ==
  ASSUME GetOK, UNCHANGED <<rpc, now, floor, got, granted>>
  PROVE  GetOK'
  BY Zenon DEF GetOK

(* The mutexes of the libstores.                                           *)
LEMMA SameMutexes ==
  ASSUME ClientLocks, UNCHANGED <<rpc, mutex>>
  PROVE  ClientLocks'
  BY Zenon DEF ClientLocks

(* Keys that are not stored.                                               *)
LEMMA SameUnleased ==
  ASSUME Unleased, UNCHANGED <<value, leaseGranted>>
  PROVE  Unleased'
  BY Zenon DEF Unleased

(* Libstores that have answered.                                           *)
LEMMA SameAcked ==
  ASSUME AckedIsClean, UNCHANGED <<wpc, acked, cache, target, rpc>>
  PROVE  AckedIsClean'
  BY Zenon DEF AckedIsClean

(* Cached entries.                                                         *)
LEMMA SameEntries ==
  ASSUME EntriesBacked, UNCHANGED <<clock, value, leaseGranted, serverLock, todo, cache>>
  PROVE  EntriesBacked'
  BY Zenon DEF EntriesBacked, Backed

(* Entries in replies.                                                     *)
LEMMA SameReplies ==
  ASSUME RepliesBacked,
         UNCHANGED <<clock, value, leaseGranted, serverLock, todo, rpc, granted, got, now>>
  PROVE  RepliesBacked'
  BY Zenon DEF RepliesBacked, Backed

(* What a Get may return.                                                  *)
LEMMA SameFloors ==
  ASSUME Floors, UNCHANGED <<clock, value, cache, rpc, now, floor, got, granted>>
  PROVE  Floors'
  BY Zenon DEF Floors, Entry

(* A libstore that has answered stays clean while caches and replies only  *)
(* disappear.                                                              *)
LEMMA AckedStays ==
  ASSUME AckedIsClean, UNCHANGED <<wpc, acked, target>>,
         \A w \in Writer : wpc[w] = "wait" /\ acked[w] =>
           \/ cache'[target[w]][KindOf[w]] = cache[target[w]][KindOf[w]]
           \/ cache'[target[w]][KindOf[w]] = NoEntry,
         \A q \in Reader : rpc'[q] = "reply" =>
           rpc[q] = "reply" \/ \A w \in Writer : wpc[w] = "wait" => KindOf[q] # KindOf[w]
  PROVE  AckedIsClean'
  BY Zenon DEF AckedIsClean

(* A Get that ends only has to return something new enough.                *)
LEMMA FloorsEnd ==
  ASSUME Floors, NEW r \in Reader, UNCHANGED <<clock, value, cache, now, floor>>,
         \A q \in Reader : q # r => /\ rpc'[q] = rpc[q] /\ got'[q] = got[q]
                                   /\ granted'[q] = granted[q],
         rpc'[r] \in {"done", "lost", "failed"}, rpc'[r] = "done" => floor[r] <= got'[r]
  PROVE  Floors'
<1>1. \A q \in Reader : rpc'[q] \in {"lock", "call", "reply"} => q # r
  OBVIOUS
<1>2. \A q \in Reader : Entry(q)' = Entry(q)
  BY Zenon DEF Entry
<1>3. SUFFICES ASSUME NEW q \in Reader
               PROVE  /\ now[q] <= clock
                      /\ rpc'[q] \in {"lock", "call"} => floor[q] <= value[KindOf[q]]
                      /\ rpc'[q] \in {"reply", "done"} => floor[q] <= got'[q]
                      /\ rpc'[q] = "lock" =>
                           /\ now[q] <= Entry(q).until => floor[q] <= Entry(q).value
                           /\ \A s \in Reader :
                                /\ rpc'[s] = "reply" /\ granted'[s] /\ Home[s] = Home[q]
                                /\ KindOf[s] = KindOf[q] /\ now[q] <= now[s] + LeaseSeconds
                                => floor[q] <= got'[s]
  BY <1>2, Zenon DEF Floors
<1>4. CASE q = r
  BY <1>1, <1>4, Zenon DEF Floors
<1>5. CASE q # r
  BY <1>1, <1>5, Zenon DEF Floors
<1>6. QED
  BY <1>4, <1>5, Zenon

(* Initially nothing is stored or cached.                                  *)
LEMMA InitKeeps == Init => IInv
<1>. SUFFICES ASSUME Init PROVE IInv
  OBVIOUS
<1>. USE LeaseAssumption DEF Init
<1>1. TypeOK
  BY Zenon DEF TypeOK, StoreOK, PutOK, LibOK, GetOK, NoEntry
<1>2. ClientLocks /\ ServerLocks /\ Unleased
  BY Zenon DEF ClientLocks, ServerLocks, Unleased
<1>3. EntriesBacked /\ RepliesBacked
  BY DEF EntriesBacked, RepliesBacked, Backed, NoEntry
<1>4. AckedIsClean /\ Floors
  BY DEF AckedIsClean, Floors
<1>5. QED
  BY <1>1, <1>2, <1>3, <1>4, Zenon DEF IInv

(* Time only makes entries run out.                                        *)
LEMMA TickKeeps ==
  ASSUME IInv, Tick
  PROVE  IInv'
<1>. USE LeaseAssumption
<1>0. /\ clock \in Nat /\ StoreOK /\ PutOK /\ LibOK /\ GetOK /\ ClientLocks /\ ServerLocks
      /\ Unleased /\ EntriesBacked /\ RepliesBacked /\ AckedIsClean /\ Floors
  BY Zenon DEF IInv, TypeOK
<1>t. Numbers
  BY TypedNumbers, Zenon DEF IInv
<1>a. /\ clock' = clock + 1
  BY Zenon DEF Tick
<1>u. UNCHANGED <<value, leaseGranted, serverLock, wpc, todo, target, acked, revokes,
                  dialed, dialLocked, up, cache, mutex, doomed, rpc, now, floor, got,
                  granted>>
  BY Zenon DEF Tick, storeVars, putVars, libVars, getVars
<1>f. StoreOK' /\ PutOK' /\ LibOK' /\ GetOK'
  BY <1>0, <1>u, SameStore, SamePut, SameLib, SameGet, Zenon
<1>g. ClientLocks' /\ ServerLocks' /\ Unleased' /\ AckedIsClean'
  BY <1>0, <1>u, SameMutexes, SameLocks, SameUnleased, SameAcked, Zenon
<1>1. clock' \in Nat
  BY <1>0, <1>a
<1>b. ASSUME NEW d \in Client, NEW j \in Kind, NEW v, NEW u \in Int, Backed(d, j, v, u)
      PROVE  BackedNext(d, j, v, u)
  BY <1>0, <1>a, <1>b, <1>u DEF Backed, BackedNext
<1>9. EntriesBacked'
  <2>. SUFFICES ASSUME NEW d \in Client, NEW j \in Kind
                PROVE  BackedNext(d, j, cache[d][j].value, cache[d][j].until)
    BY <1>u, Zenon DEF EntriesBacked, Backed, BackedNext
  <2>. QED
    BY <1>0, <1>t, <1>b, Zenon DEF Numbers, EntriesBacked
<1>10. RepliesBacked'
  <2>. SUFFICES ASSUME NEW q \in Reader, rpc[q] = "reply" /\ granted[q]
                PROVE  BackedNext(Home[q], KindOf[q], got[q], now[q] + LeaseSeconds)
    BY <1>u, Zenon DEF RepliesBacked, Backed, BackedNext
  <2>1. Home[q] \in Client /\ KindOf[q] \in Kind /\ now[q] + LeaseSeconds \in Int
    BY <1>t DEF Numbers
  <2>2. Backed(Home[q], KindOf[q], got[q], now[q] + LeaseSeconds)
    BY <1>0, Zenon DEF RepliesBacked
  <2>3. QED
    BY <1>b, <2>1, <2>2, Zenon
<1>12. Floors'
  BY <1>0, <1>t, <1>a, <1>u DEF Numbers, Floors, Entry
<1>13. QED
  BY <1>f, <1>g, <1>1, <1>9, <1>10, <1>12, Zenon DEF IInv, TypeOK

(* A Get is called: what is cached has run out or is the stored version.   *)
LEMMA GetBeginKeeps ==
  ASSUME IInv, NEW r \in Reader, GetBegin(r)
  PROVE  IInv'
<1>. USE LeaseAssumption
<1>0. /\ clock \in Nat /\ StoreOK /\ PutOK /\ LibOK /\ GetOK /\ ClientLocks /\ ServerLocks
      /\ Unleased /\ EntriesBacked /\ RepliesBacked /\ AckedIsClean /\ Floors
  BY Zenon DEF IInv, TypeOK
<1>t. Numbers
  BY TypedNumbers, Zenon DEF IInv
<1>a. /\ rpc[r] = "idle"
      /\ rpc' = [rpc EXCEPT ![r] = "lock"]
      /\ now' = [now EXCEPT ![r] = clock]
      /\ floor' = [floor EXCEPT ![r] = value[KindOf[r]]]
  BY Zenon DEF GetBegin
<1>u. UNCHANGED <<clock, value, leaseGranted, serverLock, wpc, todo, target, acked,
                  revokes, dialed, dialLocked, up, cache, mutex, doomed, got, granted>>
  BY Zenon DEF GetBegin, storeVars, putVars, libVars, getVars
<1>p. /\ \A q \in Reader : q # r => rpc'[q] = rpc[q] /\ now'[q] = now[q] /\ floor'[q] = floor[q]
      /\ rpc'[r] = "lock"
      /\ now'[r] = clock
      /\ floor'[r] = value[KindOf[r]]
  BY <1>0, <1>a, Zenon DEF GetOK
<1>f. clock' \in Nat /\ StoreOK' /\ PutOK' /\ LibOK'
  BY <1>0, <1>u, SameStore, SamePut, SameLib, Zenon
<1>g. ServerLocks' /\ Unleased'
  BY <1>0, <1>u, SameLocks, SameUnleased, Zenon
<1>h. EntriesBacked'
  BY <1>0, <1>u, SameEntries, Zenon
<1>5. GetOK'
  BY <1>0, <1>t, <1>a, <1>u, Zenon DEF GetOK, Numbers
<1>6. ClientLocks'
  BY <1>0, <1>a, <1>u, <1>p, Zenon DEF ClientLocks
<1>10. RepliesBacked'
  <2>1. \A q \in Reader : rpc'[q] = "reply" => q # r /\ rpc[q] = "reply"
    BY <1>a, <1>p, Zenon
  <2>2. QED
    BY <1>0, <1>u, <1>p, <2>1 DEF RepliesBacked, Backed
<1>11. AckedIsClean'
  BY <1>0, <1>a, <1>u, <1>p, SMTT(60) DEF AckedIsClean
<1>12. Floors'
  <2>1. \A c \in Client, k \in Kind : clock <= cache[c][k].until => cache[c][k].value = value[k]
    BY <1>0, <1>t DEF Numbers, EntriesBacked, Backed
  <2>2. \A q \in Reader : rpc[q] = "reply" /\ granted[q] /\ clock <= now[q] + LeaseSeconds
          => got[q] = value[KindOf[q]]
    BY <1>0, <1>t DEF Numbers, RepliesBacked, Backed
  <2>3. ASSUME NEW p \in Reader
        PROVE  /\ now'[p] <= clock
               /\ rpc'[p] \in {"lock", "call"} => floor'[p] <= value[KindOf[p]]
               /\ rpc'[p] \in {"reply", "done"} => floor'[p] <= got[p]
    <3>1. CASE p = r
      <4>1. KindOf[r] \in Kind /\ value[KindOf[r]] \in Nat
        BY <1>t, Zenon DEF Numbers
      <4>2. QED
        BY <1>0, <1>p, <3>1, <4>1
    <3>2. CASE p # r
      BY <1>0, <1>p, <3>2, Zenon DEF Floors
    <3>3. QED
      BY <3>1, <3>2, Zenon
  <2>4. ASSUME NEW p \in Reader, rpc'[p] = "lock"
        PROVE  now'[p] <= cache[Home[p]][KindOf[p]].until
                 => floor'[p] <= cache[Home[p]][KindOf[p]].value
    <3>1. CASE p = r
      <4>1. Home[r] \in Client /\ KindOf[r] \in Kind /\ value[KindOf[r]] \in Nat
        BY <1>t, Zenon DEF Numbers
      <4>2. clock <= cache[Home[r]][KindOf[r]].until
              => cache[Home[r]][KindOf[r]].value = value[KindOf[r]]
        BY <2>1, <4>1, Zenon
      <4>3. QED
        BY <1>p, <3>1, <4>1, <4>2
    <3>2. CASE p # r
      BY <1>0, <1>p, <2>4, <3>2, Zenon DEF Floors, Entry
    <3>3. QED
      BY <3>1, <3>2, Zenon
  <2>5. ASSUME NEW p \in Reader, rpc'[p] = "lock", NEW q \in Reader,
               rpc'[q] = "reply" /\ granted[q] /\ Home[q] = Home[p] /\ KindOf[q] = KindOf[p],
               now'[p] <= now'[q] + LeaseSeconds
        PROVE  floor'[p] <= got[q]
    BY <1>0, <1>t, <1>p, <2>2, <2>5 DEF Numbers, Floors
  <2>6. QED
    BY <1>u, <2>3, <2>4, <2>5, Zenon DEF Floors, Entry
<1>13. QED
  BY <1>f, <1>g, <1>h, <1>5, <1>6, <1>10, <1>11, <1>12, Zenon DEF IInv, TypeOK

(* A Get is answered from the cache.                                       *)
LEMMA GetCachedKeeps ==
  ASSUME IInv, NEW r \in Reader, GetCached(r)
  PROVE  IInv'
<1>. USE LeaseAssumption
<1>0. /\ clock \in Nat /\ StoreOK /\ PutOK /\ LibOK /\ GetOK /\ ClientLocks /\ ServerLocks
      /\ Unleased /\ EntriesBacked /\ RepliesBacked /\ AckedIsClean /\ Floors
  BY Zenon DEF IInv, TypeOK
<1>t. Numbers
  BY TypedNumbers, Zenon DEF IInv
<1>a. /\ rpc[r] = "lock"
      /\ now[r] <= Entry(r).until
      /\ rpc' = [rpc EXCEPT ![r] = "done"]
      /\ got' = [got EXCEPT ![r] = Entry(r).value]
  BY Zenon DEF GetCached, Locks, Valid
<1>u. UNCHANGED <<clock, value, leaseGranted, serverLock, wpc, todo, target, acked,
                  revokes, dialed, dialLocked, up, cache, mutex, doomed, now, floor,
                  granted>>
  BY Zenon DEF GetCached, storeVars, putVars, libVars, getVars
<1>p. /\ \A q \in Reader : q # r => rpc'[q] = rpc[q] /\ got'[q] = got[q]
      /\ rpc'[r] = "done"
      /\ got'[r] = Entry(r).value
  BY <1>0, <1>a, Zenon DEF GetOK
<1>f. clock' \in Nat /\ StoreOK' /\ PutOK' /\ LibOK'
  BY <1>0, <1>u, SameStore, SamePut, SameLib, Zenon
<1>g. ServerLocks' /\ Unleased'
  BY <1>0, <1>u, SameLocks, SameUnleased, Zenon
<1>h. EntriesBacked'
  BY <1>0, <1>u, SameEntries, Zenon
<1>5. GetOK'
  BY <1>0, <1>t, <1>a, <1>u, Zenon DEF GetOK, Numbers, Entry
<1>6. ClientLocks'
  BY <1>0, <1>a, <1>u, <1>p, Zenon DEF ClientLocks
<1>10. RepliesBacked'
  <2>1. \A q \in Reader : rpc'[q] = "reply" => q # r /\ rpc[q] = "reply"
    BY <1>a, <1>p, Zenon
  <2>2. QED
    BY <1>0, <1>u, <1>p, <2>1, Zenon DEF RepliesBacked, Backed
<1>11. AckedIsClean'
  <2>1. \A q \in Reader : rpc'[q] = "reply" => rpc[q] = "reply"
    BY <1>p, Zenon
  <2>2. QED
    BY <1>0, <1>u, <2>1, AckedStays, Zenon
<1>12. Floors'
  <2>1. floor[r] <= Entry(r).value
    BY <1>0, <1>a, Zenon DEF Floors
  <2>2. QED
    BY <1>0, <1>a, <1>u, <1>p, <2>1, FloorsEnd, Zenon
<1>13. QED
  BY <1>f, <1>g, <1>h, <1>5, <1>6, <1>10, <1>11, <1>12, Zenon DEF IInv, TypeOK

(* A Get locks the key and calls the server.                               *)
LEMMA GetCallKeeps ==
  ASSUME IInv, NEW r \in Reader, GetCall(r)
  PROVE  IInv'
<1>. USE LeaseAssumption
<1>0. /\ clock \in Nat /\ StoreOK /\ PutOK /\ LibOK /\ GetOK /\ ClientLocks /\ ServerLocks
      /\ Unleased /\ EntriesBacked /\ RepliesBacked /\ AckedIsClean /\ Floors
  BY Zenon DEF IInv, TypeOK
<1>t. Numbers
  BY TypedNumbers, Zenon DEF IInv
<1>a. /\ rpc[r] = "lock"
      /\ mutex[Home[r]][KindOf[r]] = None
      /\ rpc' = [rpc EXCEPT ![r] = "call"]
      /\ mutex' = [mutex EXCEPT ![Home[r]][KindOf[r]] = r]
      /\ cache' = [cache EXCEPT ![Home[r]][KindOf[r]] = NoEntry]
  BY Zenon DEF GetCall, Locks, Valid
<1>u. UNCHANGED <<clock, value, leaseGranted, serverLock, wpc, todo, target, acked,
                  revokes, dialed, dialLocked, up, doomed, now, floor, got, granted>>
  BY Zenon DEF GetCall, storeVars, putVars, libVars, getVars
<1>p. /\ \A q \in Reader : q # r => rpc'[q] = rpc[q]
      /\ rpc'[r] = "call"
  BY <1>0, <1>a, Zenon DEF GetOK
<1>f. clock' \in Nat /\ StoreOK' /\ PutOK'
  BY <1>0, <1>u, SameStore, SamePut, Zenon
<1>g. ServerLocks' /\ Unleased'
  BY <1>0, <1>u, SameLocks, SameUnleased, Zenon
<1>4. LibOK'
  BY <1>0, <1>a, <1>u, Zenon DEF LibOK
<1>5. GetOK'
  BY <1>0, <1>a, <1>u, Zenon DEF GetOK
<1>6. ClientLocks'
  <2>1. \A q \in Reader : mutex'[Home[q]][KindOf[q]] =
          IF Home[q] = Home[r] /\ KindOf[q] = KindOf[r] THEN r ELSE mutex[Home[q]][KindOf[q]]
    BY <1>0, <1>t, <1>a, Zenon DEF Numbers, LibOK
  <2>2. QED
    BY <1>0, <1>a, <1>p, <2>1 DEF ClientLocks
<1>9. EntriesBacked'
  <2>1. \A d \in Client, j \in Kind : cache'[d][j] = cache[d][j] \/ cache'[d][j] = NoEntry
    BY <1>0, <1>a, Zenon DEF LibOK
  <2>2. QED
    <3>1. NoEntry.until < clock
      BY <1>0 DEF NoEntry
    <3>2. \A d \in Client, j \in Kind : Backed(d, j, cache'[d][j].value, cache'[d][j].until)
      <4>1. TAKE d \in Client, j \in Kind
      <4>2. CASE cache'[d][j] = cache[d][j]
        BY <1>0, <4>2, Zenon DEF EntriesBacked
      <4>3. CASE cache'[d][j] = NoEntry
        BY <3>1, <4>3, Zenon DEF Backed
      <4>4. QED
        BY <2>1, <4>2, <4>3, Zenon
    <3>3. QED
      BY <1>u, <3>2, Zenon DEF EntriesBacked, Backed
<1>10. RepliesBacked'
  <2>1. \A q \in Reader : rpc'[q] = "reply" => q # r /\ rpc[q] = "reply"
    BY <1>a, <1>p, Zenon
  <2>2. QED
    BY <1>0, <1>u, <1>p, <2>1, Zenon DEF RepliesBacked, Backed
<1>11. AckedIsClean'
  <2>1. \A d \in Client, j \in Kind : cache'[d][j] = cache[d][j] \/ cache'[d][j] = NoEntry
    BY <1>0, <1>a DEF LibOK
  <2>2. \A q \in Reader : rpc'[q] = "reply" => rpc[q] = "reply"
    BY <1>p, Zenon
  <2>3. \A w \in Writer : wpc[w] = "wait" => target[w] \in Client /\ KindOf[w] \in Kind
    BY <1>0, <1>t, Zenon DEF ServerLocks, Numbers
  <2>4. QED
    BY <1>0, <1>u, <2>1, <2>2, <2>3, AckedStays, Zenon
<1>12. Floors'
  <2>1. \A q \in Reader : Entry(q)' = Entry(q) \/ Entry(q)' = NoEntry
    BY <1>0, <1>t, <1>a, SMTT(60) DEF Numbers, LibOK, Entry
  <2>2. \A q \in Reader : Entry(q)' = NoEntry => ~ (now[q] <= Entry(q)'.until)
    BY <1>t, NoEntryOld, Zenon DEF Numbers
  <2>3. QED
    BY <1>0, <1>a, <1>u, <1>p, <2>1, <2>2, SMTT(60) DEF Floors
<1>13. QED
  BY <1>f, <1>g, <1>4, <1>5, <1>6, <1>9, <1>10, <1>11, <1>12, Zenon DEF IInv, TypeOK

(* The server answers with the stored version and perhaps a lease.         *)
LEMMA ServerGetKeeps ==
  ASSUME IInv, NEW r \in Reader, NEW want \in BOOLEAN, ServerGet(r, want)
  PROVE  IInv'
<1>. USE LeaseAssumption
<1>0. /\ clock \in Nat /\ StoreOK /\ PutOK /\ LibOK /\ GetOK /\ ClientLocks /\ ServerLocks
      /\ Unleased /\ EntriesBacked /\ RepliesBacked /\ AckedIsClean /\ Floors
  BY Zenon DEF IInv, TypeOK
<1>t. Numbers
  BY TypedNumbers, Zenon DEF IInv
<1>a. /\ rpc[r] \in {"call", "lost"}
      /\ serverLock[KindOf[r]] = None
      /\ rpc' = [rpc EXCEPT ![r] = IF @ = "call" THEN "reply" ELSE "failed"]
      /\ got' = [got EXCEPT ![r] = value[KindOf[r]]]
      /\ granted' = [granted EXCEPT ![r] = ServerGrants(r, want)]
      /\ leaseGranted' = IF ServerGrants(r, want)
                         THEN [leaseGranted EXCEPT ![KindOf[r]][Home[r]] =
                                 clock + LeaseSeconds + LeaseGuardSeconds]
                         ELSE leaseGranted
  BY Zenon DEF ServerGet, ServerGrants
<1>u. UNCHANGED <<clock, value, serverLock, wpc, todo, target, acked, revokes, dialed,
                  dialLocked, up, cache, mutex, doomed, now, floor>>
  BY Zenon DEF ServerGet, storeVars, putVars, libVars, getVars
<1>p. /\ \A q \in Reader : q # r => rpc'[q] = rpc[q] /\ got'[q] = got[q] /\ granted'[q] = granted[q]
      /\ rpc'[r] = (IF rpc[r] = "call" THEN "reply" ELSE "failed")
      /\ got'[r] = value[KindOf[r]]
      /\ granted'[r] = ServerGrants(r, want)
  BY <1>0, <1>a, Zenon DEF GetOK
<1>f. clock' \in Nat /\ PutOK' /\ LibOK'
  BY <1>0, <1>u, SamePut, SameLib, Zenon
<1>g. ServerLocks'
  BY <1>0, <1>u, SameLocks, Zenon
<1>2. StoreOK'
  <2>1. clock + LeaseSeconds + LeaseGuardSeconds \in Nat
    BY <1>0
  <2>2. QED
    BY <1>0, <1>t, <1>a, <1>u, <2>1, Zenon DEF StoreOK, Numbers
<1>5. GetOK'
  BY <1>0, <1>t, <1>a, <1>u, Zenon DEF GetOK, Numbers, ServerGrants
<1>6. ClientLocks'
  BY <1>0, <1>a, <1>u, <1>p DEF ClientLocks
<1>8. Unleased'
  <2>1. \A k \in Kind, c \in Client : value[k] = 0 => leaseGranted'[k][c] = leaseGranted[k][c]
    BY <1>0, <1>t, <1>a, Zenon DEF StoreOK, Numbers, ServerGrants
  <2>2. QED
    BY <1>0, <1>u, <2>1 DEF Unleased
<1>l. \A k \in Kind, c \in Client : leaseGranted[k][c] <= leaseGranted'[k][c]
  <2>1. CASE ServerGrants(r, want)
    <3>1. leaseGranted[KindOf[r]][Home[r]] <= clock
      <4>1. Grants(r)
        BY <2>1, Zenon DEF ServerGrants
      <4>2. leaseGranted[KindOf[r]][Home[r]] \in Nat
        BY <1>t, Zenon DEF Numbers
      <4>3. QED
        BY <1>0, <4>1, <4>2 DEF Grants
    <3>2. QED
      BY <1>0, <1>t, <1>a, <2>1, <3>1, SMTT(60) DEF StoreOK, Numbers
  <2>2. CASE ~ ServerGrants(r, want)
    BY <1>t, <1>a, <2>2 DEF Numbers
  <2>3. QED
    BY <2>1, <2>2, Zenon
<1>m. \A k \in Kind, c \in Client : leaseGranted'[k][c] \in Nat
  BY <1>2 DEF StoreOK
<1>b. ASSUME NEW d \in Client, NEW j \in Kind, NEW v, NEW u \in Int, Backed(d, j, v, u)
      PROVE  BackedNext(d, j, v, u)
  <2>1. /\ leaseGranted[j][d] \in Nat /\ leaseGranted'[j][d] \in Nat
        /\ leaseGranted[j][d] <= leaseGranted'[j][d]
    BY <1>t, <1>l, <1>m, Zenon DEF Numbers
  <2>2. u + LeaseGuardSeconds <= leaseGranted[j][d]
          => u + LeaseGuardSeconds <= leaseGranted'[j][d]
    BY <2>1
  <2>3. QED
    BY <1>b, <1>u, <2>2, Zenon DEF Backed, BackedNext
<1>9. EntriesBacked'
  <2>. SUFFICES ASSUME NEW d \in Client, NEW j \in Kind
                PROVE  BackedNext(d, j, cache[d][j].value, cache[d][j].until)
    BY <1>u, Zenon DEF EntriesBacked, Backed, BackedNext
  <2>. QED
    BY <1>0, <1>t, <1>b, Zenon DEF Numbers, EntriesBacked
<1>10. RepliesBacked'
  <2>1. ASSUME NEW q \in Reader, q # r, rpc'[q] = "reply", granted'[q]
        PROVE  BackedNext(Home[q], KindOf[q], got'[q], now'[q] + LeaseSeconds)
    <3>1. Backed(Home[q], KindOf[q], got[q], now[q] + LeaseSeconds)
      BY <1>0, <1>p, <2>1, Zenon DEF RepliesBacked
    <3>2. Home[q] \in Client /\ KindOf[q] \in Kind /\ now[q] + LeaseSeconds \in Int
      BY <1>t, SMTT(60) DEF Numbers
    <3>3. BackedNext(Home[q], KindOf[q], got[q], now[q] + LeaseSeconds)
      BY <1>b, <3>1, <3>2, Zenon
    <3>4. QED
      BY <1>p, <1>u, <2>1, <3>3, Zenon
  <2>2. ASSUME granted'[r]
        PROVE  BackedNext(Home[r], KindOf[r], got'[r], now'[r] + LeaseSeconds)
    <3>1. leaseGranted'[KindOf[r]][Home[r]] = clock + LeaseSeconds + LeaseGuardSeconds
      <4>1. ServerGrants(r, want)
        BY <1>p, <2>2, Zenon
      <4>2. QED
        BY <1>0, <1>t, <1>a, <4>1 DEF StoreOK, Numbers
    <3>2. now[r] <= clock /\ got'[r] = value[KindOf[r]]
      BY <1>0, <1>p, Zenon DEF Floors
    <3>3. \A w \in Writer : serverLock[KindOf[r]] # w
      BY <1>a, Zenon
    <3>4. QED
      BY <1>0, <1>t, <1>u, <3>1, <3>2, <3>3, SMTT(60) DEF Numbers, BackedNext
  <2>3. QED
    BY <2>1, <2>2, Zenon DEF RepliesBacked, Backed, BackedNext
<1>11. AckedIsClean'
  <2>1. ASSUME NEW w \in Writer, wpc[w] = "wait"
        PROVE  KindOf[r] # KindOf[w]
    BY <1>0, <1>a, <2>1 DEF ServerLocks
  <2>2. \A q \in Reader : rpc'[q] = "reply" => rpc[q] = "reply" \/ q = r
    BY <1>p, Zenon
  <2>3. QED
    BY <1>0, <1>u, <2>1, <2>2, AckedStays, Zenon
<1>12. Floors'
  <2>1. ASSUME NEW p \in Reader
        PROVE  /\ now[p] <= clock
               /\ rpc'[p] \in {"lock", "call"} => floor[p] <= value[KindOf[p]]
    BY <1>0, <1>p, Zenon DEF Floors
  <2>2. ASSUME NEW p \in Reader, rpc'[p] \in {"reply", "done"}
        PROVE  floor[p] <= got'[p]
    BY <1>0, <1>a, <1>p, <2>2 DEF Floors
  <2>3. ASSUME NEW p \in Reader, rpc'[p] = "lock"
        PROVE  p # r /\ rpc[p] = "lock"
    BY <1>p, <2>3, Zenon
  <2>4. ASSUME NEW p \in Reader, rpc'[p] = "lock", NEW q \in Reader,
               rpc'[q] = "reply" /\ granted'[q] /\ Home[q] = Home[p] /\ KindOf[q] = KindOf[p],
               now[p] <= now[q] + LeaseSeconds
        PROVE  floor[p] <= got'[q]
    BY <1>0, <1>p, <2>3, <2>4, SMTT(60) DEF Floors
  <2>5. QED
    BY <1>0, <1>u, <2>1, <2>2, <2>3, <2>4, Zenon DEF Floors, Entry
<1>13. QED
  BY <1>f, <1>g, <1>2, <1>5, <1>6, <1>8, <1>9, <1>10, <1>11, <1>12, Zenon DEF IInv, TypeOK

(* The reply is cached until its lease ends.                               *)
LEMMA GetReturnKeeps ==
  ASSUME IInv, NEW r \in Reader, GetReturn(r)
  PROVE  IInv'
<1>. USE LeaseAssumption
<1>0. /\ clock \in Nat /\ StoreOK /\ PutOK /\ LibOK /\ GetOK /\ ClientLocks /\ ServerLocks
      /\ Unleased /\ EntriesBacked /\ RepliesBacked /\ AckedIsClean /\ Floors
  BY Zenon DEF IInv, TypeOK
<1>t. Numbers
  BY TypedNumbers, Zenon DEF IInv
<1>a. /\ rpc[r] = "reply"
      /\ rpc' = [rpc EXCEPT ![r] = "done"]
      /\ mutex' = [mutex EXCEPT ![Home[r]][KindOf[r]] = None]
      /\ cache' = IF granted[r]
                  THEN [cache EXCEPT ![Home[r]][KindOf[r]] =
                          [value |-> got[r], until |-> now[r] + LeaseSeconds]]
                  ELSE cache
  BY Zenon DEF GetReturn, LeaseEnd
<1>u. UNCHANGED <<clock, value, leaseGranted, serverLock, wpc, todo, target, acked,
                  revokes, dialed, dialLocked, up, doomed, now, floor, got, granted>>
  BY Zenon DEF GetReturn, storeVars, putVars, libVars, getVars
<1>p. /\ \A q \in Reader : q # r => rpc'[q] = rpc[q]
      /\ rpc'[r] = "done"
  BY <1>0, <1>a, Zenon DEF GetOK
<1>f. clock' \in Nat /\ StoreOK' /\ PutOK'
  BY <1>0, <1>u, SameStore, SamePut, Zenon
<1>g. ServerLocks' /\ Unleased'
  BY <1>0, <1>u, SameLocks, SameUnleased, Zenon
<1>4. LibOK'
  <2>1. [value |-> got[r], until |-> now[r] + LeaseSeconds] \in [value : Nat, until : Nat]
    BY <1>t DEF Numbers
  <2>2. QED
    BY <1>0, <1>t, <1>a, <1>u, <2>1, Zenon DEF LibOK, Numbers
<1>5. GetOK'
  BY <1>0, <1>a, <1>u, Zenon DEF GetOK
<1>6. ClientLocks'
  <2>1. \A q \in Reader : mutex'[Home[q]][KindOf[q]] =
          IF Home[q] = Home[r] /\ KindOf[q] = KindOf[r] THEN None ELSE mutex[Home[q]][KindOf[q]]
    BY <1>0, <1>t, <1>a, Zenon DEF Numbers, LibOK
  <2>2. QED
    BY <1>0, <1>a, <1>p, <2>1 DEF ClientLocks
<1>9. EntriesBacked'
  <2>1. ASSUME NEW c \in Client, NEW k \in Kind, cache'[c][k] # cache[c][k]
        PROVE  /\ cache'[c][k].value = got[r] /\ cache'[c][k].until = now[r] + LeaseSeconds
               /\ granted[r] /\ c = Home[r] /\ k = KindOf[r]
    BY <1>0, <1>t, <1>a, <2>1, Zenon DEF LibOK, Numbers
  <2>2. granted[r] => Backed(Home[r], KindOf[r], got[r], now[r] + LeaseSeconds)
    BY <1>0, <1>a, Zenon DEF RepliesBacked
  <2>3. ASSUME NEW c \in Client, NEW k \in Kind
        PROVE  Backed(c, k, cache'[c][k].value, cache'[c][k].until)
    BY <1>0, <2>1, <2>2 DEF EntriesBacked
  <2>4. QED
    BY <1>u, <2>3, Zenon DEF EntriesBacked, Backed
<1>10. RepliesBacked'
  <2>1. \A q \in Reader : rpc'[q] = "reply" => q # r /\ rpc[q] = "reply"
    BY <1>a, <1>p, Zenon
  <2>2. QED
    BY <1>0, <1>u, <1>p, <2>1, Zenon DEF RepliesBacked, Backed
<1>11. AckedIsClean'
  <2>1. ASSUME NEW w \in Writer, wpc[w] = "wait", acked[w]
        PROVE  cache'[target[w]][KindOf[w]] = cache[target[w]][KindOf[w]]
    <3>1. target[w] \in Client /\ KindOf[w] \in Kind
      BY <1>0, <1>t, <2>1, Zenon DEF ServerLocks, Numbers
    <3>2. ~ (Home[r] = target[w] /\ KindOf[r] = KindOf[w])
      BY <1>0, <1>a, <2>1, Zenon DEF AckedIsClean
    <3>3. QED
      BY <1>0, <1>t, <1>a, <3>1, <3>2, Zenon DEF LibOK, Numbers
  <2>2. QED
    <3>1. \A q \in Reader : rpc'[q] = "reply" => rpc[q] = "reply"
      BY <1>a, <1>p, Zenon
    <3>2. QED
      BY <1>0, <1>u, <2>1, <3>1, AckedStays, Zenon
<1>12. Floors'
  <2>1. ASSUME NEW p \in Reader
        PROVE  \/ Entry(p)' = Entry(p)
               \/ /\ Entry(p)'.value = got[r] /\ Entry(p)'.until = now[r] + LeaseSeconds
                  /\ granted[r] /\ Home[p] = Home[r] /\ KindOf[p] = KindOf[r]
    BY <1>0, <1>t, <1>a, Zenon DEF LibOK, Numbers, Entry
  <2>2. ASSUME NEW p \in Reader, rpc'[p] = "lock"
        PROVE  p # r /\ rpc[p] = "lock"
    BY <1>p, <2>2, Zenon
  <2>3. ASSUME NEW p \in Reader, rpc'[p] = "lock", now[p] <= Entry(p)'.until
        PROVE  floor[p] <= Entry(p)'.value
    BY <1>0, <1>a, <2>1, <2>2, <2>3 DEF Floors
  <2>4. QED
    BY <1>0, <1>a, <1>u, <1>p, <2>2, <2>3, SMTT(60) DEF Floors
<1>13. QED
  BY <1>f, <1>g, <1>4, <1>5, <1>6, <1>9, <1>10, <1>11, <1>12 DEF IInv, TypeOK

(* A failed call leaves nothing in the cache.                              *)
LEMMA GetFailsKeeps ==
  ASSUME IInv, NEW r \in Reader, GetFails(r)
  PROVE  IInv'
<1>. USE LeaseAssumption
<1>0. /\ clock \in Nat /\ StoreOK /\ PutOK /\ LibOK /\ GetOK /\ ClientLocks /\ ServerLocks
      /\ Unleased /\ EntriesBacked /\ RepliesBacked /\ AckedIsClean /\ Floors
  BY Zenon DEF IInv, TypeOK
<1>t. Numbers
  BY TypedNumbers, Zenon DEF IInv
<1>a. /\ rpc[r] \in {"call", "reply"}
      /\ rpc' = [rpc EXCEPT ![r] = IF @ = "call" THEN "lost" ELSE "failed"]
      /\ mutex' = [mutex EXCEPT ![Home[r]][KindOf[r]] = None]
  BY Zenon DEF GetFails
<1>u. UNCHANGED <<clock, value, leaseGranted, serverLock, wpc, todo, target, acked,
                  revokes, dialed, dialLocked, up, cache, doomed, now, floor, got,
                  granted>>
  BY Zenon DEF GetFails, storeVars, putVars, libVars, getVars
<1>p. /\ \A q \in Reader : q # r => rpc'[q] = rpc[q]
      /\ rpc'[r] = (IF rpc[r] = "call" THEN "lost" ELSE "failed")
  BY <1>0, <1>a, Zenon DEF GetOK
<1>f. clock' \in Nat /\ StoreOK' /\ PutOK'
  BY <1>0, <1>u, SameStore, SamePut, Zenon
<1>g. ServerLocks' /\ Unleased'
  BY <1>0, <1>u, SameLocks, SameUnleased, Zenon
<1>h. EntriesBacked'
  BY <1>0, <1>u, SameEntries, Zenon
<1>4. LibOK'
  BY <1>0, <1>a, <1>u, Zenon DEF LibOK
<1>5. GetOK'
  BY <1>0, <1>a, <1>u, Zenon DEF GetOK
<1>6. ClientLocks'
  <2>1. \A q \in Reader : mutex'[Home[q]][KindOf[q]] =
          IF Home[q] = Home[r] /\ KindOf[q] = KindOf[r] THEN None ELSE mutex[Home[q]][KindOf[q]]
    BY <1>0, <1>t, <1>a, Zenon DEF Numbers, LibOK
  <2>2. QED
    BY <1>0, <1>a, <1>p, <2>1 DEF ClientLocks
<1>10. RepliesBacked'
  <2>1. \A q \in Reader : rpc'[q] = "reply" => q # r /\ rpc[q] = "reply"
    BY <1>a, <1>p
  <2>2. QED
    BY <1>0, <1>u, <1>p, <2>1, Zenon DEF RepliesBacked, Backed
<1>11. AckedIsClean'
  BY <1>0, <1>a, <1>u, <1>p DEF AckedIsClean
<1>12. Floors'
  <2>1. rpc'[r] \in {"lost", "failed"}
    BY <1>p, Zenon
  <2>2. rpc'[r] # "done"
    BY <2>1, Zenon
  <2>3. QED
    BY <1>0, <1>u, <1>p, <2>1, <2>2, FloorsEnd, Zenon
<1>13. QED
  BY <1>f, <1>g, <1>h, <1>4, <1>5, <1>6, <1>10, <1>11, <1>12, Zenon DEF IInv, TypeOK

(* deleteinvalid looks at an entry.                                        *)
LEMMA SweepLooksKeeps ==
  ASSUME IInv, NEW c \in Client, NEW k \in Kind, SweepLooks(c, k)
  PROVE  IInv'
<1>. USE LeaseAssumption
<1>0. /\ clock \in Nat /\ StoreOK /\ PutOK /\ LibOK /\ GetOK /\ ClientLocks /\ ServerLocks
      /\ Unleased /\ EntriesBacked /\ RepliesBacked /\ AckedIsClean /\ Floors
  BY Zenon DEF IInv, TypeOK
<1>t. Numbers
  BY TypedNumbers, Zenon DEF IInv
<1>a. /\ doomed' = [doomed EXCEPT ![c][k] = TRUE]
  BY Zenon DEF SweepLooks
<1>u. UNCHANGED <<clock, value, leaseGranted, serverLock, wpc, todo, target, acked,
                  revokes, dialed, dialLocked, up, cache, mutex, rpc, now, floor, got,
                  granted>>
  BY Zenon DEF SweepLooks, storeVars, putVars, libVars, getVars
<1>f. clock' \in Nat /\ StoreOK' /\ PutOK' /\ GetOK'
  BY <1>0, <1>u, SameStore, SamePut, SameGet, Zenon
<1>g. ClientLocks' /\ ServerLocks' /\ Unleased' /\ AckedIsClean'
  BY <1>0, <1>u, SameMutexes, SameLocks, SameUnleased, SameAcked, Zenon
<1>h. EntriesBacked' /\ RepliesBacked' /\ Floors'
  BY <1>0, <1>u, SameEntries, SameReplies, SameFloors, Zenon
<1>4. LibOK'
  BY <1>0, <1>a, <1>u, Zenon DEF LibOK
<1>13. QED
  BY <1>f, <1>g, <1>h, <1>4, Zenon DEF IInv, TypeOK

(* deleteinvalid deletes an entry.                                         *)
LEMMA SweepDeletesKeeps ==
  ASSUME IInv, NEW c \in Client, NEW k \in Kind, SweepDeletes(c, k)
  PROVE  IInv'
<1>. USE LeaseAssumption
<1>0. /\ clock \in Nat /\ StoreOK /\ PutOK /\ LibOK /\ GetOK /\ ClientLocks /\ ServerLocks
      /\ Unleased /\ EntriesBacked /\ RepliesBacked /\ AckedIsClean /\ Floors
  BY Zenon DEF IInv, TypeOK
<1>t. Numbers
  BY TypedNumbers, Zenon DEF IInv
<1>a. /\ doomed' = [doomed EXCEPT ![c][k] = FALSE]
      /\ cache' = [cache EXCEPT ![c][k] = NoEntry]
  BY Zenon DEF SweepDeletes
<1>u. UNCHANGED <<clock, value, leaseGranted, serverLock, wpc, todo, target, acked,
                  revokes, dialed, dialLocked, up, mutex, rpc, now, floor, got, granted>>
  BY Zenon DEF SweepDeletes, storeVars, putVars, libVars, getVars
<1>f. clock' \in Nat /\ StoreOK' /\ PutOK' /\ GetOK'
  BY <1>0, <1>u, SameStore, SamePut, SameGet, Zenon
<1>g. ClientLocks' /\ ServerLocks' /\ Unleased'
  BY <1>0, <1>u, SameMutexes, SameLocks, SameUnleased, Zenon
<1>h. RepliesBacked'
  BY <1>0, <1>u, SameReplies, Zenon
<1>4. LibOK'
  BY <1>0, <1>a, <1>u, Zenon DEF LibOK
<1>9. EntriesBacked'
  <2>1. \A d \in Client, j \in Kind : cache'[d][j] = cache[d][j] \/ cache'[d][j] = NoEntry
    BY <1>0, <1>a, Zenon DEF LibOK
  <2>2. QED
    <3>1. NoEntry.until < clock
      BY <1>0 DEF NoEntry
    <3>2. \A d \in Client, j \in Kind : Backed(d, j, cache'[d][j].value, cache'[d][j].until)
      <4>1. TAKE d \in Client, j \in Kind
      <4>2. CASE cache'[d][j] = cache[d][j]
        BY <1>0, <4>2, Zenon DEF EntriesBacked
      <4>3. CASE cache'[d][j] = NoEntry
        BY <3>1, <4>3, Zenon DEF Backed
      <4>4. QED
        BY <2>1, <4>2, <4>3, Zenon
    <3>3. QED
      BY <1>u, <3>2, Zenon DEF EntriesBacked, Backed
<1>11. AckedIsClean'
  <2>1. \A d \in Client, j \in Kind : cache'[d][j] = cache[d][j] \/ cache'[d][j] = NoEntry
    BY <1>0, <1>a DEF LibOK
  <2>2. \A w \in Writer : wpc[w] = "wait" => target[w] \in Client /\ KindOf[w] \in Kind
    BY <1>0, <1>t, Zenon DEF ServerLocks, Numbers
  <2>3. QED
    BY <1>0, <1>u, <2>1, <2>2, AckedStays, Zenon
<1>12. Floors'
  <2>1. \A q \in Reader : Entry(q)' = Entry(q) \/ Entry(q)' = NoEntry
    BY <1>0, <1>t, <1>a, SMTT(60) DEF Numbers, LibOK, Entry
  <2>2. \A q \in Reader : Entry(q)' = NoEntry => ~ (now[q] <= Entry(q)'.until)
    BY <1>t, NoEntryOld, Zenon DEF Numbers
  <2>3. QED
    BY <1>0, <1>u, <2>1, <2>2, Zenon DEF Floors
<1>13. QED
  BY <1>f, <1>g, <1>h, <1>4, <1>9, <1>11, <1>12, Zenon DEF IInv, TypeOK

(* A libstore that is gone keeps nobody from anything.                     *)
LEMMA CrashKeeps ==
  ASSUME IInv, NEW c \in Client, Crash(c)
  PROVE  IInv'
<1>. USE LeaseAssumption
<1>0. /\ clock \in Nat /\ StoreOK /\ PutOK /\ LibOK /\ GetOK /\ ClientLocks /\ ServerLocks
      /\ Unleased /\ EntriesBacked /\ RepliesBacked /\ AckedIsClean /\ Floors
  BY Zenon DEF IInv, TypeOK
<1>t. Numbers
  BY TypedNumbers, Zenon DEF IInv
<1>a. /\ up' = [up EXCEPT ![c] = FALSE]
  BY Zenon DEF Crash
<1>u. UNCHANGED <<clock, value, leaseGranted, serverLock, wpc, todo, target, acked,
                  revokes, dialed, dialLocked, cache, mutex, doomed, rpc, now, floor,
                  got, granted>>
  BY Zenon DEF Crash, storeVars, putVars, libVars, getVars
<1>f. clock' \in Nat /\ StoreOK' /\ PutOK' /\ GetOK'
  BY <1>0, <1>u, SameStore, SamePut, SameGet, Zenon
<1>g. ClientLocks' /\ ServerLocks' /\ Unleased' /\ AckedIsClean'
  BY <1>0, <1>u, SameMutexes, SameLocks, SameUnleased, SameAcked, Zenon
<1>h. EntriesBacked' /\ RepliesBacked' /\ Floors'
  BY <1>0, <1>u, SameEntries, SameReplies, SameFloors, Zenon
<1>4. LibOK'
  BY <1>0, <1>a, <1>u, Zenon DEF LibOK
<1>13. QED
  BY <1>f, <1>g, <1>h, <1>4, Zenon DEF IInv, TypeOK

-----------------------------------------------------------------------------
(* The steps of the storage server.                                        *)

(* RevokeLease deletes the value or the list of a key, not both.           *)
OneKind == \A j, k \in Kind : j = k

(* A Put creates the key: there are no leases to revoke.                   *)
LEMMA PutCreatesKeeps ==
  ASSUME IInv, NEW w \in Writer, PutCreates(w)
  PROVE  IInv'
<1>. USE LeaseAssumption
<1>0. /\ clock \in Nat /\ StoreOK /\ PutOK /\ LibOK /\ GetOK /\ ClientLocks /\ ServerLocks
      /\ Unleased /\ EntriesBacked /\ RepliesBacked /\ AckedIsClean /\ Floors
  BY Zenon DEF IInv, TypeOK
<1>t. Numbers
  BY TypedNumbers, Zenon DEF IInv
<1>a. /\ wpc[w] = "idle"
      /\ serverLock[KindOf[w]] = None
      /\ value[KindOf[w]] = 0
      /\ value' = [value EXCEPT ![KindOf[w]] = 1]
      /\ wpc' = [wpc EXCEPT ![w] = "done"]
  BY Zenon DEF PutCreates
<1>u. UNCHANGED <<clock, leaseGranted, serverLock, todo, target, acked, revokes, dialed,
                  dialLocked, up, cache, mutex, doomed, rpc, now, floor, got, granted>>
  BY Zenon DEF PutCreates, storeVars, putVars, libVars, getVars
<1>p. /\ \A v \in Writer : v # w => wpc'[v] = wpc[v]
      /\ wpc'[w] = "done"
  BY <1>0, <1>a, Zenon DEF PutOK
<1>f. clock' \in Nat /\ LibOK' /\ GetOK'
  BY <1>0, <1>u, SameLib, SameGet, Zenon
<1>g. ClientLocks'
  BY <1>0, <1>u, SameMutexes, Zenon
<1>2. StoreOK'
  BY <1>0, <1>t, <1>a, <1>u, Zenon DEF StoreOK, Numbers
<1>3. PutOK'
  BY <1>0, <1>a, <1>u, Zenon DEF PutOK
<1>7. ServerLocks'
  BY <1>0, <1>a, <1>u, <1>p DEF ServerLocks
<1>8. Unleased'
  BY <1>0, <1>t, <1>a, <1>u, Zenon DEF StoreOK, Numbers, Unleased
<1>b. ASSUME NEW d \in Client, NEW j \in Kind, NEW v, NEW u \in Int, Backed(d, j, v, u)
      PROVE  BackedNext(d, j, v, u)
  <2>1. CASE j = KindOf[w]
    <3>1. leaseGranted[j][d] = 0
      BY <1>0, <1>a, <2>1, Zenon DEF Unleased
    <3>2. u < clock
      BY <1>0, <1>b, <3>1 DEF Backed
    <3>3. QED
      BY <1>u, <3>2, Zenon DEF BackedNext
  <2>2. CASE j # KindOf[w]
    <3>1. value'[j] = value[j]
      BY <1>0, <1>a, <2>2, Zenon DEF StoreOK
    <3>2. QED
      BY <1>b, <1>u, <3>1, Zenon DEF Backed, BackedNext
  <2>3. QED
    BY <2>1, <2>2, Zenon
<1>9. EntriesBacked'
  <2>. SUFFICES ASSUME NEW d \in Client, NEW j \in Kind
                PROVE  BackedNext(d, j, cache[d][j].value, cache[d][j].until)
    BY <1>u, Zenon DEF EntriesBacked, Backed, BackedNext
  <2>. QED
    BY <1>0, <1>t, <1>b, Zenon DEF Numbers, EntriesBacked
<1>10. RepliesBacked'
  <2>. SUFFICES ASSUME NEW q \in Reader, rpc[q] = "reply" /\ granted[q]
                PROVE  BackedNext(Home[q], KindOf[q], got[q], now[q] + LeaseSeconds)
    BY <1>u, Zenon DEF RepliesBacked, Backed, BackedNext
  <2>1. Home[q] \in Client /\ KindOf[q] \in Kind /\ now[q] + LeaseSeconds \in Int
    BY <1>t DEF Numbers
  <2>2. Backed(Home[q], KindOf[q], got[q], now[q] + LeaseSeconds)
    BY <1>0, Zenon DEF RepliesBacked
  <2>3. QED
    BY <1>b, <2>1, <2>2, Zenon
<1>11. AckedIsClean'
  BY <1>0, <1>u, <1>p, Zenon DEF AckedIsClean
<1>12. Floors'
  <2>1. ASSUME NEW k \in Kind
        PROVE  value[k] <= value'[k]
    <3>1. value[k] \in Nat
      BY <1>t, Zenon DEF Numbers
    <3>2. CASE k = KindOf[w]
      BY <1>0, <1>a, <3>1, <3>2 DEF StoreOK
    <3>3. CASE k # KindOf[w]
      BY <1>0, <1>a, <3>1, <3>3 DEF StoreOK
    <3>4. QED
      BY <3>2, <3>3, Zenon
  <2>2. \A k \in Kind : value'[k] \in Nat
    BY <1>2, Zenon DEF StoreOK
  <2>3. ASSUME NEW q \in Reader, rpc[q] \in {"lock", "call"}
        PROVE  floor[q] <= value'[KindOf[q]]
    <3>1. floor[q] <= value[KindOf[q]]
      BY <1>0, <2>3, Zenon DEF Floors
    <3>2. floor[q] \in Nat /\ KindOf[q] \in Kind
      BY <1>t, Zenon DEF Numbers
    <3>3. value[KindOf[q]] \in Nat
      BY <1>t, <3>2, Zenon DEF Numbers
    <3>4. value'[KindOf[q]] \in Nat /\ value[KindOf[q]] <= value'[KindOf[q]]
      BY <2>1, <2>2, <3>2, Zenon
    <3>5. QED
      BY <3>1, <3>2, <3>3, <3>4
  <2>4. QED
    BY <1>0, <1>u, <2>3, Zenon DEF Floors, Entry
<1>13. QED
  BY <1>f, <1>g, <1>2, <1>3, <1>7, <1>8, <1>9, <1>10, <1>11, <1>12, Zenon DEF IInv, TypeOK

(* A Put locks the key and lists the libstores that hold leases.           *)
LEMMA PutLocksKeeps ==
  ASSUME IInv, NEW w \in Writer, PutLocks(w)
  PROVE  IInv'
<1>. USE LeaseAssumption
<1>0. /\ clock \in Nat /\ StoreOK /\ PutOK /\ LibOK /\ GetOK /\ ClientLocks /\ ServerLocks
      /\ Unleased /\ EntriesBacked /\ RepliesBacked /\ AckedIsClean /\ Floors
  BY Zenon DEF IInv, TypeOK
<1>t. Numbers
  BY TypedNumbers, Zenon DEF IInv
<1>a. /\ wpc[w] = "idle"
      /\ serverLock[KindOf[w]] = None
      /\ serverLock' = [serverLock EXCEPT ![KindOf[w]] = w]
      /\ todo' = [todo EXCEPT ![w] = Holders(KindOf[w])]
      /\ wpc' = [wpc EXCEPT ![w] = "revoke"]
  BY Zenon DEF PutLocks
<1>u. UNCHANGED <<clock, value, leaseGranted, target, acked, revokes, dialed, dialLocked,
                  up, cache, mutex, doomed, rpc, now, floor, got, granted>>
  BY Zenon DEF PutLocks, storeVars, putVars, libVars, getVars
<1>p. /\ \A v \in Writer : v # w => todo'[v] = todo[v] /\ wpc'[v] = wpc[v]
      /\ todo'[w] = Holders(KindOf[w])
      /\ wpc'[w] = "revoke"
  BY <1>0, <1>a, Zenon DEF PutOK
<1>f. clock' \in Nat /\ LibOK' /\ GetOK'
  BY <1>0, <1>u, SameLib, SameGet, Zenon
<1>g. ClientLocks' /\ Unleased'
  BY <1>0, <1>u, SameMutexes, SameUnleased, Zenon
<1>h. Floors'
  BY <1>0, <1>u, SameFloors, Zenon
<1>2. StoreOK'
  BY <1>0, <1>t, <1>a, <1>u, Zenon DEF StoreOK, Numbers
<1>3. PutOK'
  BY <1>0, <1>a, <1>u, Zenon DEF PutOK, Holders
<1>7. ServerLocks'
  <2>1. \A j \in Kind : serverLock'[j] = IF j = KindOf[w] THEN w ELSE serverLock[j]
    BY <1>0, <1>a, Zenon DEF StoreOK
  <2>2. \A v \in Writer : v # None /\ KindOf[v] \in Kind
    BY <1>t, Zenon DEF Numbers
  <2>3. \A v \in Writer : wpc'[v] \in {"revoke", "dial", "wait"} <=> serverLock'[KindOf[v]] = v
    <3>. SUFFICES ASSUME NEW v \in Writer
                  PROVE  wpc'[v] \in {"revoke", "dial", "wait"} <=> serverLock'[KindOf[v]] = v
      OBVIOUS
    <3>0. wpc[v] \in {"revoke", "dial", "wait"} <=> serverLock[KindOf[v]] = v
      BY <1>0, Zenon DEF ServerLocks
    <3>1. CASE v = w
      BY <1>p, <2>1, <2>2, <3>1, Zenon
    <3>2. CASE v # w /\ KindOf[v] = KindOf[w]
      <4>1. serverLock[KindOf[w]] \in {w, None}
        BY <1>0, <1>a, Zenon DEF ServerLocks
      <4>2. serverLock[KindOf[v]] # v
        BY <2>2, <3>2, <4>1, Zenon
      <4>3. serverLock'[KindOf[v]] # v
        BY <2>1, <2>2, <3>2, Zenon
      <4>4. wpc'[v] = wpc[v]
        BY <1>p, <3>2, Zenon
      <4>5. QED
        BY <3>0, <4>2, <4>3, <4>4, Zenon
    <3>3. CASE KindOf[v] # KindOf[w]
      BY <1>p, <2>1, <2>2, <3>0, <3>3, Zenon
    <3>4. QED
      BY <3>1, <3>2, <3>3, Zenon
  <2>4. \A j \in Kind : serverLock'[j] # None => KindOf[serverLock'[j]] = j
    BY <1>0, <2>1, Zenon DEF ServerLocks
  <2>5. \A v \in Writer : wpc'[v] \in {"dial", "wait"} => target'[v] \in Client
    BY <1>0, <1>u, <1>p, Zenon DEF ServerLocks
  <2>6. QED
    BY <2>3, <2>4, <2>5, Zenon DEF ServerLocks
<1>b. ASSUME NEW d \in Client, NEW j \in Kind, NEW v, NEW u \in Int, Backed(d, j, v, u)
      PROVE  BackedNext(d, j, v, u)
  <2>1. \A i \in Kind : serverLock'[i] = IF i = KindOf[w] THEN w ELSE serverLock[i]
    BY <1>0, <1>a, Zenon DEF StoreOK
  <2>2. CASE j = KindOf[w] /\ leaseGranted[j][d] = 0
    <3>1. u < clock
      BY <1>0, <1>b, <2>2 DEF Backed
    <3>2. QED
      BY <1>u, <3>1, Zenon DEF BackedNext
  <2>3. CASE j = KindOf[w] /\ leaseGranted[j][d] # 0
    <3>1. \A x \in Writer : serverLock'[j] = x => d \in todo'[x]
      BY <1>p, <2>1, <2>3, Zenon DEF Holders
    <3>2. QED
      BY <1>b, <1>u, <3>1, Zenon DEF Backed, BackedNext
  <2>4. CASE j # KindOf[w]
    <3>1. \A x \in Writer : serverLock[j] = x => x # w
      BY <1>0, <2>4, OneLock, Zenon
    <3>2. QED
      BY <1>b, <1>u, <1>p, <2>1, <2>4, <3>1, Zenon DEF Backed, BackedNext
  <2>5. QED
    BY <2>2, <2>3, <2>4, Zenon
<1>9. EntriesBacked'
  <2>. SUFFICES ASSUME NEW d \in Client, NEW j \in Kind
                PROVE  BackedNext(d, j, cache[d][j].value, cache[d][j].until)
    BY <1>u, Zenon DEF EntriesBacked, Backed, BackedNext
  <2>. QED
    BY <1>0, <1>t, <1>b DEF Numbers, EntriesBacked
<1>10. RepliesBacked'
  <2>. SUFFICES ASSUME NEW q \in Reader, rpc[q] = "reply" /\ granted[q]
                PROVE  BackedNext(Home[q], KindOf[q], got[q], now[q] + LeaseSeconds)
    BY <1>u, Zenon DEF RepliesBacked, Backed, BackedNext
  <2>1. Home[q] \in Client /\ KindOf[q] \in Kind /\ now[q] + LeaseSeconds \in Int
    BY <1>t DEF Numbers
  <2>2. Backed(Home[q], KindOf[q], got[q], now[q] + LeaseSeconds)
    BY <1>0 DEF RepliesBacked
  <2>3. QED
    BY <1>b, <2>1, <2>2
<1>11. AckedIsClean'
  BY <1>0, <1>u, <1>p DEF AckedIsClean
<1>13. QED
  BY <1>f, <1>g, <1>h, <1>2, <1>3, <1>7, <1>9, <1>10, <1>11, Zenon DEF IInv, TypeOK

(* A lease that has run out at the server ran out at the libstore before.  *)
LEMMA RevokeSkipsKeeps ==
  ASSUME IInv, NEW w \in Writer, NEW c \in Client, RevokeSkips(w, c)
  PROVE  IInv'
<1>. USE LeaseAssumption
<1>0. /\ clock \in Nat /\ StoreOK /\ PutOK /\ LibOK /\ GetOK /\ ClientLocks /\ ServerLocks
      /\ Unleased /\ EntriesBacked /\ RepliesBacked /\ AckedIsClean /\ Floors
  BY Zenon DEF IInv, TypeOK
<1>t. Numbers
  BY TypedNumbers, Zenon DEF IInv
<1>a. /\ wpc[w] = "revoke"
      /\ leaseGranted[KindOf[w]][c] <= clock
      /\ todo' = [todo EXCEPT ![w] = @ \ {c}]
  BY Zenon DEF RevokeSkips, Lapsed
<1>u. UNCHANGED <<clock, value, leaseGranted, serverLock, wpc, target, acked, revokes,
                  dialed, dialLocked, up, cache, mutex, doomed, rpc, now, floor, got,
                  granted>>
  BY Zenon DEF RevokeSkips, storeVars, putVars, libVars, getVars
<1>p. /\ \A v \in Writer : v # w => todo'[v] = todo[v]
      /\ todo'[w] = todo[w] \ {c}
  BY <1>0, <1>a, Zenon DEF PutOK
<1>f. clock' \in Nat /\ StoreOK' /\ LibOK' /\ GetOK'
  BY <1>0, <1>u, SameStore, SameLib, SameGet, Zenon
<1>g. ClientLocks' /\ ServerLocks' /\ Unleased' /\ AckedIsClean'
  BY <1>0, <1>u, SameMutexes, SameLocks, SameUnleased, SameAcked, Zenon
<1>h. Floors'
  BY <1>0, <1>u, SameFloors, Zenon
<1>3. PutOK'
  BY <1>0, <1>a, <1>u, Zenon DEF PutOK
<1>b. ASSUME NEW d \in Client, NEW j \in Kind, NEW v, NEW u \in Int, Backed(d, j, v, u)
      PROVE  BackedNext(d, j, v, u)
  <2>1. serverLock[KindOf[w]] = w
    BY <1>0, <1>a, Zenon DEF ServerLocks
  <2>2. CASE j = KindOf[w] /\ d = c
    <3>1. u < clock
      <4>1. u < clock \/ u + LeaseGuardSeconds <= leaseGranted[j][d]
        BY <1>b, Zenon DEF Backed
      <4>2. leaseGranted[j][d] \in Nat /\ leaseGranted[j][d] <= clock
        BY <1>t, <1>a, <2>2, Zenon DEF Numbers
      <4>3. QED
        BY <1>0, <1>b, <4>1, <4>2
    <3>2. QED
      BY <1>u, <3>1, Zenon DEF BackedNext
  <2>3. CASE ~ (j = KindOf[w] /\ d = c)
    <3>1. \A x \in Writer : serverLock[j] = x => x # w \/ d # c
      BY <1>0, <2>3, OneLock, Zenon
    <3>2. QED
      BY <1>b, <1>u, <1>p, <3>1, Zenon DEF Backed, BackedNext
  <2>4. QED
    BY <2>2, <2>3, Zenon
<1>9. EntriesBacked'
  <2>. SUFFICES ASSUME NEW d \in Client, NEW j \in Kind
                PROVE  BackedNext(d, j, cache[d][j].value, cache[d][j].until)
    BY <1>u, Zenon DEF EntriesBacked, Backed, BackedNext
  <2>. QED
    BY <1>0, <1>t, <1>b, Zenon DEF Numbers, EntriesBacked
<1>10. RepliesBacked'
  <2>. SUFFICES ASSUME NEW q \in Reader, rpc[q] = "reply" /\ granted[q]
                PROVE  BackedNext(Home[q], KindOf[q], got[q], now[q] + LeaseSeconds)
    BY <1>u, Zenon DEF RepliesBacked, Backed, BackedNext
  <2>1. Home[q] \in Client /\ KindOf[q] \in Kind /\ now[q] + LeaseSeconds \in Int
    BY <1>t DEF Numbers
  <2>2. Backed(Home[q], KindOf[q], got[q], now[q] + LeaseSeconds)
    BY <1>0, Zenon DEF RepliesBacked
  <2>3. QED
    BY <1>b, <2>1, <2>2, Zenon
<1>13. QED
  BY <1>f, <1>g, <1>h, <1>3, <1>9, <1>10, Zenon DEF IInv, TypeOK

(* A revocation begins.                                                    *)
LEMMA RevokeBeginsKeeps ==
  ASSUME IInv, NEW w \in Writer, NEW c \in Client, RevokeBegins(w, c)
  PROVE  IInv'
<1>. USE LeaseAssumption
<1>0. /\ clock \in Nat /\ StoreOK /\ PutOK /\ LibOK /\ GetOK /\ ClientLocks /\ ServerLocks
      /\ Unleased /\ EntriesBacked /\ RepliesBacked /\ AckedIsClean /\ Floors
  BY Zenon DEF IInv, TypeOK
<1>t. Numbers
  BY TypedNumbers, Zenon DEF IInv
<1>a. /\ wpc[w] = "revoke"
      /\ wpc' = [wpc EXCEPT ![w] = "dial"]
      /\ target' = [target EXCEPT ![w] = c]
  BY Zenon DEF RevokeBegins
<1>u. UNCHANGED <<clock, value, leaseGranted, serverLock, todo, acked, revokes, dialed,
                  dialLocked, up, cache, mutex, doomed, rpc, now, floor, got, granted>>
  BY Zenon DEF RevokeBegins, storeVars, putVars, libVars, getVars
<1>p. /\ \A v \in Writer : v # w => wpc'[v] = wpc[v] /\ target'[v] = target[v]
      /\ wpc'[w] = "dial"
      /\ target'[w] = c
  BY <1>0, <1>a, Zenon DEF PutOK
<1>f. clock' \in Nat /\ StoreOK' /\ LibOK' /\ GetOK'
  BY <1>0, <1>u, SameStore, SameLib, SameGet, Zenon
<1>g. ClientLocks' /\ Unleased'
  BY <1>0, <1>u, SameMutexes, SameUnleased, Zenon
<1>h. EntriesBacked' /\ RepliesBacked' /\ Floors'
  BY <1>0, <1>u, SameEntries, SameReplies, SameFloors, Zenon
<1>3. PutOK'
  BY <1>0, <1>a, <1>u, Zenon DEF PutOK
<1>7. ServerLocks'
  BY <1>0, <1>a, <1>u, <1>p DEF ServerLocks
<1>11. AckedIsClean'
  BY <1>0, <1>u, <1>p, SMTT(60) DEF AckedIsClean
<1>13. QED
  BY <1>f, <1>g, <1>h, <1>3, <1>7, <1>11, Zenon DEF IInv, TypeOK

(* RevokeLease is called.                                                  *)
LEMMA RevokeSendsKeeps ==
  ASSUME IInv, NEW w \in Writer, RevokeSends(w)
  PROVE  IInv'
<1>. USE LeaseAssumption
<1>0. /\ clock \in Nat /\ StoreOK /\ PutOK /\ LibOK /\ GetOK /\ ClientLocks /\ ServerLocks
      /\ Unleased /\ EntriesBacked /\ RepliesBacked /\ AckedIsClean /\ Floors
  BY Zenon DEF IInv, TypeOK
<1>t. Numbers
  BY TypedNumbers, Zenon DEF IInv
<1>a. /\ wpc[w] = "dial"
      /\ wpc' = [wpc EXCEPT ![w] = "wait"]
      /\ acked' = [acked EXCEPT ![w] = FALSE]
      /\ dialed' = dialed \cup {target[w]}
      /\ revokes' = revokes \cup {<<w, target[w]>>}
  BY Zenon DEF RevokeSends
<1>u. UNCHANGED <<clock, value, leaseGranted, serverLock, todo, target, dialLocked, up,
                  cache, mutex, doomed, rpc, now, floor, got, granted>>
  BY Zenon DEF RevokeSends, storeVars, putVars, libVars, getVars
<1>p. /\ \A v \in Writer : v # w => wpc'[v] = wpc[v] /\ acked'[v] = acked[v]
      /\ wpc'[w] = "wait"
      /\ acked'[w] = FALSE
  BY <1>0, <1>a, Zenon DEF PutOK
<1>f. clock' \in Nat /\ StoreOK' /\ LibOK' /\ GetOK'
  BY <1>0, <1>u, SameStore, SameLib, SameGet, Zenon
<1>g. ClientLocks' /\ Unleased'
  BY <1>0, <1>u, SameMutexes, SameUnleased, Zenon
<1>h. EntriesBacked' /\ RepliesBacked' /\ Floors'
  BY <1>0, <1>u, SameEntries, SameReplies, SameFloors, Zenon
<1>3. PutOK'
  <2>1. target[w] \in Client
    BY <1>0, <1>a, Zenon DEF ServerLocks
  <2>2. QED
    BY <1>0, <1>a, <1>u, <2>1 DEF PutOK
<1>7. ServerLocks'
  BY <1>0, <1>a, <1>u, <1>p, Zenon DEF ServerLocks
<1>11. AckedIsClean'
  BY <1>0, <1>u, <1>p, Zenon DEF AckedIsClean
<1>13. QED
  BY <1>f, <1>g, <1>h, <1>3, <1>7, <1>11, Zenon DEF IInv, TypeOK

(* A Put that fails leaves version and leases.                             *)
LEMMA DialFailsKeeps ==
  ASSUME IInv, NEW w \in Writer, DialFails(w)
  PROVE  IInv'
<1>. USE LeaseAssumption
<1>0. /\ clock \in Nat /\ StoreOK /\ PutOK /\ LibOK /\ GetOK /\ ClientLocks /\ ServerLocks
      /\ Unleased /\ EntriesBacked /\ RepliesBacked /\ AckedIsClean /\ Floors
  BY Zenon DEF IInv, TypeOK
<1>t. Numbers
  BY TypedNumbers, Zenon DEF IInv
<1>a. /\ wpc[w] = "dial"
      /\ wpc' = [wpc EXCEPT ![w] = "error"]
      /\ dialLocked' = dialLocked \cup {target[w]}
      /\ serverLock' = [serverLock EXCEPT ![KindOf[w]] = None]
  BY Zenon DEF DialFails
<1>u. UNCHANGED <<clock, value, leaseGranted, todo, target, acked, revokes, dialed, up,
                  cache, mutex, doomed, rpc, now, floor, got, granted>>
  BY Zenon DEF DialFails, storeVars, putVars, libVars, getVars
<1>p. /\ \A v \in Writer : v # w => wpc'[v] = wpc[v]
      /\ wpc'[w] = "error"
  BY <1>0, <1>a, Zenon DEF PutOK
<1>f. clock' \in Nat /\ LibOK' /\ GetOK'
  BY <1>0, <1>u, SameLib, SameGet, Zenon
<1>g. ClientLocks' /\ Unleased'
  BY <1>0, <1>u, SameMutexes, SameUnleased, Zenon
<1>h. Floors'
  BY <1>0, <1>u, SameFloors, Zenon
<1>2. StoreOK'
  BY <1>0, <1>a, <1>u, Zenon DEF StoreOK
<1>3. PutOK'
  <2>1. target[w] \in Client
    BY <1>0, <1>a, Zenon DEF ServerLocks
  <2>2. QED
    BY <1>0, <1>a, <1>u, <2>1, Zenon DEF PutOK
<1>7. ServerLocks'
  <2>1. \A j \in Kind : serverLock'[j] = IF j = KindOf[w] THEN None ELSE serverLock[j]
    BY <1>0, <1>a, Zenon DEF StoreOK
  <2>2. \A v \in Writer : v # None /\ KindOf[v] \in Kind
    BY <1>t DEF Numbers
  <2>3. \A v \in Writer : wpc'[v] \in {"revoke", "dial", "wait"} <=> serverLock'[KindOf[v]] = v
    <3>. SUFFICES ASSUME NEW v \in Writer
                  PROVE  wpc'[v] \in {"revoke", "dial", "wait"} <=> serverLock'[KindOf[v]] = v
      OBVIOUS
    <3>0. wpc[v] \in {"revoke", "dial", "wait"} <=> serverLock[KindOf[v]] = v
      BY <1>0 DEF ServerLocks
    <3>1. CASE v = w
      BY <1>p, <2>1, <2>2, <3>1, Zenon
    <3>2. CASE v # w /\ KindOf[v] = KindOf[w]
      <4>1. serverLock[KindOf[w]] \in {w, None}
        BY <1>0, <1>a, Zenon DEF ServerLocks
      <4>2. serverLock[KindOf[v]] # v
        BY <2>2, <3>2, <4>1
      <4>3. serverLock'[KindOf[v]] # v
        BY <2>1, <2>2, <3>2, Zenon
      <4>4. wpc'[v] = wpc[v]
        BY <1>p, <3>2, Zenon
      <4>5. QED
        BY <3>0, <4>2, <4>3, <4>4
    <3>3. CASE KindOf[v] # KindOf[w]
      BY <1>p, <2>1, <2>2, <3>0, <3>3, Zenon
    <3>4. QED
      BY <3>1, <3>2, <3>3
  <2>4. \A j \in Kind : serverLock'[j] # None => KindOf[serverLock'[j]] = j
    BY <1>0, <2>1, Zenon DEF ServerLocks
  <2>5. \A v \in Writer : wpc'[v] \in {"dial", "wait"} => target'[v] \in Client
    BY <1>0, <1>u, <1>p, Zenon DEF ServerLocks
  <2>6. QED
    BY <2>3, <2>4, <2>5 DEF ServerLocks
<1>b. ASSUME NEW d \in Client, NEW j \in Kind, NEW v, NEW u \in Int, Backed(d, j, v, u)
      PROVE  BackedNext(d, j, v, u)
  <2>1. \A x \in Writer : serverLock'[j] = x => serverLock[j] = x
    BY <1>0, <1>a, Zenon DEF StoreOK
  <2>2. QED
    BY <1>b, <1>u, <2>1, Zenon DEF Backed, BackedNext
<1>9. EntriesBacked'
  <2>. SUFFICES ASSUME NEW d \in Client, NEW j \in Kind
                PROVE  BackedNext(d, j, cache[d][j].value, cache[d][j].until)
    BY <1>u, Zenon DEF EntriesBacked, Backed, BackedNext
  <2>. QED
    BY <1>0, <1>t, <1>b DEF Numbers, EntriesBacked
<1>10. RepliesBacked'
  <2>. SUFFICES ASSUME NEW q \in Reader, rpc[q] = "reply" /\ granted[q]
                PROVE  BackedNext(Home[q], KindOf[q], got[q], now[q] + LeaseSeconds)
    BY <1>u, Zenon DEF RepliesBacked, Backed, BackedNext
  <2>1. Home[q] \in Client /\ KindOf[q] \in Kind /\ now[q] + LeaseSeconds \in Int
    BY <1>t DEF Numbers
  <2>2. Backed(Home[q], KindOf[q], got[q], now[q] + LeaseSeconds)
    BY <1>0 DEF RepliesBacked
  <2>3. QED
    BY <1>b, <2>1, <2>2
<1>11. AckedIsClean'
  BY <1>0, <1>u, <1>p DEF AckedIsClean
<1>13. QED
  BY <1>f, <1>g, <1>h, <1>2, <1>3, <1>7, <1>9, <1>10, <1>11 DEF IInv, TypeOK

(* RevokeLease empties the cache while no Get is under way.                *)
LEMMA RevokeLeaseKeeps ==
  ASSUME IInv, OneKind, NEW w \in Writer, NEW c \in Client, NEW heard \in BOOLEAN,
         RevokeLease(w, c, heard)
  PROVE  IInv'
<1>. USE LeaseAssumption
<1>0. /\ clock \in Nat /\ StoreOK /\ PutOK /\ LibOK /\ GetOK /\ ClientLocks /\ ServerLocks
      /\ Unleased /\ EntriesBacked /\ RepliesBacked /\ AckedIsClean /\ Floors
  BY Zenon DEF IInv, TypeOK
<1>t. Numbers
  BY TypedNumbers, Zenon DEF IInv
<1>a. /\ \A k \in Kind : mutex[c][k] = None
      /\ revokes' = revokes \ {<<w, c>>}
      /\ cache' = [cache EXCEPT ![c] =
                     [k \in Kind |-> IF k \in Revoked(c) THEN NoEntry ELSE cache[c][k]]]
      /\ acked' = [acked EXCEPT ![w] = @ \/ (heard /\ wpc[w] = "wait" /\ target[w] = c)]
  BY Zenon DEF RevokeLease
<1>u. UNCHANGED <<clock, value, leaseGranted, serverLock, wpc, todo, target, dialed,
                  dialLocked, up, mutex, doomed, rpc, now, floor, got, granted>>
  BY Zenon DEF RevokeLease, storeVars, putVars, libVars, getVars
<1>p. /\ \A v \in Writer : v # w => acked'[v] = acked[v]
      /\ acked'[w] = acked[w] \/ (heard /\ wpc[w] = "wait" /\ target[w] = c)
  BY <1>0, <1>a, Zenon DEF PutOK
<1>f. clock' \in Nat /\ StoreOK' /\ GetOK'
  BY <1>0, <1>u, SameStore, SameGet, Zenon
<1>g. ClientLocks' /\ ServerLocks' /\ Unleased'
  BY <1>0, <1>u, SameMutexes, SameLocks, SameUnleased, Zenon
<1>h. RepliesBacked'
  BY <1>0, <1>u, SameReplies, Zenon
<1>3. PutOK'
  BY <1>0, <1>a, <1>u, Zenon DEF PutOK
<1>4. LibOK'
  BY <1>0, <1>a, <1>u, SMTT(60) DEF LibOK
<1>9. EntriesBacked'
  <2>1. \A d \in Client, j \in Kind : cache'[d][j] = cache[d][j] \/ cache'[d][j] = NoEntry
    BY <1>0, <1>a, Zenon DEF LibOK
  <2>2. QED
    BY <1>0, <1>t, <1>u, <2>1, SMTT(60) DEF Numbers, EntriesBacked, Backed, NoEntry
<1>11. AckedIsClean'
  <2>1. \A j \in Kind : cache'[c][j] = NoEntry
    BY <1>0, <1>a, Zenon DEF LibOK, OneKind, Revoked
  <2>2. \A d \in Client, j \in Kind : cache'[d][j] = cache[d][j] \/ cache'[d][j] = NoEntry
    BY <1>0, <1>a DEF LibOK
  <2>3. ASSUME NEW r \in Reader, rpc[r] = "reply"
        PROVE  Home[r] # c
    <3>1. mutex[Home[r]][KindOf[r]] = r /\ r # None /\ KindOf[r] \in Kind
      BY <1>0, <1>t, <2>3, SMTT(60) DEF Numbers, ClientLocks
    <3>2. QED
      BY <1>a, <3>1, Zenon
  <2>4. \A v \in Writer : wpc[v] = "wait" => target[v] \in Client /\ KindOf[v] \in Kind
    BY <1>0, <1>t, Zenon DEF ServerLocks, Numbers
  <2>5. ASSUME NEW v \in Writer, wpc[v] = "wait", acked'[v]
        PROVE  acked[v] \/ target[v] = c
    BY <1>p, <2>5, Zenon
  <2>6. ASSUME NEW v \in Writer, wpc[v] = "wait", acked'[v]
        PROVE  /\ cache'[target[v]][KindOf[v]] = NoEntry
               /\ \A r \in Reader : rpc[r] = "reply" =>
                    ~ (Home[r] = target[v] /\ KindOf[r] = KindOf[v])
    <3>1. CASE target[v] = c
      BY <2>1, <2>3, <2>4, <2>6, <3>1, Zenon
    <3>2. CASE acked[v]
      BY <1>0, <2>2, <2>4, <2>6, <3>2, Zenon DEF AckedIsClean
    <3>3. QED
      BY <2>5, <2>6, <3>1, <3>2, Zenon
  <2>7. QED
    BY <1>u, <2>6, Zenon DEF AckedIsClean
<1>12. Floors'
  <2>1. \A q \in Reader : Entry(q)' = Entry(q) \/ Entry(q)' = NoEntry
    BY <1>0, <1>t, <1>a, SMTT(60) DEF Numbers, LibOK, Entry
  <2>2. \A q \in Reader : Entry(q)' = NoEntry => ~ (now[q] <= Entry(q)'.until)
    BY <1>t, NoEntryOld, Zenon DEF Numbers
  <2>3. QED
    BY <1>0, <1>u, <2>1, <2>2, Zenon DEF Floors
<1>13. QED
  BY <1>f, <1>g, <1>h, <1>3, <1>4, <1>9, <1>11, <1>12, Zenon DEF IInv, TypeOK

(* The server moves on when the libstore has answered or the lease is over.*)
LEMMA RevokeEndsKeeps ==
  ASSUME IInv, NEW w \in Writer, RevokeEnds(w)
  PROVE  IInv'
<1>. USE LeaseAssumption
<1>0. /\ clock \in Nat /\ StoreOK /\ PutOK /\ LibOK /\ GetOK /\ ClientLocks /\ ServerLocks
      /\ Unleased /\ EntriesBacked /\ RepliesBacked /\ AckedIsClean /\ Floors
  BY Zenon DEF IInv, TypeOK
<1>t. Numbers
  BY TypedNumbers, Zenon DEF IInv
<1>a. /\ wpc[w] = "wait"
      /\ acked[w] \/ clock >= leaseGranted[KindOf[w]][target[w]]
      /\ wpc' = [wpc EXCEPT ![w] = "revoke"]
      /\ todo' = [todo EXCEPT ![w] = @ \ {target[w]}]
  BY Zenon DEF RevokeEnds, Settled, Lapsed
<1>u. UNCHANGED <<clock, value, leaseGranted, serverLock, target, acked, revokes, dialed,
                  dialLocked, up, cache, mutex, doomed, rpc, now, floor, got, granted>>
  BY Zenon DEF RevokeEnds, storeVars, putVars, libVars, getVars
<1>p. /\ \A v \in Writer : v # w => wpc'[v] = wpc[v] /\ todo'[v] = todo[v]
      /\ wpc'[w] = "revoke"
      /\ todo'[w] = todo[w] \ {target[w]}
  BY <1>0, <1>a, Zenon DEF PutOK
<1>f. clock' \in Nat /\ StoreOK' /\ LibOK' /\ GetOK'
  BY <1>0, <1>u, SameStore, SameLib, SameGet, Zenon
<1>g. ClientLocks' /\ Unleased'
  BY <1>0, <1>u, SameMutexes, SameUnleased, Zenon
<1>h. Floors'
  BY <1>0, <1>u, SameFloors, Zenon
<1>3. PutOK'
  BY <1>0, <1>a, <1>u, Zenon DEF PutOK
<1>7. ServerLocks'
  BY <1>0, <1>a, <1>u, <1>p, Zenon DEF ServerLocks
<1>b. ASSUME NEW d \in Client, NEW j \in Kind, NEW v, NEW u \in Int, Backed(d, j, v, u),
             d = target[w] /\ j = KindOf[w] => u < clock
      PROVE  BackedNext(d, j, v, u)
  <2>1. CASE d = target[w] /\ j = KindOf[w]
    BY <1>b, <1>u, <2>1, Zenon DEF BackedNext
  <2>2. CASE ~ (d = target[w] /\ j = KindOf[w])
    <3>1. \A x \in Writer : serverLock[j] = x => x # w \/ d # target[w]
      BY <1>0, <2>2, OneLock, Zenon
    <3>2. QED
      BY <1>b, <1>u, <1>p, <3>1, Zenon DEF Backed, BackedNext
  <2>3. QED
    BY <2>1, <2>2, Zenon
<1>c. target[w] \in Client
  BY <1>0, <1>a, Zenon DEF ServerLocks
<1>9. EntriesBacked'
  <2>1. cache[target[w]][KindOf[w]].until < clock
    <3>1. CASE acked[w]
      <4>1. cache[target[w]][KindOf[w]].until = -1 /\ clock \in Nat
        <5>1. cache[target[w]][KindOf[w]] = NoEntry /\ clock \in Nat
          BY <1>0, <1>a, <3>1, Zenon DEF AckedIsClean
        <5>2. QED
          BY <5>1 DEF NoEntry
      <4>2. QED
        BY <4>1
    <3>2. CASE clock >= leaseGranted[KindOf[w]][target[w]]
      <4>1. KindOf[w] \in Kind /\ leaseGranted[KindOf[w]][target[w]] \in Nat
            /\ cache[target[w]][KindOf[w]].until \in Int
        BY <1>t, <1>c, Zenon DEF Numbers
      <4>2. Backed(target[w], KindOf[w], cache[target[w]][KindOf[w]].value,
                   cache[target[w]][KindOf[w]].until)
        BY <1>0, <1>c, <4>1, Zenon DEF EntriesBacked
      <4>3. \/ cache[target[w]][KindOf[w]].until < clock
            \/ cache[target[w]][KindOf[w]].until + LeaseGuardSeconds
                 <= leaseGranted[KindOf[w]][target[w]]
        BY <4>2, Zenon DEF Backed
      <4>4. clock \in Nat
        BY <1>0, Zenon
      <4>5. QED
        BY <3>2, <4>1, <4>3, <4>4
    <3>3. QED
      BY <1>a, <3>1, <3>2, Zenon
  <2>. SUFFICES ASSUME NEW d \in Client, NEW j \in Kind
                PROVE  BackedNext(d, j, cache[d][j].value, cache[d][j].until)
    BY <1>u, Zenon DEF EntriesBacked, Backed, BackedNext
  <2>. QED
    BY <1>0, <1>t, <1>b, <2>1, Zenon DEF Numbers, EntriesBacked
<1>10. RepliesBacked'
  <2>. SUFFICES ASSUME NEW q \in Reader, rpc[q] = "reply" /\ granted[q]
                PROVE  BackedNext(Home[q], KindOf[q], got[q], now[q] + LeaseSeconds)
    BY <1>u, Zenon DEF RepliesBacked, Backed, BackedNext
  <2>1. Home[q] = target[w] /\ KindOf[q] = KindOf[w] => now[q] + LeaseSeconds < clock
    <3>. SUFFICES ASSUME Home[q] = target[w], KindOf[q] = KindOf[w]
                  PROVE  now[q] + LeaseSeconds < clock
      OBVIOUS
    <3>1. clock >= leaseGranted[KindOf[q]][Home[q]]
      BY <1>0, <1>a, Zenon DEF AckedIsClean
    <3>2. leaseGranted[KindOf[q]][Home[q]] \in Nat /\ now[q] \in Nat
      BY <1>t, Zenon DEF Numbers
    <3>3. Backed(Home[q], KindOf[q], got[q], now[q] + LeaseSeconds)
      BY <1>0, Zenon DEF RepliesBacked
    <3>4. QED
      BY <1>0, <3>1, <3>2, <3>3, SMTT(60) DEF Backed
  <2>2. Home[q] \in Client /\ KindOf[q] \in Kind /\ now[q] + LeaseSeconds \in Int
    BY <1>t DEF Numbers
  <2>3. Backed(Home[q], KindOf[q], got[q], now[q] + LeaseSeconds)
    BY <1>0 DEF RepliesBacked
  <2>4. QED
    BY <1>b, <2>1, <2>2, <2>3, Zenon
<1>11. AckedIsClean'
  <2>1. \A v \in Writer : wpc'[v] = "wait" => wpc[v] = "wait"
    BY <1>p
  <2>2. QED
    BY <1>0, <1>u, <2>1, Zenon DEF AckedIsClean
<1>13. QED
  BY <1>f, <1>g, <1>h, <1>3, <1>7, <1>9, <1>10, <1>11, Zenon DEF IInv, TypeOK

(* The version changes when every lease has been dealt with.               *)
LEMMA PutEndKeeps ==
  ASSUME IInv, NEW w \in Writer, PutEnd(w)
  PROVE  IInv'
<1>. USE LeaseAssumption
<1>0. /\ clock \in Nat /\ StoreOK /\ PutOK /\ LibOK /\ GetOK /\ ClientLocks /\ ServerLocks
      /\ Unleased /\ EntriesBacked /\ RepliesBacked /\ AckedIsClean /\ Floors
  BY Zenon DEF IInv, TypeOK
<1>t. Numbers
  BY TypedNumbers, Zenon DEF IInv
<1>a. /\ wpc[w] = "revoke"
      /\ todo[w] = {}
      /\ wpc' = [wpc EXCEPT ![w] = "done"]
      /\ leaseGranted' = [leaseGranted EXCEPT ![KindOf[w]] = [c \in Client |-> 0]]
      /\ value' = [value EXCEPT ![KindOf[w]] = @ + 1]
      /\ serverLock' = [serverLock EXCEPT ![KindOf[w]] = None]
  BY Zenon DEF PutEnd
<1>u. UNCHANGED <<clock, todo, target, acked, revokes, dialed, dialLocked, up, cache,
                  mutex, doomed, rpc, now, floor, got, granted>>
  BY Zenon DEF PutEnd, storeVars, putVars, libVars, getVars
<1>p. /\ \A v \in Writer : v # w => wpc'[v] = wpc[v]
      /\ wpc'[w] = "done"
  BY <1>0, <1>a, Zenon DEF PutOK
<1>f. clock' \in Nat /\ LibOK' /\ GetOK'
  BY <1>0, <1>u, SameLib, SameGet, Zenon
<1>g. ClientLocks'
  BY <1>0, <1>u, SameMutexes, Zenon
<1>2. StoreOK'
  <2>1. value' \in [Kind -> Nat]
    <3>1. value[KindOf[w]] + 1 \in Nat
      <4>1. value[KindOf[w]] \in Nat
        BY <1>t, Zenon DEF Numbers
      <4>2. QED
        BY <4>1
    <3>2. QED
      BY <1>0, <1>a, <3>1, Zenon DEF StoreOK
  <2>2. leaseGranted' \in [Kind -> [Client -> Nat]]
    BY <1>0, <1>a, Zenon DEF StoreOK
  <2>3. serverLock' \in [Kind -> Writer \cup {None}]
    BY <1>0, <1>a, Zenon DEF StoreOK
  <2>4. QED
    BY <2>1, <2>2, <2>3, Zenon DEF StoreOK
<1>3. PutOK'
  BY <1>0, <1>a, <1>u, Zenon DEF PutOK
<1>7. ServerLocks'
  <2>1. \A j \in Kind : serverLock'[j] = IF j = KindOf[w] THEN None ELSE serverLock[j]
    BY <1>0, <1>a, Zenon DEF StoreOK
  <2>2. \A v \in Writer : v # None /\ KindOf[v] \in Kind
    BY <1>t DEF Numbers
  <2>3. \A v \in Writer : wpc'[v] \in {"revoke", "dial", "wait"} <=> serverLock'[KindOf[v]] = v
    <3>. SUFFICES ASSUME NEW v \in Writer
                  PROVE  wpc'[v] \in {"revoke", "dial", "wait"} <=> serverLock'[KindOf[v]] = v
      OBVIOUS
    <3>0. wpc[v] \in {"revoke", "dial", "wait"} <=> serverLock[KindOf[v]] = v
      BY <1>0 DEF ServerLocks
    <3>1. CASE v = w
      BY <1>p, <2>1, <2>2, <3>1, Zenon
    <3>2. CASE v # w /\ KindOf[v] = KindOf[w]
      <4>1. serverLock[KindOf[w]] \in {w, None}
        BY <1>0, <1>a, Zenon DEF ServerLocks
      <4>2. serverLock[KindOf[v]] # v
        BY <2>2, <3>2, <4>1
      <4>3. serverLock'[KindOf[v]] # v
        BY <2>1, <2>2, <3>2
      <4>4. wpc'[v] = wpc[v]
        BY <1>p, <3>2, Zenon
      <4>5. QED
        BY <3>0, <4>2, <4>3, <4>4
    <3>3. CASE KindOf[v] # KindOf[w]
      BY <1>p, <2>1, <2>2, <3>0, <3>3, Zenon
    <3>4. QED
      BY <3>1, <3>2, <3>3
  <2>4. \A j \in Kind : serverLock'[j] # None => KindOf[serverLock'[j]] = j
    BY <1>0, <2>1 DEF ServerLocks
  <2>5. \A v \in Writer : wpc'[v] \in {"dial", "wait"} => target'[v] \in Client
    BY <1>0, <1>u, <1>p, Zenon DEF ServerLocks
  <2>6. QED
    BY <2>3, <2>4, <2>5 DEF ServerLocks
<1>8. Unleased'
  BY <1>0, <1>t, <1>a, <1>u, Zenon DEF StoreOK, Numbers, Unleased
<1>b. ASSUME NEW d \in Client, NEW j \in Kind, NEW v, NEW u \in Int, Backed(d, j, v, u)
      PROVE  BackedNext(d, j, v, u)
  <2>1. CASE j = KindOf[w]
    <3>1. serverLock[j] = w
      BY <1>0, <1>a, <2>1, Zenon DEF ServerLocks
    <3>2. u < clock
      BY <1>a, <1>b, <3>1, Zenon DEF Backed
    <3>3. QED
      BY <1>u, <3>2, Zenon DEF BackedNext
  <2>2. CASE j # KindOf[w]
    <3>1. /\ value'[j] = value[j] /\ leaseGranted'[j] = leaseGranted[j]
          /\ serverLock'[j] = serverLock[j]
      BY <1>0, <1>a, <2>2, Zenon DEF StoreOK
    <3>2. QED
      BY <1>b, <1>u, <3>1, Zenon DEF Backed, BackedNext
  <2>3. QED
    BY <2>1, <2>2
<1>9. EntriesBacked'
  <2>. SUFFICES ASSUME NEW d \in Client, NEW j \in Kind
                PROVE  BackedNext(d, j, cache[d][j].value, cache[d][j].until)
    BY <1>u, Zenon DEF EntriesBacked, Backed, BackedNext
  <2>. QED
    BY <1>0, <1>t, <1>b DEF Numbers, EntriesBacked
<1>10. RepliesBacked'
  <2>. SUFFICES ASSUME NEW q \in Reader, rpc[q] = "reply" /\ granted[q]
                PROVE  BackedNext(Home[q], KindOf[q], got[q], now[q] + LeaseSeconds)
    BY <1>u, Zenon DEF RepliesBacked, Backed, BackedNext
  <2>1. Home[q] \in Client /\ KindOf[q] \in Kind /\ now[q] + LeaseSeconds \in Int
    BY <1>t DEF Numbers
  <2>2. Backed(Home[q], KindOf[q], got[q], now[q] + LeaseSeconds)
    BY <1>0 DEF RepliesBacked
  <2>3. QED
    BY <1>b, <2>1, <2>2
<1>11. AckedIsClean'
  BY <1>0, <1>u, <1>p DEF AckedIsClean
<1>12. Floors'
  <2>1. ASSUME NEW k \in Kind
        PROVE  value[k] <= value'[k]
    <3>1. value[k] \in Nat
      BY <1>t DEF Numbers
    <3>2. CASE k = KindOf[w]
      BY <1>0, <1>a, <3>1, <3>2, SMTT(60) DEF StoreOK
    <3>3. CASE k # KindOf[w]
      BY <1>0, <1>a, <3>1, <3>3 DEF StoreOK
    <3>4. QED
      BY <3>2, <3>3
  <2>2. \A k \in Kind : value'[k] \in Nat
    BY <1>2 DEF StoreOK
  <2>3. ASSUME NEW q \in Reader, rpc[q] \in {"lock", "call"}
        PROVE  floor[q] <= value'[KindOf[q]]
    <3>1. floor[q] <= value[KindOf[q]]
      BY <1>0, <2>3 DEF Floors
    <3>2. floor[q] \in Nat /\ KindOf[q] \in Kind
      BY <1>t DEF Numbers
    <3>3. value[KindOf[q]] \in Nat
      BY <1>t, <3>2 DEF Numbers
    <3>4. value'[KindOf[q]] \in Nat /\ value[KindOf[q]] <= value'[KindOf[q]]
      BY <2>1, <2>2, <3>2
    <3>5. QED
      BY <3>1, <3>2, <3>3, <3>4
  <2>4. QED
    BY <1>0, <1>u, <2>3, Zenon DEF Floors, Entry
<1>13. QED
  BY <1>f, <1>g, <1>2, <1>3, <1>7, <1>8, <1>9, <1>10, <1>11, <1>12 DEF IInv, TypeOK

(* Every step keeps the invariant.                                         *)
LEMMA NextKeeps ==
  ASSUME OneKind, IInv, [Next]_vars
  PROVE  IInv'
<1>1. CASE UNCHANGED vars
  <2>. USE DEF vars, storeVars, putVars, libVars, getVars, IInv
  <2>1. TypeOK'
    BY <1>1, Zenon DEF TypeOK, StoreOK, PutOK, LibOK, GetOK
  <2>2. ClientLocks' /\ Unleased'
    BY <1>1, Zenon DEF ClientLocks, Unleased
  <2>3. ServerLocks'
    BY <1>1, Zenon DEF ServerLocks
  <2>4. AckedIsClean'
    BY <1>1, Zenon DEF AckedIsClean
  <2>5. EntriesBacked' /\ RepliesBacked'
    BY <1>1, Zenon DEF EntriesBacked, RepliesBacked, Backed
  <2>6. Floors'
    BY <1>1, Zenon DEF Floors, Entry
  <2>7. QED
    BY <2>1, <2>2, <2>3, <2>4, <2>5, <2>6, Zenon
<1>2. ASSUME NEW r \in Reader, GetBegin(r) \/ GetFails(r) \/ ReaderStep(r) PROVE IInv'
  BY <1>2, GetBeginKeeps, GetFailsKeeps, GetCachedKeeps, GetCallKeeps, GetReturnKeeps,
     ServerGetKeeps DEF ReaderStep
<1>3. ASSUME NEW w \in Writer, PutBegin(w) \/ WriterStep(w) PROVE IInv'
  BY <1>3, PutCreatesKeeps, PutLocksKeeps, RevokeSendsKeeps, DialFailsKeeps, RevokeEndsKeeps,
     PutEndKeeps, RevokeSkipsKeeps, RevokeBeginsKeeps DEF PutBegin, WriterStep
<1>4. ASSUME NEW c \in Client,
             Crash(c) \/ \E k \in Kind : SweepLooks(c, k) \/ SweepDeletes(c, k)
      PROVE  IInv'
  BY <1>4, CrashKeeps, SweepLooksKeeps, SweepDeletesKeeps, Zenon
<1>5. QED
  BY <1>1, <1>2, <1>3, <1>4, TickKeeps, RevokeLeaseKeeps, Zenon DEF Next

(* The invariant of the lease protocol.                                    *)
THEOREM Invariant == ASSUME OneKind PROVE Spec => []IInv
<1>1. QED
  BY InitKeeps, NextKeeps, PTL DEF Spec

(* A Get returns a version at least as new as the one the storage server   *)
(* held when it was called.                                                *)
THEOREM Freshness == ASSUME OneKind PROVE Spec => []Fresh
<1>1. IInv => Fresh
  BY TypedNumbers, Zenon DEF IInv, Numbers, Floors, Fresh
<1>2. QED
  BY <1>1, Invariant, PTL
=============================================================================
