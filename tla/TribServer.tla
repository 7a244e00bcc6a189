----------------------------- MODULE TribServer -----------------------------
(***************************************************************************)
(* The Tribbler server (p2, tribserver/tribserver_impl.go): its seven      *)
(* handlers as sequences of calls of the libstore, run by goroutines of    *)
(* one or several servers on one storage.                                  *)
(*                                                                         *)
(* A call of the libstore is atomic (module Leases is about the caches     *)
(* behind it) and may fail, before or after it has had its effect.  The    *)
(* keys of a user become four pieces of state: user, subscribe_list,       *)
(* tribble_list and the tribbles under their ids.                          *)
(***************************************************************************)
EXTENDS Integers, FiniteSets

CONSTANTS User,
          Handler,   \* the calls that are served at one time
          Calls,     \* bound: the calls that clients make
          Cap,       \* how many tribbles a reply holds (100)
          MaxCalls,  \* bound: how many calls are made
          MaxFail,   \* bound: how many calls of the libstore fail
          MaxNow     \* bound: the last instant

ASSUME TribAssumption ==
  /\ Calls \subseteq [op : {"CreateUser", "AddSubscription", "RemoveSubscription",
                            "GetSubscriptions", "PostTribble", "GetTribbles",
                            "GetTribblesBySubscription"},
                      user : User, target : User]
  /\ Cap \in Nat /\ MaxCalls \in Nat /\ MaxFail \in Nat /\ MaxNow \in Nat

VARIABLES
  user,            \* the users whose key "user" is stored
  subscribe_list,  \* per user, the users in the list
  hasList,         \* the users whose subscribe_list is stored
  tribble_list,    \* per user, the ids in the list
  tribbles,        \* the tribbles that are stored, by user and id
  now,             \* the clock
  hs,              \* the goroutine of each handler
  calls, fails,    \* counters
  posts            \* history: what PostTribble tried to store; ok when answered so

store == <<user, subscribe_list, hasList, tribble_list, tribbles>>
vars == <<store, now, hs, calls, fails, posts>>

(* The zero value of a Tribble, and a stored one.                          *)
Zero == [posted |-> 0, post |-> 0]

Idle == [pc |-> "replied", call |-> [op |-> "none"], n |-> 0, okUser |-> FALSE,
         id |-> 0, todo |-> {}, pending |-> {}, got |-> {}, last |-> [u \in User |-> Zero],
         status |-> "none", reply |-> {}, before |-> {}, steady |-> {}, asked |-> {}, clean |-> TRUE]

(* The storage outlives a server; users may be there from before.          *)
Init ==
  /\ user \in SUBSET User
  /\ subscribe_list = [u \in User |-> {}]
  /\ hasList = {}
  /\ tribble_list = [u \in User |-> {}]
  /\ tribbles = [k \in {} |-> Zero]
  /\ now = 1
  /\ hs = [h \in Handler |-> Idle]
  /\ calls = 0 /\ fails = 0
  /\ posts = {}

-----------------------------------------------------------------------------
(* Calls of the libstore.                                                  *)

(* How a call may end: "ok", "lost" (done, but it reports an error) or     *)
(* "failed" (not done).                                                    *)
Ends(e) ==
  /\ e # "ok" => fails < MaxFail
  /\ fails' = fails + (IF e = "ok" THEN 0 ELSE 1)

Goto(h, pc) == [hs[h] EXCEPT !.pc = pc]

Reply(h, status) == [Idle EXCEPT !.status = status]

Become(h, s) == hs' = [hs EXCEPT ![h] = s]

(* As Become, noting whether a call of this handler has failed.  Of the    *)
(* replies, only those with tribbles are looked at later.                  *)
BecomeAfter(h, e, s) ==
  Become(h, [s EXCEPT !.clean = s.pc = "replied" \/ (@ /\ e = "ok")])

(* A goroutine begins to serve a call.  What was answered before is noted: *)
(* the posts, and the subscriptions.                                       *)
Begin(h, c) ==
  /\ hs[h].pc = "replied" /\ calls < MaxCalls
  /\ calls' = calls + 1
  /\ Become(h, [Idle EXCEPT !.pc = "user", !.call = c, !.n = calls + 1,
                  !.before = {p \in posts : p.ok},
                  !.steady = subscribe_list[c.user]])
  /\ UNCHANGED <<store, now, fails, posts>>

(* Every handler first asks for the user.                                  *)
AfterUser(h, found) ==
  LET op == hs[h].call.op
  IN  IF op = "CreateUser" THEN IF found THEN Reply(h, "Exists") ELSE Goto(h, "putUser")
      ELSE IF op \in {"AddSubscription", "RemoveSubscription"}
      THEN [Goto(h, "target") EXCEPT !.okUser = found]
      ELSE IF ~found THEN Reply(h, "NoSuchUser")
      ELSE CASE op = "PostTribble" -> Goto(h, "putTribble")
             [] op = "GetTribbles" ->
                  [Goto(h, "fetch") EXCEPT !.todo = {hs[h].call.user}, !.asked = {hs[h].call.user}]
             [] OTHER -> Goto(h, "list")

GetUser(h) ==
  /\ hs[h].pc = "user"
  /\ \E e \in {"ok", "failed"} :
       /\ Ends(e)
       /\ BecomeAfter(h, e, AfterUser(h, e = "ok" /\ hs[h].call.user \in user))
  /\ UNCHANGED <<store, now, calls, posts>>

(* CreateUser: the error of Put is ignored.                                *)
PutUser(h) ==
  /\ hs[h].pc = "putUser"
  /\ \E e \in {"ok", "lost", "failed"} :
       /\ Ends(e)
       /\ user' = IF e = "failed" THEN user ELSE user \cup {hs[h].call.user}
       /\ BecomeAfter(h, e, Reply(h, "OK"))
  /\ UNCHANGED <<subscribe_list, hasList, tribble_list, tribbles, now, calls, posts>>

-----------------------------------------------------------------------------
(* Subscriptions.                                                          *)

(* Variant: the target is not looked at.                                   *)
AfterTargetUnchecked(h, found) ==
  IF ~hs[h].okUser THEN Reply(h, "NoSuchUser") ELSE Goto(h, "change")

AfterTarget(h, found) ==
  IF ~hs[h].okUser THEN Reply(h, "NoSuchUser")
  ELSE IF ~found THEN Reply(h, "NoSuchTargetUser") ELSE Goto(h, "change")

GetTarget(h) ==
  /\ hs[h].pc = "target"
  /\ \E e \in {"ok", "failed"} :
       /\ Ends(e)
       /\ BecomeAfter(h, e, AfterTarget(h, e = "ok" /\ hs[h].call.target \in user))
  /\ UNCHANGED <<store, now, calls, posts>>

(* Any error of AppendToList becomes Exists.                               *)
AppendSubscription(h) ==
  LET c == hs[h].call
  IN  /\ hs[h].pc = "change" /\ c.op = "AddSubscription"
      /\ \E e \in {"ok", "lost", "failed"} :
           /\ Ends(e)
           /\ BecomeAfter(h, e, Reply(h, IF e = "ok" /\ c.target \notin subscribe_list[c.user]
                                         THEN "OK" ELSE "Exists"))
           /\ IF e = "failed" THEN UNCHANGED <<subscribe_list, hasList>>
              ELSE /\ subscribe_list' = [subscribe_list EXCEPT ![c.user] = @ \cup {c.target}]
                   /\ hasList' = hasList \cup {c.user}
      /\ UNCHANGED <<user, tribble_list, tribbles, now, calls, posts>>

(* Any error of RemoveFromList becomes NoSuchTargetUser.  Reads that are   *)
(* under way no longer count on the subscription.                          *)
RemoveSubscription(h) ==
  LET c == hs[h].call
  IN  /\ hs[h].pc = "change" /\ c.op = "RemoveSubscription"
      /\ \E e \in {"ok", "lost", "failed"} :
           /\ Ends(e)
           /\ LET self == Reply(h, IF e = "ok" /\ c.target \in subscribe_list[c.user]
                                   THEN "OK" ELSE "NoSuchTargetUser")
              IN  hs' = [g \in Handler |->
                    IF g = h THEN self
                    ELSE IF e # "failed" /\ hs[g].pc # "replied" /\ hs[g].call.user = c.user
                    THEN [hs[g] EXCEPT !.steady = @ \ {c.target}] ELSE hs[g]]
           /\ subscribe_list' =
                IF e = "failed" THEN subscribe_list
                ELSE [subscribe_list EXCEPT ![c.user] = @ \ {c.target}]
      /\ UNCHANGED <<user, hasList, tribble_list, tribbles, now, calls, posts>>

(* GetList of a key that was never stored is an error, and it is passed on.*)
GetSubscriptions(h) ==
  LET c == hs[h].call
  IN  /\ hs[h].pc = "list" /\ c.op = "GetSubscriptions"
      /\ \E e \in {"ok", "failed"} :
           /\ Ends(e)
           /\ BecomeAfter(h, e,
                Reply(h, IF e = "ok" /\ c.user \in hasList THEN "OK" ELSE "error"))
      /\ UNCHANGED <<store, now, calls, posts>>

-----------------------------------------------------------------------------
(* PostTribble.                                                            *)

AfterPut(h, id, e) ==
  IF e = "ok" THEN [Goto(h, "appendTribble") EXCEPT !.id = id] ELSE Reply(h, "error")

(* The clock is read for Posted and again for the id; time may or may not  *)
(* have passed.                                                            *)
PutTribble(h) ==
  LET u == hs[h].call.user
      n == hs[h].n
  IN  /\ hs[h].pc = "putTribble"
      /\ \E posted \in now .. MaxNow : \E id \in posted .. MaxNow :
           /\ now' = id
           /\ posts' = posts \cup {[user |-> u, id |-> id, post |-> n, posted |-> posted, ok |-> FALSE]}
           /\ \E e \in {"ok", "lost", "failed"} :
                /\ Ends(e)
                /\ tribbles' =
                     IF e = "failed" THEN tribbles
                     ELSE [k \in DOMAIN tribbles \cup {<<u, id>>} |->
                             IF k = <<u, id>> THEN [posted |-> posted, post |-> n] ELSE tribbles[k]]
                /\ BecomeAfter(h, e, AfterPut(h, id, e))
      /\ UNCHANGED <<user, subscribe_list, hasList, tribble_list, calls>>

(* Variant: the status is set before the calls and stays, come what may.   *)
PostStatusIgnored(h, e) == "OK"

PostStatus(h, e) ==
  IF e = "ok" /\ hs[h].id \notin tribble_list[hs[h].call.user] THEN "OK" ELSE "error"

AppendTribble(h) ==
  LET u == hs[h].call.user
  IN  /\ hs[h].pc = "appendTribble"
      /\ \E e \in {"ok", "lost", "failed"} :
           /\ Ends(e)
           /\ tribble_list' = IF e = "failed" THEN tribble_list
                              ELSE [tribble_list EXCEPT ![u] = @ \cup {hs[h].id}]
           /\ BecomeAfter(h, e, Reply(h, PostStatus(h, e)))
           /\ posts' = {[p EXCEPT !.ok = @ \/ (p.post = hs[h].n /\ PostStatus(h, e) = "OK")] : p \in posts}
      /\ UNCHANGED <<user, subscribe_list, hasList, tribbles, now, calls>>

-----------------------------------------------------------------------------
(* Reading tribbles.                                                       *)

(* GetTribblesBySubscription: an error of GetList comes with an empty list *)
(* and is ignored.                                                         *)
ListSubscriptions(h) ==
  LET c == hs[h].call
  IN  /\ hs[h].pc = "list" /\ c.op = "GetTribblesBySubscription"
      /\ \E e \in {"ok", "failed"} :
           LET list == IF e = "ok" THEN subscribe_list[c.user] ELSE {}
           IN  /\ Ends(e)
               /\ BecomeAfter(h, e, [Goto(h, "fetch") EXCEPT !.todo = list, !.asked = list])
      /\ UNCHANGED <<store, now, calls, posts>>

(* GetTribblesOneuser, one goroutine for each user: the list of ids, whose *)
(* error is ignored too, and then a goroutine for each id.                 *)
GetTribblesOneuser(h, u) ==
  /\ hs[h].pc = "fetch" /\ u \in hs[h].todo
  /\ \E e \in {"ok", "failed"} :
       /\ Ends(e)
       /\ BecomeAfter(h, e, [hs[h] EXCEPT
            !.todo = @ \ {u},
            !.pending = @ \cup (IF e = "ok" THEN {u} \X tribble_list[u] ELSE {})])
  /\ UNCHANGED <<store, now, calls, posts>>

(* Variant: the variable that all goroutines share keeps its first value.  *)
ValueOfShared(h, u, id, e) ==
  IF hs[h].last[u] # Zero THEN hs[h].last[u]
  ELSE IF e = "ok" /\ <<u, id>> \in DOMAIN tribbles THEN tribbles[<<u, id>>] ELSE Zero

ValueOf(h, u, id, e) ==
  IF e = "ok" /\ <<u, id>> \in DOMAIN tribbles THEN tribbles[<<u, id>>] ELSE hs[h].last[u]

(* A tribble arrives.  When Get has failed, the value that arrived before  *)
(* is taken once more.                                                     *)
Arrive(h, u, id) ==
  /\ hs[h].pc = "fetch" /\ <<u, id>> \in hs[h].pending
  /\ \E e \in {"ok", "failed"} :
       LET value == ValueOf(h, u, id, e)
       IN  /\ Ends(e)
           /\ BecomeAfter(h, e, [hs[h] EXCEPT
                !.pending = @ \ {<<u, id>>}, !.last = [@ EXCEPT ![u] = value],
                !.got = @ \cup {[user |-> u, id |-> id, value |-> value]}])
  /\ UNCHANGED <<store, now, calls, posts>>

(* Variant: sorted the other way round.                                    *)
NewestFirstNot(in, out) == \A x \in in, y \in out : x.value.posted <= y.value.posted

(* What remains after sorting by Posted and cutting at Cap.                *)
NewestFirst(in, out) == \A x \in in, y \in out : x.value.posted >= y.value.posted

Finish(h) ==
  LET got == hs[h].got
      length == IF Cardinality(got) > Cap THEN Cap ELSE Cardinality(got)
  IN  /\ hs[h].pc = "fetch" /\ hs[h].todo = {} /\ hs[h].pending = {}
      /\ \E in \in SUBSET got :
           /\ Cardinality(in) = length /\ NewestFirst(in, got \ in)
           /\ Become(h, [hs[h] EXCEPT !.pc = "replied", !.status = "OK", !.reply = in])
      /\ UNCHANGED <<store, now, calls, fails, posts>>

-----------------------------------------------------------------------------

Next ==
  \E h \in Handler :
    \/ \E c \in Calls : Begin(h, c)
    \/ GetUser(h) \/ PutUser(h)
    \/ GetTarget(h) \/ AppendSubscription(h) \/ RemoveSubscription(h) \/ GetSubscriptions(h)
    \/ PutTribble(h) \/ AppendTribble(h)
    \/ ListSubscriptions(h) \/ Finish(h)
    \/ \E u \in hs[h].todo : GetTribblesOneuser(h, u)
    \/ \E k \in hs[h].pending : Arrive(h, k[1], k[2])

Spec == Init /\ [][Next]_vars

-----------------------------------------------------------------------------

(* A list of subscriptions only holds users that exist, and so does the    *)
(* user it belongs to, however the handlers and the failures interleave.   *)
SubscribersExist ==
  \A u \in User : subscribe_list[u] # {} => u \in user /\ subscribe_list[u] \subseteq user

(* No other post of the user was made in the same nanosecond.              *)
Unique(p) == \A q \in posts : q.user = p.user /\ q.id = p.id => q.post = p.post

(* A post that was answered with OK is in the storage and stays there,     *)
(* unless another one of that user took the same id.                       *)
PostsKept ==
  \A p \in posts : p.ok /\ Unique(p) =>
    /\ p.user \in user /\ p.id \in tribble_list[p.user]
    /\ tribbles[<<p.user, p.id>>].post = p.post

Reading(h) ==
  /\ hs[h].pc = "replied" /\ hs[h].status = "OK" /\ hs[h].clean
  /\ hs[h].call.op \in {"GetTribbles", "GetTribblesBySubscription"}

(* A reply to GetTribbles or GetTribblesBySubscription, if none of its     *)
(* calls failed, shows every post that was answered before it was asked    *)
(* for, of the user or of a user subscribed to all the while, unless the   *)
(* reply is full of tribbles that are not older.                           *)
RecentSeen ==
  \A h \in Handler : Reading(h) =>
    LET whose == IF hs[h].call.op = "GetTribbles" THEN {hs[h].call.user} ELSE hs[h].steady
    IN  \A p \in hs[h].before : p.user \in whose /\ Unique(p) =>
          \/ \E x \in hs[h].reply : x.value.post = p.post
          \/ /\ Cardinality(hs[h].reply) = Cap
             /\ \A x \in hs[h].reply : x.value.posted >= p.posted

(* Such a reply holds nothing but posts, each at most once and under the   *)
(* name of its user, although values of several goroutines arrive in any   *)
(* order.                                                                  *)
RepliesReal ==
  \A h \in Handler : Reading(h) =>
    /\ \A x \in hs[h].reply : /\ x.user \in hs[h].asked \cap user
                              /\ \E p \in posts : /\ p.post = x.value.post /\ p.user = x.user
                                                 /\ p.id = x.id /\ p.posted = x.value.posted
    /\ \A x, y \in hs[h].reply : x.value.post = y.value.post => x = y
=============================================================================
