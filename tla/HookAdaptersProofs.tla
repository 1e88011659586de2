-------------------------- MODULE HookAdaptersProofs --------------------------
(***************************************************************************)
(* What the clients make of the daemon's promise, for any number of        *)
(* requests, sessions, hooks that run at once and restarts, and for any    *)
(* choice of host events: no intervention is taken out of the daemon and   *)
(* dropped, none is heard more than twice, and none stops an agent whose   *)
(* user has not agreed to it.                                              *)
(***************************************************************************)
EXTENDS HookAdapters, FiniteSetTheorems, TLAPS

(* A request on the wire has a session, an event of its host, and a client *)
(* that waits for it, has its answer or has given it up.                   *)
Known(r) ==
  /\ home[r] \in Sessions
  /\ call[r].event # "gate_end" =>
       call[r].event \in EventsOf(host[home[r]]) /\ Sends(host[home[r]], call[r].event)
  /\ call[r].client \in {"waiting", "returned"}
  /\ call[r].client = "returned" => r \in gaveUp \/ call[r].server = "answered"

Wire ==
  /\ \A r \in Requests : call[r].server # "none" => Known(r)
  /\ \A r \in Requests : call[r].client # "idle" => call[r].server # "none"

(* Interventions: who decided them had the authority to. *)
Authorized ==
  \A v \in decided : /\ call[v.by].server # "none" /\ KindOf(v.by) # "pending"
                     /\ v.action \in Daemon!Stopping => home[v.by] \in MayStop

(* Whoever is told one is of its session, and holds an answer to give; it  *)
(* is its requester or the one that collected it.                          *)
Placed ==
  /\ \A r \in Requests : told[r] # None =>
       /\ told[r] \in decided /\ call[r].server # "none" /\ home[told[r].by] = home[r]
       /\ told[r].by # r => KindOf(r) \in Gates \cup {"pending"}
  /\ \A s \in Sessions : slot[s] # None =>
       /\ slot[s] \in decided /\ home[slot[s].by] = s
       /\ \A q \in Requests : told[q] = slot[s] <=> q = slot[s].by
  /\ \A q, r \in Requests :
       told[q] # None /\ told[q] = told[r] /\ told[q].by # q /\ told[r].by # r => q = r

(* What is put before an agent comes from what was told. *)
Said ==
  \A r \in Requests :
    /\ output[r] \in {"stop", "deny"} => told[r] # None /\ told[r].action \in Daemon!Stopping
    /\ call[r].event \in {"reasoning", "acting"} /\ host[home[r]] = "plugin" => output[r] = "nothing"
    /\ call[r].client # "returned" => output[r] = "nothing"

Linked == TypeOK /\ Wire /\ Authorized /\ Placed /\ Said /\ CollectedIsHeard

LEMMA LinkedInit == Init => Linked
<1> SUFFICES ASSUME Init PROVE Linked  OBVIOUS
<1> USE DEF Init, Daemon!Init
<1>1. Idle.event = "none" /\ Idle.client = "idle" /\ Idle.server = "none"
      /\ Idle \in [event: Events \cup {"none", "gate_end"},
                   client: {"idle", "waiting", "returned"},
                   server: {"none", "sent", "decided", "answered", "dead"}]
  BY DEF Idle
<1>2. TypeOK  BY <1>1, RequestsAssumption DEF TypeOK, Outputs
<1>3. Wire /\ Authorized /\ Placed /\ Said /\ CollectedIsHeard
  BY <1>1 DEF Wire, Authorized, Placed, Said, CollectedIsHeard
<1> QED  BY <1>2, <1>3 DEF Linked

LEMMA VerdictsAreSomething == None \notin Daemon!Verdicts
BY RequestsAssumption DEF Daemon!Verdicts, Daemon!Stopping

(* The parts of an exchange. *)
LEMMA CallParts ==
  ASSUME TypeOK, NEW r \in Requests
  PROVE  /\ call[r].event \in Events \cup {"none", "gate_end"}
         /\ call[r].client \in {"idle", "waiting", "returned"}
         /\ call[r].server \in {"none", "sent", "decided", "answered", "dead"}
BY DEF TypeOK

(* The daemon goes on with exchanges it has; no client notices.            *)
Onward ==
  /\ call' \in [Requests -> [event: Events \cup {"none", "gate_end"},
                             client: {"idle", "waiting", "returned"},
                             server: {"none", "sent", "decided", "answered", "dead"}]]
  /\ \A r \in Requests : /\ call'[r].event = call[r].event /\ call'[r].client = call[r].client
                         /\ call[r].server = "none" <=> call'[r].server = "none"
                         /\ call[r].server = "answered" => call'[r].server = "answered"
  /\ UNCHANGED <<home, clientVars>>

LEMMA OneOnward ==
  ASSUME Linked, NEW r \in Requests, call[r].server \in {"sent", "decided"},
         NEW x \in {"decided", "answered"}, call' = [call EXCEPT ![r].server = x],
         UNCHANGED <<home, clientVars>>
  PROVE  Onward
BY DEF Linked, TypeOK, Onward

LEMMA OnwardKeeps ==
  ASSUME Linked, Onward
  PROVE  /\ Wire' /\ \A r \in Requests : KindOf(r)' = KindOf(r)
         /\ \A r \in Requests : Known(r) => Known(r)'
         /\ \A s \in Sessions : /\ gate'[s] = "asking" => GateCall(s, "text_end")'
                                /\ gate'[s] = "deciding" => GateCall(s, "gate_end")'
         /\ UNCHANGED <<host, gate, output, gaveUp>>
<1>1. UNCHANGED <<home, host, gate, output, gaveUp>>  BY DEF Onward, clientVars
<1>2. \A r \in Requests : KindOf(r)' = KindOf(r)  BY <1>1 DEF Onward, KindOf
<1>3. \A r \in Requests : Known(r) => Known(r)'  BY <1>1 DEF Onward, Known
<1>4. Wire'  BY <1>3 DEF Linked, Wire, Onward
<1>5. \A s \in Sessions : Waiting(s)' = Waiting(s)  BY <1>1 DEF Onward, Waiting
<1>6. \A s \in Sessions, e \in {"text_end", "gate_end"} : GateCall(s, e) => GateCall(s, e)'
  <2>1. \A s \in Sessions : Waiting(s) \subseteq Requests  BY DEF Waiting
  <2> QED  BY <1>5, <2>1 DEF Onward, GateCall
<1> QED  BY <1>1, <1>2, <1>3, <1>4, <1>6 DEF Linked, TypeOK

(* Silence: nobody is told anything. *)
LEMMA SilenceKeeps ==
  ASSUME Linked, Onward, UNCHANGED <<decided, slot, told, wordless, replaced, restarts>>
  PROVE  Linked'
<1>1. /\ Wire' /\ \A r \in Requests : KindOf(r)' = KindOf(r)
      /\ \A s \in Sessions : /\ gate'[s] = "asking" => GateCall(s, "text_end")'
                             /\ gate'[s] = "deciding" => GateCall(s, "gate_end")'
      /\ UNCHANGED <<host, gate, output, gaveUp, home>>
  BY OnwardKeeps DEF Onward
<1>2. TypeOK'  BY <1>1 DEF Linked, TypeOK, Onward
<1>3. decided \subseteq Daemon!Verdicts /\ \A v \in Daemon!Verdicts : v.by \in Requests
  BY DEF Linked, TypeOK, Daemon!Verdicts
<1>4. Authorized'  BY <1>1, <1>3 DEF Linked, Authorized, Onward
<1>5. Placed'  BY <1>1 DEF Linked, Placed, Onward
<1>6. Said'  BY <1>1 DEF Linked, Said, Onward
<1>7. CollectedIsHeard'
  <2>1. \A r \in Requests : told[r] # None => told[r].by \in Requests
    BY <1>3 DEF Linked, Placed
  <2>2. \A r \in Requests : told[r] # None /\ Greeted(told[r]) => Greeted(told[r])'
    BY <1>1, <2>1 DEF Greeted, Onward
  <2>3. \A r \in Requests : Mute(r)' = Mute(r)  BY <1>1 DEF Mute, Onward
  <2> QED  BY <1>1, <2>2, <2>3 DEF Linked, CollectedIsHeard, Parked, Onward
<1> QED  BY <1>1, <1>2, <1>4, <1>5, <1>6, <1>7 DEF Linked

LEMMA QuietStep ==
  ASSUME Linked, NEW r \in Requests, NothingPending(r) \/ Silent(r)
  PROVE  Linked'
<1>1. /\ call[r].server = "sent" /\ call' = [call EXCEPT ![r].server = "answered"]
      /\ UNCHANGED <<home, decided, slot, told, clientVars, wordless, replaced, restarts>>
  BY DEF NothingPending, Silent, Undecided, Served, daemonVars
<1> QED  BY <1>1, OneOnward, SilenceKeeps

(* Collecting: the slot is emptied into the answer. *)
LEMMA CollectStep == ASSUME Linked, NEW r \in Requests, Collect(r) PROVE Linked'
<1> DEFINE s == home[r]
           v == slot[s]
<1>1. /\ call[r].server = "sent" /\ KindOf(r) \in Gates \cup {"pending"}
      /\ call' = [call EXCEPT ![r].server = "answered"]
      /\ told[r] = None /\ v # None
      /\ home' = [home EXCEPT ![r] = s] /\ told' = [told EXCEPT ![r] = v]
      /\ slot' = [slot EXCEPT ![s] = None]
      /\ UNCHANGED <<decided, clientVars, wordless, replaced, restarts>>
  BY DEF Collect, Served, Daemon!Collect
<1>2. Known(r) /\ s \in Sessions  BY <1>1 DEF Linked, Wire, Known
<1>3. home' = home  BY <1>1 DEF Linked, TypeOK
<1>4. Onward  BY <1>1, <1>3, OneOnward
<1>5. /\ Wire' /\ \A q \in Requests : KindOf(q)' = KindOf(q)
      /\ \A t \in Sessions : /\ gate'[t] = "asking" => GateCall(t, "text_end")'
                             /\ gate'[t] = "deciding" => GateCall(t, "gate_end")'
      /\ UNCHANGED <<host, gate, output, gaveUp>>
  BY <1>4, OnwardKeeps
<1>6. v \in Daemon!Verdicts /\ v \in decided /\ v.by \in Requests
      /\ home[v.by] = s /\ \A q \in Requests : told[q] = v <=> q = v.by
  BY <1>1, <1>2 DEF Linked, TypeOK, Placed, Daemon!Verdicts
<1>7. r # v.by  BY <1>1, <1>6
<1>8. /\ \A q \in Requests : told'[q] = IF q = r THEN v ELSE told[q]
      /\ \A t \in Sessions : slot'[t] = IF t = s THEN None ELSE slot[t]
  BY <1>1, <1>2 DEF Linked, TypeOK
<1> HIDE DEF s, v
<1>9. TypeOK'
  <2>1. /\ told' \in [Requests -> Daemon!Verdicts \cup {None}]
        /\ slot' \in [Sessions -> Daemon!Verdicts \cup {None}]
    BY <1>1, <1>2, <1>6 DEF Linked, TypeOK
  <2> QED  BY <1>1, <1>3, <1>4, <1>5, <2>1 DEF Linked, TypeOK, Onward
<1>10. decided \subseteq Daemon!Verdicts /\ \A w \in Daemon!Verdicts : w.by \in Requests
  BY DEF Linked, TypeOK, Daemon!Verdicts
<1>11. Authorized'  BY <1>1, <1>3, <1>4, <1>5, <1>10 DEF Linked, Authorized, Onward
<1>12. Placed'
  <2>1. \A q \in Requests : told'[q] # None =>
          /\ told'[q] \in decided /\ call'[q].server # "none" /\ home[told'[q].by] = home[q]
          /\ told'[q].by # q => KindOf(q)' \in Gates \cup {"pending"}
    BY <1>1, <1>4, <1>5, <1>6, <1>8 DEF Linked, Placed, Onward, s
  <2>2. \A t \in Sessions : slot'[t] # None =>
          /\ slot'[t] \in decided /\ home[slot'[t].by] = t
          /\ \A q \in Requests : told'[q] = slot'[t] <=> q = slot'[t].by
    BY <1>1, <1>6, <1>8 DEF Linked, Placed
  <2>3. \A p, q \in Requests :
          told'[p] # None /\ told'[p] = told'[q] /\ told'[p].by # p /\ told'[q].by # q => p = q
    BY <1>6, <1>8 DEF Linked, Placed
  <2> QED  BY <1>1, <1>3, <2>1, <2>2, <2>3 DEF Placed
<1>13. Said'  BY <1>1, <1>3, <1>4, <1>5, <1>8 DEF Linked, Said, Onward
<1>14. CollectedIsHeard'
  <2>1. ASSUME NEW q \in Requests, told'[q] # None, told'[q].by = q
        PROVE  Parked(told[q])' \/ told'[q] \in replaced' \/ Greeted(told[q])'
               \/ \E p \in Requests \ {q} : told'[p] = told'[q]
    <3>1. q # r /\ told'[q] = told[q] /\ told[q] # None /\ told[q].by = q
      BY <1>6, <1>7, <1>8, <2>1
    <3>2. CASE Parked(told[q])
      <4>1. CASE home[q] = s
        <5>1. told[q] = v  BY <3>1, <3>2, <4>1 DEF Parked, v
        <5> QED  BY <1>8, <3>1, <5>1
      <4>2. CASE home[q] # s
        <5>1. home[q] \in Sessions  BY <3>1 DEF Linked, Placed, Wire, Known
        <5> QED  BY <1>3, <1>8, <3>1, <3>2, <4>2, <5>1 DEF Parked
      <4> QED  BY <4>1, <4>2
    <3>3. CASE told[q] \in replaced  BY <1>1, <3>1, <3>3
    <3>4. CASE Greeted(told[q])  BY <1>4, <1>5, <3>1, <3>4 DEF Greeted, Onward
    <3>5. CASE \E p \in Requests \ {q} : told[p] = told[q]
      <4>1. PICK p \in Requests \ {q} : told[p] = told[q]  BY <3>5
      <4>2. p # r  BY <1>1, <3>1, <4>1
      <4> QED  BY <1>8, <3>1, <4>1, <4>2
    <3> QED  BY <3>1, <3>2, <3>3, <3>4, <3>5 DEF Linked, CollectedIsHeard
  <2>2. ASSUME NEW q \in Requests, told'[q] # None, told'[q].by # q
        PROVE  call'[q].client = "waiting" \/ q \in gaveUp' \/ output'[q] # "nothing" \/ Mute(q)'
    <3>1. CASE q = r  BY <1>1, <1>2, <1>4, <1>5, <3>1 DEF Known, Onward
    <3>2. CASE q # r
      <4>1. told'[q] = told[q]  BY <1>8, <3>2
      <4>2. Mute(q) => Mute(q)'  BY <1>1, <1>3, <1>4, <1>5, <4>1 DEF Mute, Onward
      <4> QED  BY <1>4, <1>5, <2>2, <4>1, <4>2 DEF Linked, CollectedIsHeard, Onward
    <3> QED  BY <3>1, <3>2
  <2> QED  BY <2>1, <2>2 DEF CollectedIsHeard
<1> QED  BY <1>5, <1>9, <1>11, <1>12, <1>13, <1>14 DEF Linked

(* What was told before a step of the daemon is still heard after it. *)
LEMMA StillHeard ==
  ASSUME Linked, Onward, wordless \subseteq wordless', NEW q \in Requests,
         told[q] # None, told'[q] = told[q]
  PROVE  /\ told[q].by # q =>
              call'[q].client = "waiting" \/ q \in gaveUp' \/ output'[q] # "nothing" \/ Mute(q)'
         /\ Greeted(told[q]) => Greeted(told[q])'
         /\ told[q].by \in Requests /\ told[q] \in decided /\ home[q] \in Sessions
         /\ home[told[q].by] = home[q]
<1>1. UNCHANGED <<host, output, gaveUp, home>>  BY OnwardKeeps DEF Onward
<1>2. told[q].by \in Requests /\ told[q] \in decided /\ home[q] \in Sessions
      /\ home[told[q].by] = home[q]
  BY DEF Linked, TypeOK, Placed, Wire, Known, Daemon!Verdicts
<1>3. Mute(q) => Mute(q)'  BY <1>1 DEF Mute, Onward
<1>4. Greeted(told[q]) => Greeted(told[q])'  BY <1>2, OnwardKeeps DEF Greeted, Onward
<1> QED  BY <1>1, <1>2, <1>3, <1>4 DEF Linked, CollectedIsHeard, Onward

(* An intervention that is decided, before anybody is told. *)
LEMMA DecideStep == ASSUME Linked, NEW r \in Requests, Decide(r) PROVE Linked'
<1>1. PICK v \in Daemon!Verdicts :
        /\ Daemon!Decide(r, v)
        /\ wordless' \in {wordless} \cup (IF v.action = "nudge" THEN {wordless \cup {r}} ELSE {})
  BY DEF Decide
<1>2. /\ call[r].server = "sent" /\ KindOf(r) # "pending"
      /\ call' = [call EXCEPT ![r].server = "decided"]
      /\ v.by = r /\ decided' = decided \cup {v}
      /\ v.action \in Daemon!Stopping => home[r] \in MayStop
      /\ wordless' \subseteq wordless \cup {r} /\ wordless \subseteq wordless'
      /\ UNCHANGED <<home, slot, told, clientVars, replaced, restarts>>
  BY <1>1 DEF Decide, Undecided, Daemon!Decide, Daemon!Decidable
<1>3. Onward  BY <1>2, OneOnward
<1>4. /\ Wire' /\ \A q \in Requests : KindOf(q)' = KindOf(q)
      /\ \A t \in Sessions : /\ gate'[t] = "asking" => GateCall(t, "text_end")'
                             /\ gate'[t] = "deciding" => GateCall(t, "gate_end")'
      /\ UNCHANGED <<host, gate, output, gaveUp>>
  BY <1>3, OnwardKeeps
<1>5. TypeOK'  BY <1>1, <1>2, <1>3, <1>4 DEF Linked, TypeOK, Onward
<1>6. Authorized'
  <2>1. \A w \in decided' : w.by \in Requests
    BY <1>2 DEF Linked, TypeOK, Daemon!Verdicts
  <2> QED  BY <1>2, <1>3, <1>4, <2>1 DEF Linked, Authorized, Onward
<1>7. Placed'  BY <1>2, <1>3, <1>4 DEF Linked, Placed, Onward
<1>8. Said'  BY <1>2, <1>3, <1>4 DEF Linked, Said, Onward
<1>9. CollectedIsHeard'
  <2>1. SUFFICES ASSUME NEW q \in Requests, told[q] # None
                 PROVE  /\ told[q].by = q => Parked(told[q])' \/ told[q] \in replaced' \/ Greeted(told[q])'
                             \/ \E p \in Requests \ {q} : told[p] = told[q]
                        /\ told[q].by # q => call'[q].client = "waiting" \/ q \in gaveUp'
                             \/ output'[q] # "nothing" \/ Mute(q)'
    BY <1>2 DEF CollectedIsHeard
  <2>2. Parked(told[q]) => Parked(told[q])'  BY <1>2 DEF Parked
  <2> QED  BY <1>2, <1>3, <2>1, <2>2, StillHeard DEF Linked, CollectedIsHeard
<1> QED  BY <1>4, <1>5, <1>6, <1>7, <1>8, <1>9 DEF Linked

(* Guidance at the start of a prompt. *)
LEMMA GreetStep == ASSUME Linked, NEW r \in Requests, Greet(r) PROVE Linked'
<1> DEFINE v == [action |-> "nudge", by |-> r]
<1>1. /\ call[r].server = "sent" /\ KindOf(r) = "prompt_submit"
      /\ call' = [call EXCEPT ![r].server = "answered"]
      /\ decided' = decided \cup {v} /\ told' = [told EXCEPT ![r] = v]
      /\ told[r] = None /\ \A u \in decided : u.by # r
      /\ UNCHANGED <<home, slot, clientVars, wordless, replaced, restarts>>
  BY DEF Greet, Undecided, Served, Daemon!Greet, Daemon!Decidable
<1>2. v \in Daemon!Verdicts /\ v.by = r /\ v.action \notin Daemon!Stopping /\ v \notin decided
  BY <1>1 DEF Daemon!Verdicts, Daemon!Stopping
<1> HIDE DEF v
<1>3. Onward  BY <1>1, OneOnward
<1>4. /\ Wire' /\ \A q \in Requests : KindOf(q)' = KindOf(q)
      /\ \A t \in Sessions : /\ gate'[t] = "asking" => GateCall(t, "text_end")'
                             /\ gate'[t] = "deciding" => GateCall(t, "gate_end")'
      /\ UNCHANGED <<host, gate, output, gaveUp>>
  BY <1>3, OnwardKeeps
<1>5. v # None  BY <1>2, VerdictsAreSomething
<1>6. \A q \in Requests : told'[q] = IF q = r THEN v ELSE told[q]  BY <1>1 DEF Linked, TypeOK
<1>7. TypeOK'
  <2>1. told' \in [Requests -> Daemon!Verdicts \cup {None}]  BY <1>1, <1>2 DEF Linked, TypeOK
  <2> QED  BY <1>1, <1>2, <1>3, <1>4, <2>1 DEF Linked, TypeOK, Onward
<1>8. Authorized'
  <2>1. \A w \in decided' : w.by \in Requests
    BY <1>1, <1>2 DEF Linked, TypeOK, Daemon!Verdicts
  <2> QED  BY <1>1, <1>2, <1>3, <1>4, <2>1 DEF Linked, Authorized, Onward
<1>9. Placed'
  <2>1. \A q \in Requests : told'[q] # None =>
          /\ told'[q] \in decided' /\ call'[q].server # "none" /\ home[told'[q].by] = home[q]
          /\ told'[q].by # q => KindOf(q)' \in Gates \cup {"pending"}
    BY <1>1, <1>2, <1>3, <1>4, <1>6 DEF Linked, Placed, Onward
  <2>2. \A t \in Sessions : slot[t] # None =>
          /\ slot[t] \in decided /\ home[slot[t].by] = t
          /\ \A q \in Requests : told'[q] = slot[t] <=> q = slot[t].by
    BY <1>1, <1>2, <1>6 DEF Linked, Placed
  <2>3. \A p, q \in Requests :
          told'[p] # None /\ told'[p] = told'[q] /\ told'[p].by # p /\ told'[q].by # q => p = q
    BY <1>2, <1>6 DEF Linked, Placed
  <2> QED  BY <1>1, <2>1, <2>2, <2>3 DEF Placed
<1>10. Said'  BY <1>1, <1>3, <1>4, <1>6 DEF Linked, Said, Onward
<1>11. CollectedIsHeard'
  <2>1. ASSUME NEW q \in Requests, told'[q] # None
        PROVE  /\ told'[q].by = q => Parked(told[q])' \/ told'[q] \in replaced' \/ Greeted(told[q])'
                    \/ \E p \in Requests \ {q} : told'[p] = told'[q]
               /\ told'[q].by # q => call'[q].client = "waiting" \/ q \in gaveUp'
                    \/ output'[q] # "nothing" \/ Mute(q)'
    <3>1. CASE q = r
      <4>1. told'[q] = v /\ call'[r].server = "answered"  BY <1>1, <1>6, <3>1 DEF Linked, TypeOK
      <4>2. Greeted(told[q])'  BY <1>1, <1>2, <1>4, <4>1 DEF Greeted
      <4> QED  BY <1>2, <3>1, <4>1, <4>2
    <3>2. CASE q # r
      <4>1. told'[q] = told[q] /\ told[q] # None  BY <1>6, <2>1, <3>2
      <4>2. Parked(told[q]) => Parked(told[q])'  BY <1>1, <4>1 DEF Parked
      <4>3. \A p \in Requests \ {q} : told[p] = told[q] => told'[p] = told'[q]
        BY <1>1, <1>6, <4>1
      <4> QED  BY <1>1, <1>3, <4>1, <4>2, <4>3, StillHeard DEF Linked, CollectedIsHeard
    <3> QED  BY <3>1, <3>2
  <2> QED  BY <2>1 DEF CollectedIsHeard
<1> QED  BY <1>4, <1>7, <1>8, <1>9, <1>10, <1>11 DEF Linked

(* A decided intervention is told to its requester and parked. *)
LEMMA TellStep == ASSUME Linked, NEW r \in Requests, Tell(r) PROVE Linked'
<1> DEFINE s == home[r]
<1>1. PICK v \in decided : Daemon!Tell(r, v)  BY DEF Tell
<1>2. /\ call[r].server = "decided" /\ call' = [call EXCEPT ![r].server = "answered"]
      /\ v.by = r /\ told[r] = None /\ \A q \in Requests : told[q] # v
      /\ told' = [told EXCEPT ![r] = v] /\ slot' = [slot EXCEPT ![s] = v]
      /\ replaced' = replaced \cup ({slot[s]} \ {None})
      /\ UNCHANGED <<home, decided, clientVars, wordless, restarts>>
  BY <1>1 DEF Tell, Served, Daemon!Tell
<1>3. s \in Sessions  BY <1>2 DEF Linked, Wire, Known
<1>4. v \in Daemon!Verdicts /\ v # None  BY VerdictsAreSomething DEF Linked, TypeOK
<1>5. Onward  BY <1>2, OneOnward
<1>6. /\ Wire' /\ \A q \in Requests : KindOf(q)' = KindOf(q)
      /\ \A t \in Sessions : /\ gate'[t] = "asking" => GateCall(t, "text_end")'
                             /\ gate'[t] = "deciding" => GateCall(t, "gate_end")'
      /\ UNCHANGED <<host, gate, output, gaveUp>>
  BY <1>5, OnwardKeeps
<1>7. /\ \A q \in Requests : told'[q] = IF q = r THEN v ELSE told[q]
      /\ \A t \in Sessions : slot'[t] = IF t = s THEN v ELSE slot[t]
  BY <1>2, <1>3 DEF Linked, TypeOK
<1>8. home[v.by] = s  BY <1>2
<1> HIDE DEF s
<1>9. TypeOK'
  <2>1. /\ told' \in [Requests -> Daemon!Verdicts \cup {None}]
        /\ slot' \in [Sessions -> Daemon!Verdicts \cup {None}]
    BY <1>2, <1>3, <1>4 DEF Linked, TypeOK
  <2>2. replaced' \subseteq Daemon!Verdicts  BY <1>2, <1>3 DEF Linked, TypeOK
  <2> QED  BY <1>2, <1>5, <1>6, <2>1, <2>2 DEF Linked, TypeOK, Onward
<1>10. decided \subseteq Daemon!Verdicts /\ \A w \in Daemon!Verdicts : w.by \in Requests
  BY DEF Linked, TypeOK, Daemon!Verdicts
<1>11. Authorized'  BY <1>2, <1>5, <1>6, <1>10 DEF Linked, Authorized, Onward
<1>12. Placed'
  <2>1. \A q \in Requests : told'[q] # None =>
          /\ told'[q] \in decided /\ call'[q].server # "none" /\ home[told'[q].by] = home[q]
          /\ told'[q].by # q => KindOf(q)' \in Gates \cup {"pending"}
    BY <1>2, <1>5, <1>6, <1>7 DEF Linked, Placed, Onward
  <2>2. ASSUME NEW t \in Sessions, slot'[t] # None
        PROVE  /\ slot'[t] \in decided /\ home[slot'[t].by] = t
               /\ \A q \in Requests : told'[q] = slot'[t] <=> q = slot'[t].by
    <3>1. CASE t = s  BY <1>2, <1>7, <1>8, <3>1
    <3>2. CASE t # s
      <4>1. slot'[t] = slot[t] /\ home[slot[t].by] = t /\ slot[t] # v /\ slot[t].by # r
        BY <1>2, <1>7, <1>8, <2>2, <3>2 DEF Linked, Placed
      <4> QED  BY <1>7, <2>2, <4>1 DEF Linked, Placed
    <3> QED  BY <3>1, <3>2
  <2>3. \A p, q \in Requests :
          told'[p] # None /\ told'[p] = told'[q] /\ told'[p].by # p /\ told'[q].by # q => p = q
    BY <1>2, <1>7 DEF Linked, Placed
  <2> QED  BY <1>2, <2>1, <2>2, <2>3 DEF Placed
<1>13. Said'  BY <1>2, <1>5, <1>6, <1>7 DEF Linked, Said, Onward
<1>14. CollectedIsHeard'
  <2>1. ASSUME NEW q \in Requests, told'[q] # None
        PROVE  /\ told'[q].by = q => Parked(told[q])' \/ told'[q] \in replaced' \/ Greeted(told[q])'
                    \/ \E p \in Requests \ {q} : told'[p] = told'[q]
               /\ told'[q].by # q => call'[q].client = "waiting" \/ q \in gaveUp'
                    \/ output'[q] # "nothing" \/ Mute(q)'
    <3>1. CASE q = r
      <4>1. told'[q] = v  BY <1>7, <3>1
      <4>2. Parked(told[q])'  BY <1>2, <1>3, <1>7, <1>8, <4>1 DEF Parked
      <4> QED  BY <1>2, <3>1, <4>1, <4>2
    <3>2. CASE q # r
      <4>1. told'[q] = told[q] /\ told[q] # None  BY <1>7, <2>1, <3>2
      <4>2. /\ told[q].by \in Requests /\ home[q] \in Sessions /\ home[told[q].by] = home[q]
            /\ Greeted(told[q]) => Greeted(told[q])'
            /\ told[q].by # q => call'[q].client = "waiting" \/ q \in gaveUp'
                 \/ output'[q] # "nothing" \/ Mute(q)'
        BY <1>2, <1>5, <4>1, StillHeard
      <4>3. Parked(told[q]) => Parked(told[q])' \/ told[q] \in replaced'
        <5>1. CASE home[q] = s  BY <1>2, <4>1, <4>2, <5>1 DEF Parked
        <5>2. CASE home[q] # s  BY <1>2, <1>7, <4>1, <4>2, <5>2 DEF Parked
        <5> QED  BY <5>1, <5>2
      <4>4. \A p \in Requests \ {q} : told[p] = told[q] => told'[p] = told'[q]
        BY <1>2, <1>7, <4>1
      <4>5. told[q] \in replaced => told[q] \in replaced'  BY <1>2
      <4> QED  BY <4>1, <4>2, <4>3, <4>4, <4>5 DEF Linked, CollectedIsHeard
    <3> QED  BY <3>1, <3>2
  <2> QED  BY <2>1 DEF CollectedIsHeard
<1> QED  BY <1>6, <1>9, <1>11, <1>12, <1>13, <1>14 DEF Linked

(* A restart: slots are forgotten, exchanges in progress are dead. *)
LEMMA RestartStep == ASSUME Linked, Restart PROVE Linked'
<1>1. /\ restarts < MaxRestarts /\ restarts' = restarts + 1
      /\ slot' = [s \in Sessions |-> None]
      /\ call' = [r \in Requests |-> IF call[r].server \in {"sent", "decided"}
                                     THEN [call[r] EXCEPT !.server = "dead"] ELSE call[r]]
      /\ replaced' = replaced \cup ({slot[s] : s \in Sessions} \ {None})
      /\ UNCHANGED <<home, decided, told, clientVars, wordless>>
  BY DEF Restart, Daemon!Forget
<1>2. Onward  BY <1>1 DEF Linked, TypeOK, Onward
<1>3. /\ Wire' /\ \A q \in Requests : KindOf(q)' = KindOf(q)
      /\ \A t \in Sessions : /\ gate'[t] = "asking" => GateCall(t, "text_end")'
                             /\ gate'[t] = "deciding" => GateCall(t, "gate_end")'
      /\ UNCHANGED <<host, gate, output, gaveUp>>
  BY <1>2, OnwardKeeps
<1>4. TypeOK'
  <2>1. slot' \in [Sessions -> Daemon!Verdicts \cup {None}]  BY <1>1
  <2>2. replaced' \subseteq Daemon!Verdicts  BY <1>1 DEF Linked, TypeOK
  <2>3. restarts' \in 0..MaxRestarts  BY <1>1, RequestsAssumption DEF Linked, TypeOK
  <2> QED  BY <1>1, <1>2, <1>3, <2>1, <2>2, <2>3 DEF Linked, TypeOK, Onward
<1>5. Authorized'
  <2>1. \A w \in decided : w.by \in Requests  BY DEF Linked, TypeOK, Daemon!Verdicts
  <2> QED  BY <1>1, <1>2, <1>3, <2>1 DEF Linked, Authorized, Onward
<1>6. Placed'  BY <1>1, <1>2, <1>3 DEF Linked, Placed, Onward
<1>7. Said'  BY <1>1, <1>2, <1>3 DEF Linked, Said, Onward
<1>8. CollectedIsHeard'
  <2>1. SUFFICES ASSUME NEW q \in Requests, told[q] # None
                 PROVE  /\ told[q].by = q => Parked(told[q])' \/ told[q] \in replaced' \/ Greeted(told[q])'
                             \/ \E p \in Requests \ {q} : told[p] = told[q]
                        /\ told[q].by # q => call'[q].client = "waiting" \/ q \in gaveUp'
                             \/ output'[q] # "nothing" \/ Mute(q)'
    BY <1>1 DEF CollectedIsHeard
  <2>2. home[q] \in Sessions /\ home[told[q].by] = home[q]
        /\ (Greeted(told[q]) => Greeted(told[q])')
        /\ (told[q].by # q => call'[q].client = "waiting" \/ q \in gaveUp'
                                \/ output'[q] # "nothing" \/ Mute(q)')
    BY <1>1, <1>2, <2>1, StillHeard
  <2>3. Parked(told[q]) \/ told[q] \in replaced => told[q] \in replaced'
    BY <1>1, <2>1, <2>2 DEF Parked
  <2> QED  BY <2>1, <2>2, <2>3 DEF Linked, CollectedIsHeard
<1> QED  BY <1>3, <1>4, <1>5, <1>6, <1>7, <1>8 DEF Linked

-----------------------------------------------------------------------------
(* An exchange is opened, by a hook or by the gate. *)
LEMMA OpenStep ==
  ASSUME Linked, NEW r \in Requests, NEW s \in Sessions, NEW e \in Events \cup {"gate_end"},
         Open(r, s, e),
         e # "gate_end" => e \in EventsOf(host[s]) /\ Sends(host[s], e),
         NEW g \in {"idle", "asking", "posting", "deciding"},
         gate' = gate \/ gate' = [gate EXCEPT ![s] = g],
         gate' # gate => (g = "asking" /\ e = "text_end") \/ (g = "deciding" /\ e = "gate_end"),
         UNCHANGED <<host, output, gaveUp, wordless, replaced, restarts>>
  PROVE  Linked'
<1>1. /\ home[r] = "none" /\ home' = [home EXCEPT ![r] = s]
      /\ call' = [call EXCEPT ![r] = [event |-> e, client |-> "waiting", server |-> "sent"]]
      /\ UNCHANGED <<decided, slot, told>>
  BY DEF Open, Daemon!Open
<1>2. call[r].server = "none" /\ call[r].client = "idle" /\ told[r] = None
      /\ \A v \in decided : v.by # r
  BY <1>1, RequestsAssumption, CallParts DEF Linked, Wire, Known, Placed, Authorized
<1>3. /\ home'[r] = s /\ call'[r].event = e /\ call'[r].client = "waiting" /\ call'[r].server = "sent"
      /\ \A q \in Requests \ {r} : home'[q] = home[q] /\ call'[q] = call[q]
  BY <1>1 DEF Linked, TypeOK
<1>4. \A q \in Requests \ {r} : KindOf(q)' = KindOf(q) /\ (Known(q) => Known(q)')
  BY <1>3 DEF KindOf, Known
<1>5. Known(r)'  BY <1>3 DEF Known
<1>6. Wire'  BY <1>3, <1>4, <1>5 DEF Linked, Wire
<1>7. \A t \in Sessions, x \in {"text_end", "gate_end"} : GateCall(t, x) => GateCall(t, x)'
  <2>1. ASSUME NEW t \in Sessions, NEW x, NEW q \in Waiting(t), call[q].event = x
        PROVE  q \in Waiting(t)' /\ call'[q].event = x
    BY <1>2, <1>3, <2>1 DEF Waiting
  <2> QED  BY <2>1 DEF GateCall
<1>8. GateCall(s, e)'  BY <1>3 DEF GateCall, Waiting
<1>9. TypeOK'
  <2>1. /\ home' \in [Requests -> Sessions \cup {"none"}]
        /\ call' \in [Requests -> [event: Events \cup {"none", "gate_end"},
                                   client: {"idle", "waiting", "returned"},
                                   server: {"none", "sent", "decided", "answered", "dead"}]]
        /\ gate' \in [Sessions -> {"idle", "asking", "posting", "deciding"}]
    BY <1>1 DEF Linked, TypeOK
  <2>2. \A t \in Sessions : /\ gate'[t] = "asking" => GateCall(t, "text_end")'
                            /\ gate'[t] = "deciding" => GateCall(t, "gate_end")'
    <3>1. CASE gate' = gate  BY <1>7, <3>1 DEF Linked, TypeOK
    <3>2. CASE gate' # gate
      <4>1. \A t \in Sessions : gate'[t] = IF t = s THEN g ELSE gate[t]
        BY <3>2 DEF Linked, TypeOK
      <4> QED  BY <1>7, <1>8, <3>2, <4>1 DEF Linked, TypeOK
    <3> QED  BY <3>1, <3>2
  <2> QED  BY <1>1, <2>1, <2>2 DEF Linked, TypeOK
<1>10. \A v \in decided : v.by \in Requests \ {r}
  BY <1>2 DEF Linked, TypeOK, Daemon!Verdicts
<1>11. Authorized'  BY <1>1, <1>3, <1>4, <1>10 DEF Linked, Authorized
<1>12. Placed'
  <2>1. \A q \in Requests : told[q] # None => q # r /\ told[q].by \in Requests \ {r}
    BY <1>2, <1>10 DEF Linked, Placed
  <2>2. \A t \in Sessions : slot[t] # None => slot[t].by \in Requests \ {r}
    BY <1>10 DEF Linked, Placed
  <2> QED  BY <1>1, <1>3, <1>4, <2>1, <2>2 DEF Linked, Placed
<1>13. Said'  BY <1>1, <1>2, <1>3 DEF Linked, Said
<1>14. CollectedIsHeard'
  <2>1. ASSUME NEW q \in Requests, told[q] # None
        PROVE  /\ q # r /\ told[q].by \in Requests \ {r}
               /\ Parked(told[q]) => Parked(told[q])'
               /\ Greeted(told[q]) => Greeted(told[q])'
               /\ Mute(q) => Mute(q)' /\ call'[q].client = call[q].client
    <3>1. q # r /\ told[q].by \in Requests \ {r}  BY <1>2, <1>10, <2>1 DEF Linked, Placed
    <3> QED  BY <1>1, <1>3, <1>4, <3>1 DEF Parked, Greeted, Mute
  <2> QED  BY <1>1, <2>1 DEF Linked, CollectedIsHeard
<1> QED  BY <1>6, <1>9, <1>11, <1>12, <1>13, <1>14 DEF Linked

(* What _response, the gate and the poller make of an answer. *)
LEMMA OutputParts ==
  ASSUME NEW h \in Hosts, NEW e, NEW v
  PROVE  /\ Output(h, e, v) \in Outputs
         /\ Output(h, e, v) \in {"stop", "deny"} => v # None /\ v.action \in Daemon!Stopping
         /\ h = "plugin" /\ e \in {"reasoning", "acting"} => Output(h, e, v) = "nothing"
         /\ v = None => Output(h, e, v) = "nothing"
<1> USE DEF Outputs, Output, ClaudeOutput, Worded, Daemon!Stopping
<1>1. CASE v = None  BY <1>1
<1>2. CASE v # None /\ h = "claude"  BY <1>2
<1>3. CASE v # None /\ h = "codex"  BY <1>3 DEF CodexOutput
<1>4. CASE v # None /\ h = "plugin"  BY <1>4 DEF PluginOutput
<1>5. CASE v # None /\ h = "poller"  BY <1>5 DEF PollerOutput
<1> QED  BY <1>1, <1>2, <1>3, <1>4, <1>5 DEF Hosts

LEMMA GateSpeaks ==
  ASSUME NEW h \in Hosts, NEW e, NEW v \in Daemon!Verdicts, v # None,
         e # "gate_end" => e \in EventsOf(h) /\ Sends(h, e),
         Kind(h, e) \in Gates \cup {"pending"}
  PROVE  \/ Output(h, e, v) # "nothing"
         \/ v.action = "nudge" /\ (v.by \in wordless \/ (h = "codex" /\ e = "Stop"))
<1>1. v.action = "nudge" \/ v.action \in Daemon!Stopping  BY DEF Daemon!Verdicts
<1>2. CASE h = "claude"  BY <1>1, <1>2 DEF Output, ClaudeOutput, Worded
<1>3. CASE h = "codex"
  BY <1>1, <1>3 DEF Output, CodexOutput, ClaudeOutput, Worded, Kind, CodexKind, HookKind, Gates,
                    EventsOf, Daemon!Stopping
<1>4. CASE h = "plugin"
  BY <1>1, <1>4 DEF Output, PluginOutput, Worded, Kind, PluginKind, Gates, EventsOf, Sends,
                    GateSends, Daemon!Stopping
<1>5. CASE h = "poller"  BY <1>5 DEF Kind, Gates
<1> QED  BY <1>2, <1>3, <1>4, <1>5 DEF Hosts

(* A client returns, with the answer or without. *)
LEMMA ReturnStep ==
  ASSUME Linked, NEW r \in Requests, NEW v, Return(r, v),
         \/ v = told[r] /\ call[r].server = "answered" /\ gaveUp' = gaveUp
         \/ v = None /\ gaveUp' = gaveUp \cup {r}
  PROVE  Linked'
<1>1. /\ call[r].client = "waiting" /\ call' = [call EXCEPT ![r].client = "returned"]
      /\ output' = [output EXCEPT ![r] = Output(host[home[r]], call[r].event, v)]
      /\ gate' = GateAfter(r, v)
      /\ UNCHANGED <<home, decided, slot, told, host, wordless, replaced, restarts>>
  BY DEF Return, daemonVars
<1>2. Known(r) /\ host[home[r]] \in Hosts  BY <1>1 DEF Linked, Wire, Known, TypeOK
<1>3. /\ call'[r].client = "returned" /\ \A q \in Requests \ {r} : call'[q] = call[q]
      /\ \A q \in Requests : call'[q].event = call[q].event /\ call'[q].server = call[q].server
      /\ \A q \in Requests : output'[q] = IF q = r THEN Output(host[home[r]], call[r].event, v)
                                                   ELSE output[q]
  BY <1>1 DEF Linked, TypeOK
<1>4. \A q \in Requests : KindOf(q)' = KindOf(q)  BY <1>1, <1>3 DEF KindOf
<1>5. Wire'
  <2>1. Known(r)'  BY <1>1, <1>2, <1>3 DEF Known
  <2>2. \A q \in Requests \ {r} : Known(q) => Known(q)'  BY <1>1, <1>3 DEF Known
  <2> QED  BY <1>1, <1>3, <2>1, <2>2 DEF Linked, Wire
<1>6. TypeOK'
  <2>1. call' \in [Requests -> [event: Events \cup {"none", "gate_end"},
                                client: {"idle", "waiting", "returned"},
                                server: {"none", "sent", "decided", "answered", "dead"}]]
    BY <1>1 DEF Linked, TypeOK
  <2>2. output' \in [Requests -> Outputs]  BY <1>1, <1>2, OutputParts DEF Linked, TypeOK
  <2>3. gate' \in [Sessions -> {"idle", "asking", "posting", "deciding"}]
    BY <1>1 DEF GateAfter, Linked, TypeOK
  <2>4. \A t \in Sessions : \/ gate'[t] = gate[t]
                            \/ gate'[t] \notin {"asking", "deciding"}
    BY <1>1, <1>2 DEF GateAfter, Linked, TypeOK
  <2>5. call[r].event \in {"text_end", "gate_end"} => gate'[home[r]] \notin {"asking", "deciding"}
    BY <1>1, <1>2 DEF GateAfter, GateSends, Known, Linked, TypeOK
  <2>6. ASSUME NEW t \in Sessions, NEW x \in {"text_end", "gate_end"}, GateCall(t, x),
               gate'[t] \in {"asking", "deciding"}
        PROVE  GateCall(t, x)'
    <3>1. PICK q \in Waiting(t) : call[q].event = x  BY <2>6 DEF GateCall
    <3>2. q \in Requests /\ q # r  BY <2>5, <2>6, <3>1 DEF Waiting
    <3>3. q \in Waiting(t)'  BY <1>1, <1>3, <3>1, <3>2 DEF Waiting
    <3> QED  BY <1>3, <3>1, <3>2, <3>3 DEF GateCall
  <2>7. \A t \in Sessions : /\ gate'[t] = "asking" => GateCall(t, "text_end")'
                            /\ gate'[t] = "deciding" => GateCall(t, "gate_end")'
    BY <2>4, <2>6 DEF Linked, TypeOK
  <2>8. gaveUp' \subseteq Requests  BY DEF Linked, TypeOK
  <2> QED  BY <1>1, <2>1, <2>2, <2>3, <2>7, <2>8 DEF Linked, TypeOK
<1>7. \A w \in decided : w.by \in Requests  BY DEF Linked, TypeOK, Daemon!Verdicts
<1>8. Authorized'  BY <1>1, <1>3, <1>4, <1>7 DEF Linked, Authorized
<1>9. Placed'  BY <1>1, <1>3, <1>4 DEF Linked, Placed
<1>10. Said'
  <2>1. /\ output'[r] \in {"stop", "deny"} => v # None /\ v.action \in Daemon!Stopping
        /\ call[r].event \in {"reasoning", "acting"} /\ host[home[r]] = "plugin" => output'[r] = "nothing"
    BY <1>2, <1>3, OutputParts
  <2>2. v # None => v = told[r]  OBVIOUS
  <2> QED  BY <1>1, <1>3, <2>1, <2>2 DEF Linked, Said
<1>11. CollectedIsHeard'
  <2>1. \A q \in Requests : told[q] # None /\ Greeted(told[q]) => Greeted(told[q])'
    BY <1>1, <1>3, <1>4, <1>7 DEF Greeted, Linked, Placed
  <2>2. \A q \in Requests : Mute(q)' = Mute(q)  BY <1>1, <1>3 DEF Mute
  <2>3. ASSUME told[r] # None, told[r].by # r
        PROVE  r \in gaveUp' \/ output'[r] # "nothing" \/ Mute(r)'
    <3>1. CASE v = told[r]
      <4>1. told[r] \in Daemon!Verdicts /\ Kind(host[home[r]], call[r].event) \in Gates \cup {"pending"}
        BY <2>3 DEF Linked, TypeOK, Placed, KindOf
      <4>2. \/ output'[r] # "nothing"
            \/ v.action = "nudge"
               /\ (v.by \in wordless \/ (host[home[r]] = "codex" /\ call[r].event = "Stop"))
        BY <1>2, <1>3, <2>3, <3>1, <4>1, GateSpeaks DEF Known
      <4> QED  BY <2>2, <3>1, <4>2 DEF Mute
    <3>2. CASE gaveUp' = gaveUp \cup {r}  BY <3>2
    <3> QED  BY <3>1, <3>2
  <2>4. ASSUME NEW q \in Requests, told[q] # None, told[q].by # q
        PROVE  call'[q].client = "waiting" \/ q \in gaveUp' \/ output'[q] # "nothing" \/ Mute(q)'
    <3>1. CASE q = r  BY <2>3, <2>4, <3>1
    <3>2. CASE q # r
      BY <1>3, <2>2, <2>4, <3>2 DEF Linked, CollectedIsHeard
    <3> QED  BY <3>1, <3>2
  <2> QED  BY <1>1, <2>1, <2>4 DEF Linked, CollectedIsHeard, Parked
<1> QED  BY <1>5, <1>6, <1>8, <1>9, <1>10, <1>11 DEF Linked

LEMMA LinkedStep == Linked /\ [Next]_vars => Linked'
<1> SUFFICES ASSUME Linked, [Next]_vars PROVE Linked'  OBVIOUS
<1>1. ASSUME NEW r \in Requests, NEW s \in Sessions, NEW e \in Events, Send(r, s, e)
      PROVE  Linked'
  <2>1. gate' = gate \/ (gate' = [gate EXCEPT ![s] = "asking"] /\ e = "text_end")
    BY <1>1 DEF Send, GateSends
  <2> QED  BY <1>1, <2>1, OpenStep DEF Send
<1>2. ASSUME NEW r \in Requests, NEW s \in Sessions, GatePost(r, s) PROVE Linked'
  BY <1>2, OpenStep DEF GatePost
<1>3. ASSUME NEW r \in Requests, Receive(r) PROVE Linked'
  BY <1>3, ReturnStep DEF Receive
<1>4. ASSUME NEW r \in Requests, GiveUp(r) PROVE Linked'
  BY <1>4, ReturnStep DEF GiveUp
<1>5. CASE UNCHANGED vars
  BY <1>5 DEF vars, daemonVars, clientVars, Linked, TypeOK, GateCall, Waiting, Wire, Known,
              Authorized, KindOf, Placed, Said, CollectedIsHeard, Parked, Greeted, Mute
<1> QED
  BY <1>1, <1>2, <1>3, <1>4, <1>5, CollectStep, QuietStep, DecideStep, GreetStep, TellStep,
     RestartStep DEF Next

(* At most the requester and one collector hold an intervention. *)
LEMMA LinkedIsTwice == Linked => HeardAtMostTwice
<1> SUFFICES ASSUME Linked, NEW v \in decided
             PROVE  /\ Cardinality(HeardBy(v)) <= 2
                    /\ host[home[v.by]] = "plugin" /\ call[v.by].event # "gate_end"
                         => Cardinality(HeardBy(v)) <= 1
  BY DEF HeardAtMostTwice
<1>1. v \in Daemon!Verdicts /\ v # None /\ v.by \in Requests
  BY VerdictsAreSomething DEF Linked, TypeOK, Daemon!Verdicts
<1>2. \A p, q \in HeardBy(v) : p # v.by /\ q # v.by => p = q
  BY <1>1 DEF HeardBy, Linked, Placed
<1>3. PICK q : HeardBy(v) \subseteq {v.by, q}
  <2>1. CASE \E q \in HeardBy(v) : q # v.by  BY <1>2, <2>1
  <2>2. CASE \A q \in HeardBy(v) : q = v.by  BY <2>2
  <2> QED  BY <2>1, <2>2
<1>4. IsFiniteSet({q}) /\ Cardinality({q}) = 1  BY FS_Singleton
<1>5. IsFiniteSet({v.by, q}) /\ Cardinality({v.by, q}) <= 2
  <2>1. {v.by, q} = {q} \cup {v.by}  OBVIOUS
  <2>2. IsFiniteSet({q} \cup {v.by})
        /\ Cardinality({q} \cup {v.by}) = IF v.by \in {q} THEN Cardinality({q}) ELSE Cardinality({q}) + 1
    BY <1>4, FS_AddElement
  <2> QED  BY <1>4, <2>1, <2>2
<1>6. Cardinality(HeardBy(v)) <= 2
  BY <1>3, <1>5, FS_Subset, FS_CardinalityType
<1>7. ASSUME host[home[v.by]] = "plugin", call[v.by].event # "gate_end"
      PROVE  Cardinality(HeardBy(v)) <= 1
  <2>1. Known(v.by) /\ KindOf(v.by) # "pending"  BY <1>1 DEF Linked, Authorized, Wire
  <2>2. call[v.by].event \in {"reasoning", "acting"}
    BY <1>7, <2>1 DEF Known, EventsOf, Sends, GateSends, KindOf, Kind, PluginKind
  <2>3. v.by \notin HeardBy(v)  BY <1>1, <1>7, <2>2 DEF HeardBy, Linked, Said
  <2>4. HeardBy(v) \subseteq {q}  BY <1>3, <2>3
  <2> QED  BY <1>4, <2>4, FS_Subset, FS_CardinalityType
<1> QED  BY <1>6, <1>7

LEMMA LinkedIsAgreed == Linked => StoppedOnlyWhereAgreed
<1> SUFFICES ASSUME Linked, NEW r \in Requests, output[r] \in {"stop", "deny"}
             PROVE  /\ told[r].action \in Daemon!Stopping
                    /\ home[told[r].by] = home[r] /\ home[r] \in MayStop
  BY DEF StoppedOnlyWhereAgreed
<1>1. told[r] # None /\ told[r].action \in Daemon!Stopping  BY DEF Linked, Said
<1>2. told[r] \in decided /\ home[told[r].by] = home[r]  BY <1>1 DEF Linked, Placed
<1> QED  BY <1>1, <1>2 DEF Linked, Authorized

LEMMA LinkedAlways == Spec => []Linked
BY LinkedInit, LinkedStep, PTL DEF Spec

(* The variables keep their types, and a gate check in progress has its    *)
(* exchange (SupervisorGate.check).                                        *)
THEOREM AdapterTypes == Spec => []TypeOK
<1>1. Linked => TypeOK  BY DEF Linked
<1> QED  BY <1>1, LinkedAlways, PTL

(* No hook, gate or poller takes an intervention out of the daemon and     *)
(* drops it (the hook shells' _response, SupervisorGate.check).            *)
THEOREM NothingDropped == Spec => []CollectedIsHeard
<1>1. Linked => CollectedIsHeard  BY DEF Linked
<1> QED  BY <1>1, LinkedAlways, PTL

(* An agent hears an intervention at most twice, one of the plugin's       *)
(* middleware at most once.                                                *)
THEOREM TwiceAtMost == Spec => []HeardAtMostTwice
BY LinkedIsTwice, LinkedAlways, PTL

(* A host is told to stop only for a block or an escalation of its own     *)
(* session, where its user opted in.                                       *)
THEOREM StopsAgreed == Spec => []StoppedOnlyWhereAgreed
BY LinkedIsAgreed, LinkedAlways, PTL
=============================================================================
