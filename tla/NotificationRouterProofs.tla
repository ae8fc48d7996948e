------------------------ MODULE NotificationRouterProofs ------------------------
(***************************************************************************)
(* Proofs about NotificationRouter, for every set of tenants, events,      *)
(* channels, versions and broken templates, and under all its faults.      *)
(*                                                                         *)
(* The work of the current run is split between what the loop has still to *)
(* do (todo) and what it has done: OnceInv says of the rows, RouteInv of   *)
(* the dispatches, that nothing is in both and nothing in neither.         *)
(*                                                                         *)
(* The behaviours of Pipeline are behaviours of this router, so that what  *)
(* is proved here holds of it; the last parts follow its events from claim *)
(* to delivery.                                                            *)
(***************************************************************************)
EXTENDS Pipeline, TLAPS

-----------------------------------------------------------------------------
(* Templates *)

\* A template is its channel and its version.
LEMMA TemplateFields ==
    ASSUME NEW a \in Template
    PROVE  /\ a.channel \in Channels
           /\ a.version \in Nat
           /\ a = [channel |-> a.channel, version |-> a.version]
<1>1. PICK c \in Channels : a \in [channel : {c}, version : 1 .. MaxVersion[c]]
  BY DEF Template
<1>2. MaxVersion[c] \in Nat
  BY BoundsAssumption
<1>. QED
  BY <1>1, <1>2

\* The loop comes to each channel once.
LEMMA OneTemplatePerChannel ==
    ASSUME NEW t, NEW a \in Resolved(t), NEW b \in Resolved(t), a.channel = b.channel
    PROVE  a = b
<1>1. /\ a \in Template /\ b \in Template
      /\ a.version <= b.version /\ b.version <= a.version
  BY DEF Resolved, Active
<1>2. /\ a.version \in Nat /\ b.version \in Nat
      /\ a = [channel |-> a.channel, version |-> a.version]
      /\ b = [channel |-> b.channel, version |-> b.version]
  BY <1>1, TemplateFields
<1>3. a.version = b.version
  BY <1>1, <1>2
<1>. QED
  BY <1>2, <1>3

\* What a run resolves are templates.
LEMMA ResolvedTemplates == \A t : Resolved(t) \subseteq Template
  BY DEF Resolved, Active

-----------------------------------------------------------------------------
(* Types *)

\* The message being handled is an event, and the next offset is in the topic.
LEMMA CurrentIsEvent ==
    ASSUME TypeOK, offset < Len(topic)
    PROVE  Current \in Events /\ offset + 1 \in 1 .. Len(topic)
  BY DEF TypeOK, Current

\* What the loop draws for a template, field by field.
LEMMA DrawnType ==
    ASSUME TypeOK, pc # "idle", NEW tpl \in Template
    PROVE  /\ Drawn(tpl) \in Notification
           /\ Drawn(tpl).event = Current
           /\ Drawn(tpl).run = runs[Current]
           /\ Drawn(tpl).template = tpl
<1>1. Current \in Events /\ runs[Current] > 0
  BY CurrentIsEvent DEF TypeOK, Current
<1>2. runs[Current] \in 1 .. MaxRuns
  BY <1>1, BoundsAssumption DEF TypeOK
<1>. QED
  BY <1>1, <1>2 DEF Drawn, Notification

\* The initial state has the types.
LEMMA TypeInit == Init => TypeOK
  BY BoundsAssumption DEF Init, TypeOK

\* Every step keeps them.
LEMMA TypeStep == TypeOK /\ [Next]_vars => TypeOK'
<1>. SUFFICES ASSUME TypeOK, [Next]_vars PROVE TypeOK'
  OBVIOUS
<1>1. CASE UNCHANGED vars
  BY <1>1 DEF vars, TypeOK
<1>2. ASSUME NEW e \in Events, Arrive(e) PROVE TypeOK'
  <2>1. topic' \in Seq(Events) /\ Len(topic') = Len(topic) + 1
    BY <1>2 DEF Arrive, TypeOK
  <2>2. offset < Len(topic) => topic'[offset + 1] = topic[offset + 1]
    BY <1>2 DEF Arrive, TypeOK
  <2>3. offset \in 0 .. Len(topic')
    BY <2>1 DEF TypeOK
  <2>. QED
    BY <1>2, <2>1, <2>2, <2>3 DEF Arrive, TypeOK
<1>3. CASE Receive
  <2>1. Current \in Events
    BY <1>3, CurrentIsEvent DEF Receive
  <2>2. runs[Current] \in 0 .. MaxRuns /\ MaxRuns \in Nat \ {0}
    BY <2>1, BoundsAssumption DEF TypeOK
  <2>3. PICK n \in 1 .. MaxRuns : n = IF runs[Current] < MaxRuns THEN runs[Current] + 1
                                                                 ELSE runs[Current]
    BY <2>2
  <2>4. runs' = [runs EXCEPT ![Current] = n]
    BY <1>3, <2>3 DEF Receive
  <2>5. runs' \in [Events -> 0 .. MaxRuns] /\ runs'[Current] > 0
    BY <2>1, <2>2, <2>4 DEF TypeOK
  <2>. QED
    BY <1>3, <2>5 DEF Receive, TypeOK, Current
<1>4. CASE ResolveTemplates
  BY <1>4, CurrentIsEvent, ResolvedTemplates DEF ResolveTemplates, TypeOK, Current
<1>5. ASSUME NEW tpl \in todo, SkipPush(tpl) \/ Record(tpl) \/ Emit(tpl) PROVE TypeOK'
  <2>1. pc # "idle" /\ tpl \in Template
    BY <1>5 DEF SkipPush, Record, Emit, TypeOK
  <2>2. Drawn(tpl) \in Notification
    BY <2>1, DrawnType
  <2>. QED
    BY <1>5, <2>1, <2>2 DEF SkipPush, Record, Emit, TypeOK
<1>6. CASE Return
  BY <1>6 DEF Return, TypeOK
<1>7. CASE CommitOffset
  BY <1>7 DEF CommitOffset, TypeOK
<1>8. CASE RenderFails \/ ClientDataFails \/ Crash
  BY <1>8 DEF RenderFails, ClientDataFails, Crash, StartOver, TypeOK
<1>9. CASE QueryFails
  <2>1. rows' \subseteq Notification
    <3>1. CASE UNCHANGED rows
      BY <3>1 DEF TypeOK
    <3>2. ASSUME NEW tpl \in todo, rows' \in {rows, rows \cup {Drawn(tpl)}}, pc = "loop"
          PROVE  rows' \subseteq Notification
      BY <3>2, DrawnType DEF TypeOK
    <3>. QED
      BY <1>9, <3>1, <3>2 DEF QueryFails
  <2>. QED
    BY <1>9, <2>1 DEF QueryFails, StartOver, TypeOK
<1>10. ASSUME NEW t \in Tenants, NEW tpl \in Template, NEW s \in {"active", "inactive"},
              SetTemplate(t, tpl, s)
       PROVE  TypeOK'
  BY <1>10 DEF SetTemplate, TypeOK
<1>11. CASE Editors
  BY <1>10, <1>11 DEF Editors, PublishTemplate, DeactivateTemplate, ReactivateTemplate
<1>. QED
  BY <1>1, <1>2, <1>3, <1>4, <1>5, <1>6, <1>7, <1>8, <1>9, <1>11 DEF Next, Handler

\* The types of the router's state, for every set of events and every fault.
THEOREM TypeCorrect == Spec => []TypeOK
  BY TypeInit, TypeStep, PTL DEF Spec

-----------------------------------------------------------------------------
(* One notification per channel and run *)

Unique(R) ==
    \A m, n \in R :
        /\ m.event = n.event
        /\ m.run = n.run /\ m.run < MaxRuns
        /\ m.template.channel = n.template.channel
        => m = n

\* Made by the run in progress, unless that one shares its number with others.
ThisRun(m) == m.event = Current /\ m.run = runs[Current] /\ m.run < MaxRuns

OnceInv ==
    /\ Unique(rows)
    /\ sent \subseteq rows
    /\ \A m \in rows : m.run <= runs[m.event]
    /\ pc = "resolve" => \A m \in rows : ~ThisRun(m)
    /\ pc \in {"loop", "emit"} => \A a, b \in todo : a.channel = b.channel => a = b
    /\ pc = "loop" => \A m \in rows, tpl \in todo : ThisRun(m) => m.template.channel # tpl.channel
    /\ pc = "emit" =>
          \E last \in todo : \A m \in rows, tpl \in todo :
              ThisRun(m) /\ m.template.channel = tpl.channel => m = Drawn(last)

\* A row, field by field.
LEMMA RowFields ==
    ASSUME TypeOK, NEW m \in rows
    PROVE  /\ m.event \in Events /\ m.run \in 1 .. MaxRuns /\ m.template \in Template
           /\ runs[m.event] \in 0 .. MaxRuns
  BY DEF TypeOK, Notification

\* The row the loop writes next is the first of its channel in this run.
LEMMA NextRow ==
    ASSUME TypeOK, OnceInv, pc = "loop", NEW tpl \in todo
    PROVE  /\ Unique(rows \cup {Drawn(tpl)})
           /\ \A m \in rows \cup {Drawn(tpl)} : m.run <= runs[m.event]
<1>. DEFINE d == Drawn(tpl)
<1>1. /\ d.event = Current /\ d.run = runs[Current] /\ d.template = tpl
      /\ d \in Notification
  BY DrawnType DEF TypeOK
<1>2. runs[Current] <= runs[Current]
  BY <1>1 DEF Notification, TypeOK
<1>3. \A m \in rows :
          m.event = Current /\ m.run = runs[Current] /\ m.run < MaxRuns
              => m.template.channel # tpl.channel
  BY DEF OnceInv, ThisRun
<1>. HIDE DEF d
<1>4. Unique(rows \cup {d})
  BY <1>1, <1>3 DEF OnceInv, Unique
<1>5. \A m \in rows \cup {d} : m.run <= runs[m.event]
  BY <1>1, <1>2 DEF OnceInv
<1>. QED
  BY <1>4, <1>5 DEF d

\* Nothing has been notified at first.
LEMMA OnceInit == Init => OnceInv
  BY DEF Init, OnceInv, Unique

\* Every step keeps OnceInv.
LEMMA OnceStep == TypeOK /\ OnceInv /\ [Next]_vars => OnceInv'
<1>. SUFFICES ASSUME TypeOK, OnceInv, [Next]_vars PROVE OnceInv'
  OBVIOUS
<1>1. CASE UNCHANGED vars
  BY <1>1 DEF vars, OnceInv, ThisRun, Drawn, Current
<1>2. ASSUME NEW e \in Events, Arrive(e) PROVE OnceInv'
  <2>1. pc # "idle" => topic'[offset + 1] = topic[offset + 1]
    BY <1>2 DEF Arrive, TypeOK
  <2>2. CASE pc = "idle"
    BY <1>2, <2>2 DEF Arrive, OnceInv
  <2>3. CASE pc # "idle"
    <3>1. Current' = Current /\ UNCHANGED <<offset, runs, pc, plan, todo, rows, sent>>
      BY <1>2, <2>1, <2>3 DEF Arrive, Current
    <3>2. \A m : (ThisRun(m)' <=> ThisRun(m)) /\ Drawn(m)' = Drawn(m)
      BY <3>1 DEF ThisRun, Drawn
    <3>. QED
      BY <3>1, <3>2 DEF OnceInv
  <2>. QED
    BY <2>2, <2>3
<1>3. CASE Receive
  <2>1. Current \in Events
    BY <1>3, CurrentIsEvent DEF Receive
  <2>2. runs[Current] \in 0 .. MaxRuns /\ MaxRuns \in Nat
    BY <2>1, BoundsAssumption DEF TypeOK
  <2>3. PICK n \in Nat : n = IF runs[Current] < MaxRuns THEN runs[Current] + 1 ELSE runs[Current]
    BY <2>2
  <2>4. runs' = [runs EXCEPT ![Current] = n]
    BY <1>3, <2>3 DEF Receive
  <2>5. \A m \in rows : m.run <= runs'[m.event]
    <3>. TAKE m \in rows
    <3>1. m.event \in Events /\ m.run \in Nat /\ runs[m.event] \in Nat /\ m.run <= runs[m.event]
      BY RowFields DEF OnceInv
    <3>2. CASE m.event = Current
      BY <2>1, <2>2, <2>3, <2>4, <3>1, <3>2 DEF TypeOK
    <3>3. CASE m.event # Current
      BY <2>4, <3>1, <3>3 DEF TypeOK
    <3>. QED
      BY <3>2, <3>3
  <2>6. \A m \in rows : ~(m.event = Current /\ m.run = runs'[Current] /\ m.run < MaxRuns)
    <3>. SUFFICES ASSUME NEW m \in rows, m.event = Current, m.run = runs'[Current], m.run < MaxRuns
                  PROVE  FALSE
      OBVIOUS
    <3>1. m.run <= runs[Current] /\ m.run \in Nat
      BY RowFields DEF OnceInv
    <3>2. runs'[Current] = n
      BY <2>1, <2>4 DEF TypeOK
    <3>. QED
      BY <2>2, <2>3, <3>1, <3>2
  <2>. QED
    BY <1>3, <2>5, <2>6 DEF Receive, OnceInv, ThisRun, Current
<1>4. CASE ResolveTemplates
  <2>1. \A a, b \in todo' : a.channel = b.channel => a = b
    BY <1>4, OneTemplatePerChannel DEF ResolveTemplates
  <2>2. \A m \in rows : ~ThisRun(m)'
    BY <1>4 DEF ResolveTemplates, OnceInv, ThisRun, Current
  <2>. QED
    BY <1>4, <2>1, <2>2 DEF ResolveTemplates, OnceInv
<1>5. ASSUME NEW tpl \in todo, SkipPush(tpl) PROVE OnceInv'
  BY <1>5 DEF SkipPush, OnceInv, ThisRun, Current
<1>6. ASSUME NEW tpl \in todo, Record(tpl) PROVE OnceInv'
  <2>1. /\ Unique(rows') /\ \A m \in rows' : m.run <= runs'[m.event]
    BY <1>6, NextRow DEF Record
  <2>2. \A m \in rows, other \in todo : ThisRun(m) => m.template.channel # other.channel
    BY <1>6 DEF Record, OnceInv
  <2>3. \A m : (ThisRun(m)' <=> ThisRun(m)) /\ Drawn(tpl)' = Drawn(tpl)
    BY <1>6 DEF Record, ThisRun, Drawn, Current
  <2>4. \A m \in rows', other \in todo' :
            ThisRun(m)' /\ m.template.channel = other.channel => m = Drawn(tpl)'
    BY <1>6, <2>2, <2>3 DEF Record
  <2>5. todo' = todo /\ sent' \subseteq rows' /\ pc' = "emit"
    BY <1>6 DEF Record, OnceInv
  <2>6. \A a, b \in todo' : a.channel = b.channel => a = b
    BY <1>6, <2>5 DEF Record, OnceInv
  <2>. QED
    BY <2>1, <2>4, <2>5, <2>6 DEF OnceInv
<1>7. ASSUME NEW tpl \in todo, Emit(tpl) PROVE OnceInv'
  <2>1. pc = "emit" /\ tpl \in Template
    BY <1>7 DEF Emit, TypeOK
  <2>2. PICK last \in todo : \A m \in rows, other \in todo :
            ThisRun(m) /\ m.template.channel = other.channel => m = Drawn(last)
    BY <2>1 DEF OnceInv
  <2>3. /\ Drawn(tpl).template = tpl /\ Drawn(last).template = last
        /\ Drawn(tpl).event = Current /\ Drawn(tpl).run = runs[Current]
    BY <2>1, DrawnType DEF TypeOK
  <2>4. \A m \in rows, other \in todo \ {tpl} : ThisRun(m) => m.template.channel # other.channel
    <3>. SUFFICES ASSUME NEW m \in rows, NEW other \in todo \ {tpl}, ThisRun(m),
                         m.template.channel = other.channel
                  PROVE  FALSE
      OBVIOUS
    <3>1. m = Drawn(last) /\ last.channel = other.channel
      BY <2>2, <2>3
    <3>2. ThisRun(Drawn(tpl)) /\ Drawn(tpl) \in rows
      BY <1>7, <2>3 DEF ThisRun, Emit
    <3>3. Drawn(tpl) = Drawn(last)
      BY <2>2, <2>3, <3>2
    <3>4. tpl = last
      BY <2>3, <3>3
    <3>. QED
      BY <2>1, <3>1, <3>4 DEF OnceInv
  <2>5. \A m : ThisRun(m)' <=> ThisRun(m)
    BY <1>7 DEF Emit, ThisRun, Current
  <2>. QED
    BY <1>7, <2>4, <2>5 DEF Emit, OnceInv
<1>8. CASE Return \/ CommitOffset
  BY <1>8 DEF Return, CommitOffset, OnceInv
<1>9. CASE RenderFails \/ ClientDataFails \/ Crash
  BY <1>9 DEF RenderFails, ClientDataFails, Crash, StartOver, OnceInv
<1>10. CASE QueryFails
  <2>1. /\ Unique(rows') /\ \A m \in rows' : m.run <= runs[m.event]
        /\ rows \subseteq rows'
    <3>1. CASE UNCHANGED rows
      BY <3>1 DEF OnceInv
    <3>2. ASSUME NEW tpl \in todo, rows' = rows \cup {Drawn(tpl)}, pc = "loop"
          PROVE  /\ Unique(rows') /\ \A m \in rows' : m.run <= runs[m.event]
                 /\ rows \subseteq rows'
      BY <3>2, NextRow
    <3>. QED
      BY <1>10, <3>1, <3>2 DEF QueryFails
  <2>2. pc' = "idle" /\ sent' = sent /\ runs' = runs
    BY <1>10 DEF QueryFails, StartOver
  <2>. QED
    BY <2>1, <2>2 DEF OnceInv
<1>11. CASE Editors
  <2>1. UNCHANGED <<topic, offset, runs, pc, plan, todo, rows, sent>>
    BY <1>11 DEF Editors, PublishTemplate, DeactivateTemplate, ReactivateTemplate, SetTemplate
  <2>. QED
    BY <2>1 DEF OnceInv, ThisRun, Drawn, Current
<1>. QED
  BY <1>1, <1>2, <1>3, <1>4, <1>5, <1>6, <1>7, <1>8, <1>9, <1>10, <1>11 DEF Next, Handler

\* A run of handleTenantEvent makes one notification per channel at most, each with its
\* row before its dispatch, whatever fails and however templates change.
THEOREM OnePerChannel == Spec => []OncePerRun
<1>1. OnceInv => OncePerRun
  BY DEF OnceInv, OncePerRun, Unique
<1>. QED
  BY <1>1, TypeInit, TypeStep, OnceInit, OnceStep, PTL DEF Spec

-----------------------------------------------------------------------------
(* What is committed was dispatched *)

ForGuest(e, tpl) == tpl.channel = "PUSH" /\ e \in Guests

RouteInv ==
    /\ CommittedIsRouted
    /\ \A i, j \in 1 .. Len(topic) : topic[i] = topic[j] => i = j
    /\ pc \in {"loop", "emit", "returned"} =>
          \A tpl \in plan[Current] :
              tpl \in todo \/ Dispatched(Current, tpl) \/ ForGuest(Current, tpl)
    /\ pc = "returned" => todo = {}

\* Nothing is committed at first.
LEMMA RouteInit == Init => RouteInv
  BY DEF Init, RouteInv, CommittedIsRouted

\* Dispatches are not taken back, and the plan of a committed event is final.
LEMMA CommittedStays ==
    ASSUME TypeOK, RouteInv, sent \subseteq sent', offset' = offset,
           topic' = topic, \A e \in Events : e # Current => plan'[e] = plan[e],
           plan' = plan \/ offset < Len(topic)
    PROVE  CommittedIsRouted'
<1>1. SUFFICES ASSUME NEW i \in 1 .. offset
               PROVE  plan'[topic[i]] = plan[topic[i]]
  BY DEF RouteInv, CommittedIsRouted, Dispatched
<1>2. CASE plan' = plan
  BY <1>2
<1>3. CASE offset < Len(topic)
  <2>1. i \in 1 .. Len(topic) /\ offset + 1 \in 1 .. Len(topic) /\ i # offset + 1
    BY <1>3 DEF TypeOK
  <2>2. topic[i] # Current /\ topic[i] \in Events
    BY <2>1 DEF RouteInv, Current, TypeOK
  <2>. QED
    BY <2>2
<1>. QED
  BY <1>2, <1>3

\* Every step keeps RouteInv.
LEMMA RouteStep == TypeOK /\ RouteInv /\ [Next]_vars => RouteInv'
<1>. SUFFICES ASSUME TypeOK, RouteInv, [Next]_vars PROVE RouteInv'
  OBVIOUS
<1>1. ASSUME UNCHANGED <<topic, offset, pc, plan, todo, sent>> PROVE RouteInv'
  BY <1>1 DEF RouteInv, CommittedIsRouted, Dispatched, ForGuest, Current
<1>2. ASSUME NEW e \in Events, Arrive(e) PROVE RouteInv'
  <2>1. /\ topic \in Seq(Events) /\ Len(topic) \in Nat /\ offset \in 0 .. Len(topic)
        /\ Len(topic') = Len(topic) + 1 /\ topic'[Len(topic) + 1] = e
        /\ \A i \in 1 .. Len(topic) : topic'[i] = topic[i] /\ topic[i] # e
        /\ UNCHANGED <<offset, pc, plan, todo, sent>>
    BY <1>2 DEF Arrive, TypeOK
  <2>2. CommittedIsRouted'
    <3>1. \A i \in 1 .. offset : i \in 1 .. Len(topic)
      BY <2>1
    <3>2. \A i \in 1 .. offset : topic'[i] = topic[i]
      BY <2>1, <3>1
    <3>3. plan' = plan /\ \A d, tpl : Dispatched(d, tpl)' <=> Dispatched(d, tpl)
      BY <2>1 DEF Dispatched
    <3>4. CommittedIsRouted
      BY DEF RouteInv
    <3>. QED
      BY <2>1, <3>2, <3>3, <3>4 DEF CommittedIsRouted
  <2>3. \A i, j \in 1 .. Len(topic') : topic'[i] = topic'[j] => i = j
    <3>1. \A i \in 1 .. Len(topic') : i \in 1 .. Len(topic) \/ i = Len(topic) + 1
      BY <2>1
    <3>. QED
      BY <2>1, <3>1 DEF RouteInv
  <2>4. pc # "idle" => Current' = Current
    BY <2>1 DEF TypeOK, Current
  <2>. QED
    BY <2>1, <2>2, <2>3, <2>4 DEF RouteInv, Dispatched, ForGuest
<1>3. CASE Receive
  <2>1. CommittedIsRouted'
    BY <1>3, CommittedStays DEF Receive
  <2>. QED
    BY <1>3, <2>1 DEF Receive, RouteInv
<1>4. CASE ResolveTemplates
  <2>1. offset < Len(topic) /\ Current \in Events
    BY <1>4, CurrentIsEvent DEF ResolveTemplates, TypeOK
  <2>2. \A e \in Events : e # Current => plan'[e] = plan[e]
    BY <1>4 DEF ResolveTemplates, TypeOK
  <2>3. CommittedIsRouted'
    BY <1>4, <2>1, <2>2, CommittedStays DEF ResolveTemplates
  <2>4. plan'[Current] = todo' /\ Current' = Current
    BY <1>4, <2>1 DEF ResolveTemplates, TypeOK, Current
  <2>. QED
    BY <1>4, <2>3, <2>4 DEF ResolveTemplates, RouteInv
<1>5. ASSUME NEW tpl \in todo, SkipPush(tpl) \/ Record(tpl) \/ Emit(tpl) PROVE RouteInv'
  <2>1. UNCHANGED <<topic, offset, plan, runs>> /\ sent \subseteq sent' /\ Current' = Current
    BY <1>5 DEF SkipPush, Record, Emit, Current
  <2>2. CommittedIsRouted'
    BY <2>1, CommittedStays
  <2>3. /\ pc \in {"loop", "emit"} /\ pc' \in {"loop", "emit"}
        /\ \A other \in todo : other \in todo' \/ other = tpl
    BY <1>5 DEF SkipPush, Record, Emit
  <2>4. tpl \in todo' \/ Dispatched(Current, tpl)' \/ ForGuest(Current, tpl)
    <3>1. CASE Emit(tpl)
      <4>1. /\ Drawn(tpl).event = Current /\ Drawn(tpl).template = tpl
            /\ Drawn(tpl) \in sent'
        BY <3>1, <2>3, DrawnType DEF Emit, TypeOK
      <4>. QED
        BY <2>1, <4>1 DEF Dispatched
    <3>. QED
      BY <1>5, <3>1 DEF SkipPush, Record, ForGuest, NoUser
  <2>5. \A other : Dispatched(Current, other) => Dispatched(Current, other)'
    BY <2>1 DEF Dispatched
  <2>. QED
    BY <2>1, <2>2, <2>3, <2>4, <2>5 DEF RouteInv, ForGuest
<1>6. CASE Return
  <2>1. CommittedIsRouted'
    BY <1>6, CommittedStays DEF Return
  <2>. QED
    BY <1>6, <2>1 DEF Return, RouteInv, Dispatched, ForGuest, Current
<1>7. CASE CommitOffset
  <2>1. /\ offset' = offset + 1 /\ UNCHANGED <<topic, plan, sent>> /\ offset \in Nat
        /\ \A tpl \in plan[topic[offset + 1]] :
              Dispatched(topic[offset + 1], tpl) \/ ForGuest(topic[offset + 1], tpl)
    BY <1>7 DEF CommitOffset, RouteInv, Current, TypeOK
  <2>2. \A i \in 1 .. offset' : i \in 1 .. offset \/ i = offset + 1
    BY <2>1
  <2>3. CommittedIsRouted'
    BY <2>1, <2>2 DEF RouteInv, CommittedIsRouted, Dispatched, ForGuest
  <2>. QED
    BY <1>7, <2>3 DEF CommitOffset, RouteInv
<1>8. CASE RenderFails \/ ClientDataFails \/ QueryFails \/ Crash
  <2>1. pc' = "idle" /\ UNCHANGED <<topic, offset, plan, sent>>
    BY <1>8 DEF RenderFails, ClientDataFails, QueryFails, Crash, StartOver
  <2>. QED
    BY <2>1 DEF RouteInv, CommittedIsRouted, Dispatched
<1>9. CASE Editors
  BY <1>1, <1>9 DEF Editors, PublishTemplate, DeactivateTemplate, ReactivateTemplate, SetTemplate
<1>. QED
  BY <1>1, <1>2, <1>3, <1>4, <1>5, <1>6, <1>7, <1>8, <1>9 DEF Next, Handler, vars

\* Whenever an offset is committed, everything the last run resolved was dispatched.
THEOREM NothingHalfDone == Spec => []CommittedIsRouted
<1>1. RouteInv => CommittedIsRouted
  BY DEF RouteInv
<1>. QED
  BY <1>1, TypeInit, TypeStep, RouteInit, RouteStep, PTL DEF Spec

-----------------------------------------------------------------------------
(* The router between ingress and gateway *)

\* A step of the pipeline is a step of the router or leaves it alone.
LEMMA PipelineStepOfRouter == [PipelineNext]_allVars => [Next]_vars
<1>. SUFFICES ASSUME PipelineNext
     PROVE [Next]_vars
  BY DEF allVars, vars
<1>1. ASSUME NEW r \in Requests, Claim(r) \/ Trigger(r)
      PROVE  UNCHANGED vars
  BY <1>1 DEF Claim, Trigger
<1>2. ASSUME NEW e \in Events, Arrival(e)
      PROVE  Next
  BY <1>2 DEF Arrival, Next
<1>3. ASSUME NEW k \in Keys, Forget(k)
      PROVE  UNCHANGED vars
  BY <1>3 DEF Forget
<1>4. ASSUME NEW n \in Notification, Reach(n)
      PROVE  UNCHANGED vars
  BY <1>4 DEF Reach
<1>5. CASE Drop \/ Settle
  BY <1>5 DEF Drop, Settle
<1>6. CASE Route \/ ((Editors \/ QueryFails \/ Crash) /\ UNCHANGED pipeVars)
  BY <1>6 DEF Route, Next
<1>. QED
  BY <1>1, <1>2, <1>3, <1>4, <1>5, <1>6 DEF PipelineNext

\* The router inside the pipeline is the router.
LEMMA PipelineRouter == PipelineSpec => Spec
<1>1. PipelineInit => Init
  BY DEF PipelineInit
<1>. QED
  BY <1>1, PipelineStepOfRouter, PTL DEF PipelineSpec, Spec

\* What was proved of the router holds in the pipeline.
THEOREM RouterKeepsItsPromises == PipelineSpec => [](OncePerRun /\ CommittedIsRouted)
  BY PipelineRouter, OnePerChannel, NothingHalfDone, PTL

\* Types of the pipeline at first.
LEMMA PipeTypeInit == PipelineInit => PipelineTypeOK
  BY TypeInit DEF PipelineInit, PipelineTypeOK, Ingress!Init, Gateway!Init

\* The router never takes back a dispatch.
LEMMA SentGrows == [Next]_vars => sent \subseteq sent'
<1>. SUFFICES ASSUME Next PROVE sent \subseteq sent'
  BY DEF vars
<1>1. CASE Handler
  BY <1>1 DEF Handler, Receive, ResolveTemplates, SkipPush, Record, Emit, RenderFails,
              ClientDataFails, StartOver, Return, CommitOffset
<1>2. CASE Editors
  BY <1>2 DEF Editors, PublishTemplate, DeactivateTemplate, ReactivateTemplate, SetTemplate
<1>3. CASE QueryFails \/ Crash
  BY <1>3 DEF QueryFails, Crash, StartOver
<1>4. CASE \E e \in Events : Arrive(e)
  BY <1>4 DEF Arrive
<1>. QED
  BY <1>1, <1>2, <1>3, <1>4 DEF Next

\* Every step keeps the types of the pipeline.
LEMMA PipeTypeStep ==
    ASSUME RequestsAssumption
    PROVE  PipelineTypeOK /\ [PipelineNext]_allVars => PipelineTypeOK'
<1>. SUFFICES ASSUME PipelineTypeOK, [PipelineNext]_allVars
     PROVE  PipelineTypeOK'
  OBVIOUS
<1>1. TypeOK' /\ sent \subseteq sent'
  BY PipelineStepOfRouter, TypeStep, SentGrows DEF PipelineTypeOK
<1>2. CASE UNCHANGED pipeVars
  BY <1>1, <1>2 DEF PipelineTypeOK, pipeVars, ingressVars
<1>3. ASSUME NEW r \in Requests, Claim(r)
      PROVE  PipelineTypeOK'
  BY <1>1, <1>3 DEF RequestsAssumption, PipelineTypeOK, Claim, Reserve
<1>4. ASSUME NEW r \in Requests, Trigger(r)
      PROVE  PipelineTypeOK'
  BY <1>1, <1>4 DEF PipelineTypeOK, Trigger, Ingress!Dispatch
<1>5. ASSUME NEW k \in Keys, Forget(k)
      PROVE  PipelineTypeOK'
  BY <1>1, <1>5 DEF PipelineTypeOK, Forget
<1>6. ASSUME NEW n \in Notification, Reach(n)
      PROVE  PipelineTypeOK'
  <2>1. PICK d \in Dispatches : Gateway!Accept(d) /\ carries' = [carries EXCEPT ![d] = n]
    BY <1>6 DEF Reach
  <2>2. /\ outcome' \in [Dispatches -> Final \cup {"unused", "pending"}]
        /\ carries' \in [Dispatches -> Notification \cup {None}]
    BY <2>1 DEF PipelineTypeOK, Gateway!Accept
  <2>3. \A c \in Dispatches : outcome'[c] # "unused" => carries'[c] \in sent
    BY <1>6, <2>1 DEF PipelineTypeOK, Gateway!Accept, Reach
  <2>. QED
    BY <1>1, <1>6, <2>2, <2>3 DEF PipelineTypeOK, Reach, ingressVars
<1>7. CASE Drop
  BY <1>1, <1>7 DEF PipelineTypeOK, Drop, ingressVars
<1>8. CASE Settle
  <2>1. ASSUME NEW d \in Dispatches, Gateway!Deliver(d) \/ Gateway!Bury(d)
        PROVE  PipelineTypeOK'
    BY <1>1, <1>8, <2>1 DEF PipelineTypeOK, Settle, ingressVars, Gateway!Deliver, Gateway!Bury, Final
  <2>2. CASE Gateway!Lose
    <3>1. PICK gone \in SUBSET {d \in Dispatches : outcome[d] = "pending"} :
             outcome' = [d \in Dispatches |-> IF d \in gone THEN "lost" ELSE outcome[d]]
      BY <2>2 DEF Gateway!Lose
    <3>. QED
      BY <1>1, <1>8, <3>1 DEF PipelineTypeOK, Settle, ingressVars, Final
  <2>. QED
    BY <1>8, <2>1, <2>2 DEF Settle
<1>. QED
  BY <1>2, <1>3, <1>4, <1>5, <1>6, <1>7, <1>8
     DEF PipelineNext, allVars, Route, Arrival

\* Types of the pipeline; what the gateway works on was dispatched by the router.
THEOREM PipelineTypeCorrect ==
    ASSUME RequestsAssumption PROVE PipelineSpec => []PipelineTypeOK
  BY PipeTypeInit, PipeTypeStep, PTL DEF PipelineSpec

-----------------------------------------------------------------------------
(* Notifying twice *)

\* Whatever travels comes from a claim: rows from arrivals, arrivals and their copies
\* from events handed over, those from claims, of which a key that is remembered has one.
Comes(e) == RequestOf[e] \in triggered /\ (e \in Requests \/ ProducerResends)
FlowInv ==
    /\ \A n \in rows : Arrived(n.event)
    /\ \A i \in 1 .. Len(topic) : Comes(topic[i])
    /\ \A r \in triggered : r \in claims[KeyOf[r]]
    /\ \A k \in Keys \ forgotten : \A q, r \in claims[k] : q = r

\* Nothing travels at first.
LEMMA FlowInit ==
    ASSUME RequestsAssumption PROVE PipelineInit => FlowInv
  BY DEF RequestsAssumption, PipelineInit, Init, Ingress!Init, FlowInv

\* A step of the router writes rows of the event at hand only.
LEMMA RowsFromTopic ==
    ASSUME TypeOK, Next, \A n \in rows : Arrived(n.event)
    PROVE  \A n \in rows' : Arrived(n.event)'
<1>1. ASSUME UNCHANGED <<topic, rows>>
      PROVE  \A n \in rows' : Arrived(n.event)'
  BY <1>1 DEF Arrived
<1>2. ASSUME pc # "idle", NEW tpl \in Template, rows' \in {rows, rows \cup {Drawn(tpl)}},
             topic' = topic
      PROVE  \A n \in rows' : Arrived(n.event)'
  <2>1. Drawn(tpl).event = Current
    BY DEF Drawn
  <2>2. offset + 1 \in 1 .. Len(topic)
    BY <1>2, CurrentIsEvent DEF TypeOK
  <2>3. Arrived(Current)
    BY <2>2 DEF Arrived, Current
  <2>4. \A e : Arrived(e)' <=> Arrived(e)
    BY <1>2 DEF Arrived
  <2>. QED
    BY <1>2, <2>1, <2>3, <2>4
<1>3. CASE \E tpl \in todo : Record(tpl)
  <2>1. PICK tpl \in todo : Record(tpl)
    BY <1>3
  <2>2. tpl \in Template /\ pc # "idle" /\ topic' = topic /\ rows' = rows \cup {Drawn(tpl)}
    BY <2>1 DEF Record, TypeOK
  <2>. QED
    BY <1>2, <2>2
<1>4. CASE Receive \/ ResolveTemplates \/ RenderFails \/ ClientDataFails \/ Return \/ CommitOffset
           \/ Crash \/ Editors \/ \E tpl \in todo : SkipPush(tpl) \/ Emit(tpl)
  BY <1>1, <1>4 DEF Receive, ResolveTemplates, SkipPush, Emit, RenderFails, ClientDataFails,
     StartOver, Return, CommitOffset, Crash, Editors, PublishTemplate, DeactivateTemplate, ReactivateTemplate,
     SetTemplate
<1>5. CASE QueryFails
  <2>1. topic' = topic
    BY <1>5 DEF QueryFails, StartOver
  <2>2. CASE UNCHANGED rows
    BY <1>1, <2>1, <2>2
  <2>3. ASSUME NEW tpl \in todo, rows' \in {rows, rows \cup {Drawn(tpl)}}, pc = "loop"
        PROVE  \A n \in rows' : Arrived(n.event)'
    <3>1. tpl \in Template /\ pc # "idle"
      BY <2>3 DEF TypeOK
    <3>. QED
      BY <1>2, <2>1, <2>3, <3>1
  <2>. QED
    BY <1>5, <2>2, <2>3 DEF QueryFails
<1>6. ASSUME NEW e \in Events, Arrive(e)
      PROVE  \A n \in rows' : Arrived(n.event)'
  <2>1. /\ Len(topic) \in Nat /\ Len(topic') = Len(topic) + 1 /\ rows' = rows
        /\ \A i \in 1 .. Len(topic) : topic'[i] = topic[i]
    BY <1>6 DEF Arrive, TypeOK
  <2>2. ASSUME NEW d, Arrived(d)
        PROVE  Arrived(d)'
    <3>1. PICK i \in 1 .. Len(topic) : topic[i] = d
      BY <2>2 DEF Arrived
    <3>2. i \in 1 .. Len(topic') /\ topic'[i] = d
      BY <2>1, <3>1
    <3>. QED
      BY <3>2 DEF Arrived
  <2>. QED
    BY <2>1, <2>2
<1>. QED
  BY <1>3, <1>4, <1>5, <1>6 DEF Next, Handler

\* Every step keeps FlowInv.
LEMMA FlowStep ==
    ASSUME RequestsAssumption
    PROVE  PipelineTypeOK /\ FlowInv /\ [PipelineNext]_allVars => FlowInv'
<1>. SUFFICES ASSUME PipelineTypeOK, FlowInv, [PipelineNext]_allVars
     PROVE  FlowInv'
  OBVIOUS
<1>0. TypeOK
  BY DEF PipelineTypeOK
<1>1. \A n \in rows' : Arrived(n.event)'
  <2>1. CASE UNCHANGED vars
    BY <2>1 DEF FlowInv, Arrived, vars
  <2>2. CASE Next
    BY <1>0, <2>2, RowsFromTopic DEF FlowInv
  <2>. QED
    BY <2>1, <2>2, PipelineStepOfRouter
<1>2. ASSUME NEW e \in Events, Arrival(e)
      PROVE  \A i \in 1 .. Len(topic') : Comes(topic'[i])
  <2>1. /\ Len(topic) \in Nat /\ Len(topic') = Len(topic) + 1 /\ topic'[Len(topic) + 1] = e
        /\ \A i \in 1 .. Len(topic) : topic'[i] = topic[i]
        /\ Comes(e)
    BY <1>0, <1>2 DEF Arrival, Arrive, TypeOK, Comes
  <2>2. \A i \in 1 .. Len(topic') : i \in 1 .. Len(topic) \/ i = Len(topic) + 1
    BY <2>1
  <2>. QED
    BY <2>1, <2>2 DEF FlowInv
<1>3. ASSUME NEW r \in Requests, Claim(r)
      PROVE  FlowInv'
  <2>1. /\ claims[KeyOf[r]] = {} \/ KeyOf[r] \in forgotten
        /\ claims' = [claims EXCEPT ![KeyOf[r]] = @ \cup {r}]
        /\ claims \in [Keys -> SUBSET Requests] /\ KeyOf[r] \in Keys
        /\ UNCHANGED <<triggered, forgotten, vars>>
    BY <1>3 DEF RequestsAssumption, Claim, Reserve, PipelineTypeOK
  <2>2. \A q \in triggered' : q \in claims'[KeyOf[q]]
    BY <2>1 DEF RequestsAssumption, FlowInv, PipelineTypeOK
  <2>3. \A k \in Keys \ forgotten' : \A p, q \in claims'[k] : p = q
    BY <2>1 DEF FlowInv
  <2>4. (\A i \in 1 .. Len(topic) : Comes(topic[i]))'
    BY <2>1 DEF FlowInv, Comes, vars
  <2>. QED
    BY <1>1, <2>2, <2>3, <2>4 DEF FlowInv
<1>4. ASSUME NEW r \in Requests, Trigger(r)
      PROVE  FlowInv'
  BY <1>1, <1>4 DEF Trigger, Ingress!Dispatch, FlowInv, Comes, vars
<1>5. ASSUME NEW k \in Keys, Forget(k)
      PROVE  FlowInv'
  BY <1>1, <1>5 DEF Forget, FlowInv, Comes, vars
<1>6. ASSUME UNCHANGED <<ingressVars, topic>>
      PROVE  FlowInv'
  BY <1>1, <1>6 DEF FlowInv, Comes, ingressVars
<1>7. ASSUME NEW e \in Events, Arrival(e)
      PROVE  FlowInv'
  BY <1>1, <1>2, <1>7 DEF Arrival, pipeVars, ingressVars, FlowInv, Comes
<1>8. CASE Route \/ ((Editors \/ QueryFails \/ Crash) /\ UNCHANGED pipeVars)
  <2>1. topic' = topic
    BY <1>8 DEF Route, Handler, Receive, ResolveTemplates, SkipPush, Record, Emit, RenderFails,
       ClientDataFails, StartOver, Return, CommitOffset, QueryFails, Crash, Editors, PublishTemplate,
       DeactivateTemplate, ReactivateTemplate, SetTemplate
  <2>. QED
    BY <1>6, <1>8, <2>1 DEF Route, pipeVars
<1>9. ASSUME NEW n \in Notification, Reach(n)
      PROVE  FlowInv'
  BY <1>6, <1>9 DEF Reach, vars
<1>10. CASE Drop \/ Settle \/ UNCHANGED allVars
  BY <1>6, <1>10 DEF Drop, Settle, vars, allVars, pipeVars
<1>. QED
  BY <1>3, <1>4, <1>5, <1>7, <1>8, <1>9, <1>10 DEF PipelineNext

\* The invariants of the router hold in the pipeline too.
LEMMA PipelineInvariant ==
    ASSUME RequestsAssumption
    PROVE  PipelineSpec => [](PipelineTypeOK /\ FlowInv /\ OnceInv)
<1>1. PipelineInit => PipelineTypeOK /\ FlowInv /\ OnceInv
  BY PipeTypeInit, FlowInit, OnceInit DEF PipelineInit
<1>2. PipelineTypeOK /\ FlowInv /\ OnceInv /\ [PipelineNext]_allVars
          => (PipelineTypeOK /\ FlowInv /\ OnceInv)'
  BY PipeTypeStep, FlowStep, OnceStep, PipelineStepOfRouter DEF PipelineTypeOK
<1>. QED
  BY <1>1, <1>2, PTL DEF PipelineSpec

\* Of one event, one run and one channel there is one notification, of one key that is
\* remembered one event and its copies: two notifications have one of three causes.
LEMMA TwoNotifications ==
    ASSUME RequestsAssumption, MaxRuns > 1, PipelineTypeOK, FlowInv, OnceInv,
           NEW m \in sent, NEW n \in sent, m # n,
           KeyOf[RequestOf[m.event]] = KeyOf[RequestOf[n.event]],
           m.template.channel = n.template.channel,
           KeyOf[RequestOf[m.event]] \notin forgotten
    PROVE  (m.event = n.event /\ runs[m.event] > 1) \/ StoredTwice(m, n)
<1>1. m \in rows /\ n \in rows /\ m \in Notification /\ n \in Notification
  BY DEF PipelineTypeOK, TypeOK, OnceInv
<1>2. Comes(m.event) /\ Comes(n.event) /\ m.event \in Events /\ n.event \in Events
  BY <1>1 DEF FlowInv, Arrived, Notification
<1>3. /\ RequestOf[m.event] \in claims[KeyOf[RequestOf[m.event]]]
      /\ RequestOf[n.event] \in claims[KeyOf[RequestOf[m.event]]]
  BY <1>2 DEF FlowInv, Comes
<1>4. RequestOf[m.event] \in Requests /\ KeyOf[RequestOf[m.event]] \in Keys
  BY <1>2 DEF RequestsAssumption
<1>5. RequestOf[m.event] = RequestOf[n.event]
  BY <1>3, <1>4 DEF FlowInv
<1>6. CASE m.event # n.event
  <2>1. ~(m.event \in Requests /\ n.event \in Requests)
    BY <1>5, <1>6 DEF RequestsAssumption
  <2>. QED
    BY <1>2, <1>5, <1>6, <2>1 DEF Comes, StoredTwice
<1>7. CASE m.event = n.event
  <2>1. /\ m.run \in 1 .. MaxRuns /\ n.run \in 1 .. MaxRuns /\ runs[m.event] \in 0 .. MaxRuns
        /\ m.run <= runs[m.event] /\ n.run <= runs[m.event]
    BY <1>1, <1>7, RowFields DEF OnceInv, PipelineTypeOK
  <2>2. ~(m.run = n.run /\ m.run < MaxRuns)
    BY <1>1, <1>7 DEF OnceInv, Unique
  <2>3. runs[m.event] > 1
    BY <2>1, <2>2, BoundsAssumption
  <2>. QED
    BY <1>7, <2>3
<1>. QED
  BY <1>6, <1>7

\* A notification has one message unless a producer resends.
OneMessage ==
    \A c, d \in Dispatches :
        c # d /\ carries[c] = carries[d] /\ carries[c] \in Notification => ProducerResends

\* Only Reach adds a message.
LEMMA OneMessageStep ==
    PipelineTypeOK /\ OneMessage /\ [PipelineNext]_allVars => OneMessage'
<1>. SUFFICES ASSUME PipelineTypeOK, OneMessage, [PipelineNext]_allVars PROVE OneMessage'
  OBVIOUS
<1>1. ASSUME NEW n \in Notification, Reach(n) PROVE OneMessage'
  <2>1. PICK d \in Dispatches : carries' = [carries EXCEPT ![d] = n]
    BY <1>1 DEF Reach
  <2>. QED
    BY <1>1, <2>1 DEF OneMessage, PipelineTypeOK, Reach, Reached
<1>2. CASE UNCHANGED carries
  BY <1>2 DEF OneMessage
<1>. QED
  BY <1>1, <1>2 DEF PipelineNext, Claim, Trigger, Forget, Arrival, Route, Drop, Settle, allVars,
     pipeVars

\* Whoever is notified twice has met one of them.
LEMMA DuplicatesHaveCauses ==
    ASSUME RequestsAssumption, MaxRuns > 1, PipelineTypeOK, FlowInv, OnceInv, OneMessage
    PROVE  DuplicatesAreExplained
<1>. SUFFICES ASSUME NEW c \in Dispatches, NEW d \in Dispatches, c # d,
                     outcome[c] = "delivered", outcome[d] = "delivered",
                     KeyOf[RequestOf[carries[c].event]] = KeyOf[RequestOf[carries[d].event]],
                     carries[c].template.channel = carries[d].template.channel,
                     KeyOf[RequestOf[carries[c].event]] \notin forgotten
              PROVE  \/ /\ carries[c] # carries[d] /\ carries[c].event = carries[d].event
                        /\ runs[carries[c].event] > 1
                     \/ StoredTwice(carries[c], carries[d])
  BY DEF DuplicatesAreExplained
<1>1. carries[c] \in sent /\ carries[d] \in sent /\ carries[c] \in Notification
  BY DEF PipelineTypeOK, TypeOK
<1>2. CASE carries[c] # carries[d]
  BY <1>1, <1>2, TwoNotifications
<1>3. CASE carries[c] = carries[d]
  BY <1>1, <1>3 DEF OneMessage, StoredTwice
<1>. QED
  BY <1>2, <1>3

\* A user is notified twice only if the ingress forgot the key, the router started the
\* event again or a producer stored a message twice, whatever requests, retries, replays
\* and templates do meanwhile.
THEOREM NotifiedTwiceHasCauses ==
    ASSUME RequestsAssumption, MaxRuns > 1
    PROVE  PipelineSpec => []DuplicatesAreExplained
<1>1. PipelineInit => OneMessage
  BY DEF PipelineInit, OneMessage, RequestsAssumption
<1>2. PipelineTypeOK /\ FlowInv /\ OnceInv /\ OneMessage => DuplicatesAreExplained
  BY DuplicatesHaveCauses
<1>. QED
  BY <1>1, <1>2, PipelineInvariant, OneMessageStep, PTL DEF PipelineSpec

-----------------------------------------------------------------------------
(* Rows without a message *)

\* A row whose message was not dispatched is the one the loop has just written, or its
\* run was cut short and its event stays at hand until the next one.
InHand(n) ==
    /\ offset < Len(topic)
    /\ n.event = Current
    /\ pc = "idle" \/ (pc = "emit" /\ \E tpl \in todo : n = Drawn(tpl))

OrphanInv ==
    \A n \in rows \ sent : n.run < MaxRuns => n.run < runs[n.event] \/ InHand(n)

\* There are no rows at first.
LEMMA OrphanInit == Init => OrphanInv
  BY DEF Init, OrphanInv

\* A failure leaves what was in hand to the next run.
LEMMA OrphanStartOver ==
    ASSUME TypeOK, pc # "idle", pc' = "idle", UNCHANGED <<topic, offset, runs, sent>>,
           \A n \in rows' \ rows : n.event = Current, OrphanInv
    PROVE  OrphanInv'
<1>. SUFFICES ASSUME NEW n \in rows' \ sent', n.run < MaxRuns
              PROVE  n.run < runs'[n.event] \/ InHand(n)'
  BY DEF OrphanInv
<1>1. offset < Len(topic)
  BY DEF TypeOK
<1>2. n.run < runs[n.event] \/ n.event = Current
  BY DEF OrphanInv, InHand
<1>. QED
  BY <1>1, <1>2 DEF InHand, Current

\* Every step of the router keeps OrphanInv.
LEMMA OrphanStep == TypeOK /\ OnceInv /\ OrphanInv /\ [Next]_vars => OrphanInv'
<1>. SUFFICES ASSUME TypeOK, OnceInv, OrphanInv, [Next]_vars
     PROVE  OrphanInv'
  OBVIOUS
<1>1. ASSUME UNCHANGED <<topic, offset, runs, pc, todo, rows, sent>>
      PROVE  OrphanInv'
  BY <1>1 DEF OrphanInv, InHand, Drawn, Current
<1>2. CASE Receive
  <2>. SUFFICES ASSUME NEW n \in rows \ sent, n.run < MaxRuns
                PROVE  n.run < runs'[n.event]
    BY <1>2 DEF Receive, OrphanInv
  <2>1. /\ n.run \in 1 .. MaxRuns /\ n.event \in Events /\ runs[n.event] \in 0 .. MaxRuns
        /\ n.run <= runs[n.event] /\ MaxRuns \in Nat
    BY RowFields, BoundsAssumption DEF OnceInv
  <2>2. /\ Current \in Events
        /\ runs' = [runs EXCEPT ![Current] = IF @ < MaxRuns THEN @ + 1 ELSE @]
        /\ runs \in [Events -> 0 .. MaxRuns]
    BY <1>2, CurrentIsEvent DEF Receive, TypeOK
  <2>3. CASE n.event = Current
    BY <2>1, <2>2, <2>3
  <2>4. CASE n.event # Current
    <3>1. n.run < runs[n.event]
      BY <2>4 DEF OrphanInv, InHand
    <3>. QED
      BY <2>2, <2>4, <3>1
  <2>. QED
    BY <2>3, <2>4
<1>3. CASE ResolveTemplates \/ Return
  BY <1>3 DEF ResolveTemplates, Return, OrphanInv, InHand
<1>4. ASSUME NEW tpl \in todo, SkipPush(tpl)
      PROVE  OrphanInv'
  BY <1>4 DEF SkipPush, OrphanInv, InHand
<1>5. ASSUME NEW tpl \in todo, Record(tpl)
      PROVE  OrphanInv'
  <2>1. /\ rows' = rows \cup {Drawn(tpl)} /\ pc = "loop" /\ pc' = "emit"
        /\ UNCHANGED <<topic, offset, runs, todo, sent>> /\ offset < Len(topic)
    BY <1>5 DEF Record, TypeOK
  <2>2. Drawn(tpl).event = Current
    BY DEF Drawn
  <2>3. ASSUME NEW n, n = Drawn(tpl)
        PROVE  InHand(n)'
    <3>1. offset' < Len(topic') /\ Current' = Current /\ Drawn(tpl)' = Drawn(tpl)
      BY <2>1 DEF Current, Drawn
    <3>. QED
      BY <2>1, <2>2, <2>3, <3>1 DEF InHand
  <2>4. \A n \in rows : ~InHand(n)
    BY <2>1 DEF InHand
  <2>. QED
    BY <2>1, <2>3, <2>4 DEF OrphanInv
<1>6. ASSUME NEW tpl \in todo, Emit(tpl)
      PROVE  OrphanInv'
  <2>1. /\ pc = "emit" /\ Drawn(tpl) \in rows /\ sent' = sent \cup {Drawn(tpl)}
        /\ UNCHANGED <<topic, offset, runs, rows>>
    BY <1>6 DEF Emit
  <2>. SUFFICES ASSUME NEW n \in rows \ sent', n.run < MaxRuns
                PROVE  n.run < runs[n.event]
    BY <2>1 DEF OrphanInv
  <2>2. n.run < runs[n.event] \/ (n.event = Current /\ \E a \in todo : n = Drawn(a))
    BY <2>1 DEF OrphanInv, InHand
  <2>3. ASSUME NEW a \in todo, n = Drawn(a)
        PROVE  FALSE
    <3>1. /\ n.event = Current /\ n.run = runs[Current] /\ n.template = a
          /\ Drawn(tpl).event = Current /\ Drawn(tpl).run = runs[Current]
          /\ Drawn(tpl).template = tpl
      BY <2>3 DEF Drawn
    <3>2. ThisRun(n) /\ ThisRun(Drawn(tpl))
      BY <3>1 DEF ThisRun
    <3>3. PICK last \in todo : \A m \in rows, b \in todo :
              ThisRun(m) /\ m.template.channel = b.channel => m = Drawn(last)
      BY <2>1 DEF OnceInv
    <3>4. n = Drawn(last) /\ Drawn(tpl) = Drawn(last)
      BY <2>1, <2>3, <3>1, <3>2, <3>3
    <3>. QED
      BY <2>1, <3>4
  <2>. QED
    BY <2>2, <2>3
<1>7. CASE CommitOffset
  <2>1. UNCHANGED <<runs, rows, sent>> /\ pc = "returned"
    BY <1>7 DEF CommitOffset
  <2>. QED
    BY <2>1 DEF OrphanInv, InHand
<1>8. CASE RenderFails \/ ClientDataFails \/ Crash
  <2>1. /\ pc # "idle" /\ pc' = "idle" /\ UNCHANGED <<topic, offset, runs, sent, rows>>
    BY <1>8 DEF RenderFails, ClientDataFails, Crash, Transient, StartOver
  <2>. QED
    BY <2>1, OrphanStartOver
<1>9. CASE QueryFails
  <2>1. /\ pc # "idle" /\ pc' = "idle" /\ UNCHANGED <<topic, offset, runs, sent>>
        /\ \A n \in rows' \ rows : n.event = Current
    BY <1>9 DEF QueryFails, StartOver, Transient, Drawn
  <2>. QED
    BY <2>1, OrphanStartOver
<1>10. CASE Editors \/ UNCHANGED vars
  BY <1>1, <1>10 DEF Editors, PublishTemplate, DeactivateTemplate, ReactivateTemplate, SetTemplate,
     vars
<1>11. ASSUME NEW e \in Events, Arrive(e)
       PROVE  OrphanInv'
  <2>1. /\ Len(topic) \in Nat /\ offset \in 0 .. Len(topic) /\ Len(topic') = Len(topic) + 1
        /\ \A i \in 1 .. Len(topic) : topic'[i] = topic[i]
        /\ UNCHANGED <<offset, runs, pc, todo, rows, sent>>
    BY <1>11 DEF Arrive, TypeOK
  <2>2. offset < Len(topic) => offset' < Len(topic') /\ Current' = Current
    BY <2>1 DEF Current
  <2>3. \A n : InHand(n) => InHand(n)'
    BY <2>1, <2>2 DEF InHand, Drawn
  <2>. QED
    BY <2>1, <2>3 DEF OrphanInv
<1>. QED
  BY <1>2, <1>3, <1>4, <1>5, <1>6, <1>7, <1>8, <1>9, <1>10, <1>11 DEF Next, Handler

\* A row left without a message was left by a run cut short, or by the producer,
\* whatever crashes, failing transactions and edits of templates come together.
THEOREM OrphansHaveCauses == PipelineSpec => []OrphansAreExplained
<1>1. TypeOK /\ OnceInv /\ OrphanInv /\ RouteInv => OrphansAreExplained
  <2>. SUFFICES ASSUME TypeOK, OrphanInv, RouteInv, NEW n \in rows, n \notin sent,
                       n.run < MaxRuns, Handled(n.event)
                PROVE  n.run < runs[n.event]
    BY DEF OrphansAreExplained
  <2>1. CASE InHand(n)
    <3>1. PICK i \in 1 .. offset : topic[i] = n.event
      BY DEF Handled
    <3>2. /\ offset + 1 \in 1 .. Len(topic) /\ i \in 1 .. Len(topic) /\ i # offset + 1
          /\ topic[i] = topic[offset + 1]
      BY <2>1, <3>1 DEF InHand, Current, TypeOK
    <3>. QED
      BY <3>2 DEF RouteInv
  <2>. QED
    BY <2>1 DEF OrphanInv
<1>. QED
  BY <1>1, PipelineRouter, TypeInit, TypeStep, OnceInit, OnceStep, OrphanInit, OrphanStep,
     RouteInit, RouteStep, PTL DEF Spec

-----------------------------------------------------------------------------
(* What the pipeline asks of its two neighbours *)

\* A step of the pipeline asks no more of the ingress than EventOnce allows.
LEMMA IngressStep ==
    ASSUME RequestsAssumption
    PROVE  PipelineTypeOK /\ [PipelineNext]_allVars => [Ingress!Next]_(Ingress!onceVars)
<1>. SUFFICES ASSUME PipelineTypeOK, PipelineNext
     PROVE  [Ingress!Next]_(Ingress!onceVars)
  BY DEF allVars, pipeVars, ingressVars, Ingress!onceVars
<1>1. ASSUME NEW r \in Requests, Claim(r)
      PROVE  Ingress!Next
  <2>1. /\ claims' = [claims EXCEPT ![KeyOf[r]] = @ \cup {r}]
        /\ UNCHANGED <<triggered, forgotten>>
        /\ claims \in [Keys -> SUBSET Requests] /\ KeyOf[r] \in Keys
    BY <1>1 DEF RequestsAssumption, Claim, Reserve, PipelineTypeOK
  <2>2. CASE claims[KeyOf[r]] = {}
    <3>1. claims' = [claims EXCEPT ![KeyOf[r]] = {r}]
      BY <2>1, <2>2
    <3>. QED
      BY <2>1, <2>2, <3>1 DEF Ingress!Claim, Ingress!Next
  <2>3. CASE KeyOf[r] \in forgotten
    <3>1. Ingress!Forgetful(KeyOf[r])
      BY <2>1, <2>3 DEF Ingress!Forgetful
    <3>. QED
      BY <2>1, <3>1 DEF Ingress!Next
  <2>. QED
    BY <1>1, <2>2, <2>3 DEF Claim, Reserve
<1>2. ASSUME NEW r \in Requests, Trigger(r)
      PROVE  Ingress!Next
  BY <1>2 DEF Trigger, Ingress!Next
<1>3. ASSUME NEW k \in Keys, Forget(k)
      PROVE  Ingress!Next
  <2>1. Ingress!Forgetful(k)
    BY <1>3 DEF Forget, Ingress!Forgetful
  <2>. QED
    BY <2>1 DEF Ingress!Next
<1>4. CASE UNCHANGED ingressVars
  BY <1>4 DEF ingressVars, Ingress!onceVars
<1>. QED
  BY <1>1, <1>2, <1>3, <1>4
     DEF PipelineNext, Arrival, Route, Reach, Drop, Settle, pipeVars, ingressVars

\* Nor of the gateway than DeliveryOutcome allows.
LEMMA GatewayStep == [PipelineNext]_allVars => [Gateway!Next]_outcome
<1>. SUFFICES ASSUME PipelineNext
     PROVE  [Gateway!Next]_outcome
  BY DEF allVars, pipeVars
<1>1. ASSUME NEW n \in Notification, Reach(n)
      PROVE  Gateway!Next
  BY <1>1 DEF Reach, Gateway!Next
<1>2. CASE Settle
  BY <1>2 DEF Settle, Gateway!Next
<1>3. CASE UNCHANGED outcome
  BY <1>3
<1>. QED
  BY <1>1, <1>2, <1>3
     DEF PipelineNext, Claim, Trigger, Forget, Arrival, Route, Drop, pipeVars

\* The pipeline's ingress is EventOnce, which IngressIdempotency implements, and its
\* gateway DeliveryOutcome, which DeadLetterQueue implements: the composition assumes
\* of its parts nothing their specifications do not promise.
THEOREM NeighboursKeepTheirSpecs ==
    ASSUME RequestsAssumption
    PROVE  PipelineSpec => Ingress!Spec /\ Gateway!Spec
<1>1. PipelineInit => Ingress!Init /\ Gateway!Init
  BY DEF PipelineInit
<1>. QED
  BY <1>1, PipelineInvariant, IngressStep, GatewayStep, PTL
     DEF PipelineSpec, Ingress!Spec, Gateway!Spec

===============================================================================
