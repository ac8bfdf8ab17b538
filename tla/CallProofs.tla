----------------------------- MODULE CallProofs ------------------------------
(***************************************************************************)
(* Proofs about ThreePhaseTask for any isolates and any calls between      *)
(* them, and that it implements AsyncCall.                                 *)
(***************************************************************************)
EXTENDS ThreePhaseTask, TLAPS

Boxes == [Isolate -> Seq(Msg)]

\* The Runnables in the inboxes, by their places.
LEMMA ContentsDef ==
  ASSUME NEW box \in Boxes, NEW m
  PROVE  m \in Contents(box) <=> \E i \in Isolate : \E k \in 1..Len(box[i]) : box[i][k] = m
  <1>1. \A i \in Isolate : box[i] \in Seq(Msg) /\ DOMAIN box[i] = 1..Len(box[i])
                           /\ \A k \in 1..Len(box[i]) : box[i][k] \in Msg
    BY DEF Boxes
  <1> QED BY <1>1, Zenon DEF Contents

\* Uniqueness, by lengths.
LEMMA UniqueDef ==
  ASSUME NEW box \in Boxes
  PROVE  Unique(box) <=> \A i, j \in Isolate : \A k \in 1..Len(box[i]), l \in 1..Len(box[j]) :
                           box[i][k].call = box[j][l].call => i = j /\ k = l
  <1>1. \A i \in Isolate : DOMAIN box[i] = 1..Len(box[i])
    BY DEF Boxes
  <1>2. ASSUME Unique(box), NEW i \in Isolate, NEW j \in Isolate,
               NEW k \in 1..Len(box[i]), NEW l \in 1..Len(box[j]), box[i][k].call = box[j][l].call
        PROVE  i = j /\ k = l
    <2>1. k \in DOMAIN box[i] /\ l \in DOMAIN box[j]
      BY <1>1, Zenon
    <2> QED BY <1>2, <2>1, Zenon DEF Unique
  <1>3. ASSUME \A i, j \in Isolate : \A k \in 1..Len(box[i]), l \in 1..Len(box[j]) :
                 box[i][k].call = box[j][l].call => i = j /\ k = l,
               NEW i \in Isolate, NEW j \in Isolate,
               NEW k \in DOMAIN box[i], NEW l \in DOMAIN box[j], box[i][k].call = box[j][l].call
        PROVE  i = j /\ k = l
    <2>1. k \in 1..Len(box[i]) /\ l \in 1..Len(box[j])
      BY <1>1, Zenon
    <2> QED BY <1>3, <2>1, Zenon
  <1> QED BY <1>2, <1>3, Zenon DEF Unique

\* Phase3 at home, by lengths.
LEMMA HomeDef ==
  ASSUME NEW box \in Boxes
  PROVE  Home(box) <=> \A i \in Isolate : \A k \in 1..Len(box[i]) :
                         box[i][k].kind \in Phase3Kind => First[box[i][k].call] = i
  <1>1. \A i \in Isolate : DOMAIN box[i] = 1..Len(box[i])
    BY DEF Boxes
  <1> QED BY <1>1, Zenon DEF Home

\* What ScheduleTask adds to the inbox of an isolate that has a holder.
LEMMA AppendBox ==
  ASSUME NEW box \in Boxes, NEW i \in Isolate, NEW m \in Msg,
         NEW new, new = [box EXCEPT ![i] = Append(@, m)]
  PROVE  /\ new \in Boxes
         /\ Contents(new) = Contents(box) \cup {m}
         /\ Unique(box) /\ Absent(box, m.call) => Unique(new)
         /\ Home(box) /\ (m.kind \in Phase3Kind => First[m.call] = i) => Home(new)
  <1>1. /\ new \in Boxes
        /\ \A j \in Isolate : j # i => new[j] = box[j]
        /\ Len(box[i]) \in Nat /\ Len(new[i]) = Len(box[i]) + 1
        /\ \A k \in 1..Len(box[i]) : new[i][k] = box[i][k]
        /\ new[i][Len(box[i]) + 1] = m
    <2>1. box[i] \in Seq(Msg) /\ new = [box EXCEPT ![i] = Append(box[i], m)]
      BY Zenon DEF Boxes
    <2> QED BY <2>1 DEF Boxes
  <1>a. new \in Boxes
    BY <1>1, Zenon
  <1>2. \A x : x \in Contents(new) <=> x \in Contents(box) \/ x = m
    <2> TAKE x
    <2>1. /\ x \in Contents(new) <=> \E j \in Isolate : \E k \in 1..Len(new[j]) : new[j][k] = x
          /\ x \in Contents(box) <=> \E j \in Isolate : \E k \in 1..Len(box[j]) : box[j][k] = x
      BY <1>a, ContentsDef, Zenon
    <2>2. ASSUME NEW j \in Isolate, NEW k \in 1..Len(new[j]), new[j][k] = x
          PROVE  x \in Contents(box) \/ x = m
      BY <1>1, <2>1, <2>2
    <2>3. ASSUME NEW j \in Isolate, NEW k \in 1..Len(box[j]), box[j][k] = x
          PROVE  x \in Contents(new)
      <3>1. k \in 1..Len(new[j]) /\ new[j][k] = x
        BY <1>1, <2>3
      <3> QED BY <2>1, <3>1, Zenon
    <2>4. m \in Contents(new)
      <3>1. Len(box[i]) + 1 \in 1..Len(new[i])
        BY <1>1
      <3>2. \E j \in Isolate : \E k \in 1..Len(new[j]) : new[j][k] = m
        BY <1>1, <3>1, Zenon
      <3> QED BY <1>a, <3>2, ContentsDef, Zenon
    <2> QED BY <2>1, <2>2, <2>3, <2>4, Zenon
  <1>3. ASSUME Unique(box), Absent(box, m.call) PROVE Unique(new)
    <2>1. \A j \in Isolate : \A k \in 1..Len(box[j]) : box[j][k].call # m.call
      BY <1>3, ContentsDef, Zenon DEF Absent
    <2>2. \A j, h \in Isolate : \A k \in 1..Len(box[j]), l \in 1..Len(box[h]) :
            box[j][k].call = box[h][l].call => j = h /\ k = l
      BY <1>3, UniqueDef, Zenon
    <2>3. SUFFICES ASSUME NEW j \in Isolate, NEW h \in Isolate,
                          NEW k \in 1..Len(new[j]), NEW l \in 1..Len(new[h]),
                          new[j][k].call = new[h][l].call
                   PROVE  j = h /\ k = l
      BY <1>a, UniqueDef, Zenon
    <2>4. \/ k \in 1..Len(box[j]) /\ new[j][k] = box[j][k]
          \/ j = i /\ k = Len(box[i]) + 1 /\ new[j][k] = m
      BY <1>1
    <2>5. \/ l \in 1..Len(box[h]) /\ new[h][l] = box[h][l]
          \/ h = i /\ l = Len(box[i]) + 1 /\ new[h][l] = m
      BY <1>1
    <2>6. CASE /\ k \in 1..Len(box[j]) /\ new[j][k] = box[j][k]
               /\ l \in 1..Len(box[h]) /\ new[h][l] = box[h][l]
      <3>1. box[j][k].call = box[h][l].call
        BY <2>3, <2>6, Zenon
      <3> QED BY <2>2, <2>6, <3>1
    <2>7. CASE new[j][k] = m /\ l \in 1..Len(box[h]) /\ new[h][l] = box[h][l]
      BY <2>1, <2>3, <2>7, Zenon
    <2>8. CASE new[h][l] = m /\ k \in 1..Len(box[j]) /\ new[j][k] = box[j][k]
      BY <2>1, <2>3, <2>8, Zenon
    <2> QED BY <2>4, <2>5, <2>6, <2>7, <2>8, Zenon
  <1>4. ASSUME Home(box), m.kind \in Phase3Kind => First[m.call] = i PROVE Home(new)
    <2>1. SUFFICES ASSUME NEW j \in Isolate, NEW k \in 1..Len(new[j]), new[j][k].kind \in Phase3Kind
                   PROVE  First[new[j][k].call] = j
      BY <1>a, HomeDef, Zenon
    <2>2. \/ k \in 1..Len(box[j]) /\ new[j][k] = box[j][k]
          \/ j = i /\ new[j][k] = m
      BY <1>1
    <2> QED BY <1>4, <2>1, <2>2, HomeDef
  <1> QED BY <1>1, <1>2, <1>3, <1>4, Zenon

\* What taking the front of an inbox leaves.
LEMMA TailBox ==
  ASSUME NEW box \in Boxes, NEW i \in Isolate, box[i] # <<>>, Unique(box), Home(box),
         NEW new, new = [box EXCEPT ![i] = Tail(@)]
  PROVE  /\ new \in Boxes /\ Head(box[i]) \in Msg /\ Head(box[i]) \in Contents(box)
         /\ Contents(box) = Contents(new) \cup {Head(box[i])}
         /\ Unique(new) /\ Absent(new, Head(box[i]).call)
         /\ Home(new) /\ (Head(box[i]).kind \in Phase3Kind => First[Head(box[i]).call] = i)
  <1> DEFINE h == Head(box[i])
  <1>1. /\ new \in Boxes /\ h \in Msg
        /\ \A j \in Isolate : j # i => new[j] = box[j]
        /\ Len(box[i]) \in Nat \ {0} /\ Len(new[i]) = Len(box[i]) - 1
        /\ \A k \in 1..Len(new[i]) : new[i][k] = box[i][k + 1]
        /\ h = box[i][1]
    <2>1. box[i] \in Seq(Msg) /\ new = [box EXCEPT ![i] = Tail(box[i])]
      BY Zenon DEF Boxes
    <2>2. Tail(box[i]) \in Seq(Msg)
      BY <2>1
    <2>3. new \in Boxes /\ new[i] = Tail(box[i]) /\ \A j \in Isolate : j # i => new[j] = box[j]
      BY <2>1, <2>2, Zenon DEF Boxes
    <2>4. Len(box[i]) \in Nat \ {0}
      BY <2>1
    <2>5. /\ Head(box[i]) \in Msg /\ Head(box[i]) = box[i][1]
          /\ Len(Tail(box[i])) = Len(box[i]) - 1
          /\ \A k \in 1..Len(Tail(box[i])) : Tail(box[i])[k] = box[i][k + 1]
      BY <2>1
    <2> QED BY <2>3, <2>4, <2>5, Zenon
  <1>a. new \in Boxes
    BY <1>1, Zenon
  <1> HIDE DEF h
  <1> DEFINE at(j, k) == IF j = i THEN k + 1 ELSE k
  <1>2. ASSUME NEW j \in Isolate, NEW k \in 1..Len(new[j])
        PROVE  at(j, k) \in 1..Len(box[j]) /\ new[j][k] = box[j][at(j, k)]
    BY <1>1
  <1>3. \A j, g \in Isolate : \A k \in 1..Len(box[j]), l \in 1..Len(box[g]) :
          box[j][k].call = box[g][l].call => j = g /\ k = l
    BY UniqueDef, Zenon
  <1>4. Unique(new)
    <2>1. SUFFICES ASSUME NEW j \in Isolate, NEW g \in Isolate,
                          NEW k \in 1..Len(new[j]), NEW l \in 1..Len(new[g]),
                          new[j][k].call = new[g][l].call
                   PROVE  j = g /\ k = l
      BY <1>a, UniqueDef, Zenon
    <2>2. /\ at(j, k) \in 1..Len(box[j]) /\ at(g, l) \in 1..Len(box[g])
          /\ box[j][at(j, k)].call = box[g][at(g, l)].call
      <3> HIDE DEF at
      <3>1. at(j, k) \in 1..Len(box[j]) /\ new[j][k] = box[j][at(j, k)]
        BY <1>2, Zenon
      <3>2. at(g, l) \in 1..Len(box[g]) /\ new[g][l] = box[g][at(g, l)]
        BY <1>2, Zenon
      <3> QED BY <2>1, <3>1, <3>2, Zenon
    <2>3. j = g /\ at(j, k) = at(g, l)
      <3> HIDE DEF at
      <3> QED BY <1>3, <2>2
    <2> QED BY <2>3
  <1>5. Absent(new, h.call)
    <2>1. SUFFICES ASSUME NEW m \in Contents(new), m.call = h.call PROVE FALSE
      BY Zenon DEF Absent
    <2>a. PICK j \in Isolate : \E k \in 1..Len(new[j]) : new[j][k] = m
      BY <1>a, ContentsDef, Zenon
    <2>2. PICK k \in 1..Len(new[j]) : new[j][k] = m
      BY <2>a, Zenon
    <2>3. 1 \in 1..Len(box[i])
      BY <1>1
    <2>4. at(j, k) \in 1..Len(box[j]) /\ box[j][at(j, k)].call = box[i][1].call
      BY <1>1, <1>2, <2>1, <2>2
    <2>5. j = i /\ at(j, k) = 1
      <3> HIDE DEF at
      <3> QED BY <1>3, <2>3, <2>4
    <2> QED BY <2>5
  <1>6. \A x : x \in Contents(box) <=> x \in Contents(new) \/ x = h
    <2> TAKE x
    <2>1. /\ x \in Contents(new) <=> \E j \in Isolate : \E k \in 1..Len(new[j]) : new[j][k] = x
          /\ x \in Contents(box) <=> \E j \in Isolate : \E k \in 1..Len(box[j]) : box[j][k] = x
      BY <1>a, ContentsDef, Zenon
    <2>2. ASSUME NEW j \in Isolate, NEW k \in 1..Len(new[j]), new[j][k] = x
          PROVE  x \in Contents(box)
      BY <1>2, <2>1, <2>2
    <2>3. ASSUME NEW j \in Isolate, NEW k \in 1..Len(box[j]), box[j][k] = x
          PROVE  x \in Contents(new) \/ x = h
      <3>1. CASE j = i /\ k = 1
        BY <1>1, <2>3, <3>1, Zenon
      <3>2. CASE j = i /\ k # 1
        <4>1. k - 1 \in 1..Len(new[j]) /\ new[j][k - 1] = x
          BY <1>1, <2>3, <3>2
        <4> QED BY <2>1, <4>1, Zenon
      <3>3. CASE j # i
        BY <1>1, <2>1, <2>3, <3>3, Zenon
      <3> QED BY <3>1, <3>2, <3>3, Zenon
    <2>4. h \in Contents(box)
      <3>1. 1 \in 1..Len(box[i])
        BY <1>1
      <3> QED BY <1>1, <3>1, ContentsDef, Zenon
    <2> QED BY <2>1, <2>2, <2>3, <2>4, Zenon
  <1>7. Home(new)
    <2>1. SUFFICES ASSUME NEW j \in Isolate, NEW k \in 1..Len(new[j]), new[j][k].kind \in Phase3Kind
                   PROVE  First[new[j][k].call] = j
      BY <1>a, HomeDef, Zenon
    <2> QED BY <1>2, <2>1, HomeDef
  <1>8. h.kind \in Phase3Kind => First[h.call] = i
    <2>1. 1 \in 1..Len(box[i])
      BY <1>1
    <2> QED BY <1>1, <2>1, HomeDef, Zenon
  <1> QED BY <1>1, <1>4, <1>5, <1>6, <1>7, <1>8, Zenon DEF h

Orphan(c) == M("Phase3Orphan", c)

\* The destructor of a Runnable adds at most the orphan of its call.
LEMMA DestroyedBox ==
  ASSUME TypeOK, NEW box \in Boxes, NEW m \in Msg, Unique(box), Absent(box, m.call), Home(box),
         NEW new, new = Destroyed(box, m)
  PROVE  /\ new \in Boxes /\ Unique(new) /\ Home(new)
         /\ Orphans(m) /\ holder[First[m.call]] =>
              Contents(new) = Contents(box) \cup {Orphan(m.call)}
         /\ ~(Orphans(m) /\ holder[First[m.call]]) => new = box
  <1>1. m.call \in Call /\ First[m.call] \in Isolate
    BY ThreePhaseAssumption, Zenon DEF Msg
  <1>2. Orphan(m.call) \in Msg /\ Orphan(m.call).call = m.call
    BY <1>1, Zenon DEF Orphan, M, Msg, Kind, Phase3Kind
  <1>3. CASE Orphans(m) /\ holder[First[m.call]]
    <2>1. new = [box EXCEPT ![First[m.call]] = Append(@, Orphan(m.call))]
      BY <1>3, Zenon DEF Destroyed, Push, Orphan
    <2>2. new \in Boxes /\ Unique(new) /\ Home(new)
          /\ Contents(new) = Contents(box) \cup {Orphan(m.call)}
      <3> DEFINE f == First[m.call]
                 o == Orphan(m.call)
      <3>1. /\ Absent(box, o.call) /\ First[o.call] = f
            /\ o \in Msg /\ f \in Isolate /\ new = [box EXCEPT ![f] = Append(@, o)]
        BY <1>1, <1>2, <2>1, Zenon
      <3> HIDE DEF f, o
      <3>2. new \in Boxes /\ Unique(new) /\ Home(new) /\ Contents(new) = Contents(box) \cup {o}
        BY <3>1, AppendBox, Zenon
      <3> QED BY <3>2, Zenon DEF o
    <2> QED BY <1>3, <2>2, Zenon
  <1>4. CASE ~(Orphans(m) /\ holder[First[m.call]])
    BY <1>4, Zenon DEF Destroyed, Push
  <1> QED BY <1>3, <1>4, Zenon

\* What is given to ScheduleTask is queued, or destroyed.
LEMMA ScheduledBox ==
  ASSUME TypeOK, NEW box \in Boxes, NEW i \in Isolate, NEW m \in Msg,
         Unique(box), Absent(box, m.call), Home(box),
         m.kind \in Phase3Kind => First[m.call] = i,
         NEW new, new = ScheduleTask(box, i, m)
  PROVE  /\ new \in Boxes /\ Unique(new) /\ Home(new)
         /\ holder[i] => Contents(new) = Contents(box) \cup {m}
         /\ ~holder[i] /\ Orphans(m) /\ holder[First[m.call]] =>
              Contents(new) = Contents(box) \cup {Orphan(m.call)}
         /\ ~holder[i] /\ ~(Orphans(m) /\ holder[First[m.call]]) => new = box
  <1>1. CASE holder[i]
    <2>1. new = [box EXCEPT ![i] = Append(@, m)]
      BY <1>1, Zenon DEF ScheduleTask, Push
    <2>2. new \in Boxes /\ Unique(new) /\ Home(new) /\ Contents(new) = Contents(box) \cup {m}
      BY <2>1, AppendBox, Zenon
    <2> QED BY <1>1, <2>2, Zenon
  <1>2. CASE ~holder[i]
    <2>1. new = Destroyed(box, m)
      BY <1>2, Zenon DEF ScheduleTask
    <2> QED BY <1>2, <2>1, DestroyedBox, Zenon
  <1> QED BY <1>1, <1>2, Zenon

\* The calls of the Runnables in the inboxes have been made and not settled.
LEMMA QueuedCalls ==
  ASSUME IInv, NEW m \in Contents(inbox)
  PROVE  m \in Msg /\ m.call \in Call /\ promise[m.call] \in {"pending", "ignored"}
  BY Zenon DEF IInv, Contents, Msg, Kind, Phase3Kind, MsgOK

\* A new call.
LEMMA RunInv ==
  ASSUME IInv, NEW c \in Call, Run(c)
  PROVE  IInv'
  <1> DEFINE m == M(IF c \in Quiet THEN "Phase2RunnerIgnored" ELSE "Phase2Runner", c)
  <1>1. /\ promise[c] = "none" /\ ran[c] = 0 /\ ~did_run[c] /\ settled[c] = 0
        /\ promise' = [promise EXCEPT ![c] = IF c \in Quiet THEN "ignored" ELSE "pending"]
        /\ inbox' = ScheduleTask(inbox, Second[c], m)
        /\ called' = Append(called, c)
        /\ UNCHANGED <<holder, terminated, env, current, did_run, ran, settled>>
    BY Zenon DEF Run, IInv, FreshCalls, SettledOnce, Final
  <1>2. /\ m \in Msg /\ m.call = c /\ inbox \in Boxes
        /\ m.kind = IF c \in Quiet THEN "Phase2RunnerIgnored" ELSE "Phase2Runner"
    BY Zenon DEF M, Msg, Kind, Phase3Kind, IInv, TypeOK, Boxes
  <1>3. Absent(inbox, c) /\ \A x \in Contents(inbox) : x.call # c
    BY <1>1, QueuedCalls, Zenon DEF Absent
  <1> HIDE DEF m
  <1>4. /\ inbox' \in Boxes /\ Unique(inbox') /\ Home(inbox')
        /\ holder[Second[c]] => Contents(inbox') = Contents(inbox) \cup {m}
        /\ ~holder[Second[c]] /\ Orphans(m) /\ holder[First[c]] =>
             Contents(inbox') = Contents(inbox) \cup {Orphan(c)}
        /\ ~holder[Second[c]] /\ ~(Orphans(m) /\ holder[First[c]]) => inbox' = inbox
    BY <1>1, <1>2, <1>3, ScheduledBox, ThreePhaseAssumption
       DEF IInv, OneRunnable, AtHome, Phase3Kind
  <1>5. \A x \in Contents(inbox') : x \in Contents(inbox) \/ x = m \/ (x = Orphan(c) /\ Orphans(m))
    BY <1>4, Zenon
  <1>6. ASSUME NEW x \in Contents(inbox') PROVE MsgOK(x)'
    <2>1. CASE x \in Contents(inbox)
      BY <1>1, <1>3, <2>1, QueuedCalls, Zenon DEF IInv, MsgOK, TypeOK
    <2>2. CASE x = m
      BY <1>1, <1>2, <2>2, Zenon DEF IInv, MsgOK, TypeOK
    <2>3. CASE x = Orphan(c) /\ Orphans(m)
      BY <1>1, <1>2, <2>3, Zenon DEF IInv, MsgOK, TypeOK, Orphan, M, Orphans
    <2> QED BY <1>5, <2>1, <2>2, <2>3, Zenon
  <1>7. TypeOK'
    <2>1. called' \in Seq(Call)
      BY <1>1 DEF IInv, TypeOK
    <2> QED BY <1>1, <1>4, <2>1, Zenon DEF IInv, TypeOK, Boxes, Promise
  <1>8. ASSUME NEW i \in Isolate, Live(i) PROVE current[i] \in Msg /\ current[i].call # c
    BY <1>1, <1>8, Zenon DEF IInv, CurrentOK, Live, MsgOK, Msg, Kind, Phase3Kind
  <1>9. OneRunnable'
    <2>1. \A i \in Isolate : Live(i)' <=> Live(i)
      BY <1>1, Zenon DEF Live
    <2>2. ASSUME NEW i \in Isolate, Live(i) PROVE Absent(inbox', current[i].call)
      BY <1>2, <1>5, <1>8, <2>2 DEF Absent, IInv, OneRunnable, Orphan, M
    <2> QED BY <1>1, <1>4, <2>1, <2>2, Zenon DEF IInv, OneRunnable
  <1>10. CurrentOK'
    <2> SUFFICES ASSUME NEW i \in Isolate, current[i] \in Msg => current[i].call \in Call
                 PROVE  CurrentOK!(i)'
      BY Zenon DEF CurrentOK, Msg
    <2> QED BY <1>1, <1>8, Zenon DEF IInv, CurrentOK, MsgOK, TypeOK, Live
  <1>11. FreshCalls' /\ SettledOnce'
    BY <1>1, Zenon DEF IInv, FreshCalls, SettledOnce, TypeOK, Final
  <1>12. PromiseKept'
    <2> SUFFICES ASSUME NEW d \in Call, promise'[d] = "pending", holder[First[d]],
                        Absent(inbox', d)
                 PROVE  \E i \in Isolate : Live(i)' /\ current'[i].call = d
      BY <1>1, Zenon DEF PromiseKept
    <2>1. CASE d = c
      <3>1. m \in Contents(inbox') \/ Orphan(c) \in Contents(inbox')
        BY <1>1, <1>2, <1>4, <2>1, Zenon DEF Orphans, IInv, TypeOK
      <3> QED BY <1>2, <2>1, <3>1, Zenon DEF Absent, Orphan, M
    <2>2. CASE d # c
      <3>1. Absent(inbox, d)
        BY <1>4, Zenon DEF Absent
      <3> QED BY <1>1, <2>2, <3>1, Zenon DEF IInv, PromiseKept, TypeOK, Live
    <2> QED BY <2>1, <2>2, Zenon
  <1>13. AtHome' /\ NoHolder'
    BY <1>1, <1>4, Zenon DEF IInv, AtHome, NoHolder, Home
  <1> QED BY <1>6, <1>7, <1>9, <1>10, <1>11, <1>12, <1>13, Zenon DEF IInv

\* Phase1 throws.
LEMMA RunThrowsInv ==
  ASSUME IInv, NEW c \in Call, RunThrows(c)
  PROVE  IInv'
  <1>1. /\ promise[c] = "none" /\ settled[c] = 0
        /\ promise' = [promise EXCEPT ![c] = "rejected"]
        /\ settled' = [settled EXCEPT ![c] = @ + 1]
        /\ UNCHANGED <<holder, terminated, env, inbox, current, did_run, ran, called>>
    BY Zenon DEF RunThrows, IInv, SettledOnce, Final
  <1>2. TypeOK'
    BY <1>1 DEF IInv, TypeOK, Promise
  <1>3. FreshCalls' /\ SettledOnce'
    BY <1>1 DEF IInv, FreshCalls, SettledOnce, TypeOK, Final
  <1>4. \A m \in Contents(inbox') : MsgOK(m)'
    BY <1>1, QueuedCalls, Zenon DEF IInv, MsgOK, TypeOK
  <1>5. OneRunnable' /\ AtHome' /\ NoHolder'
    BY <1>1, Zenon DEF IInv, OneRunnable, AtHome, NoHolder, Live
  <1>6. CurrentOK'
    <2> SUFFICES ASSUME NEW i \in Isolate PROVE CurrentOK!(i)'
      BY Zenon DEF CurrentOK
    <2>1. Live(i) => current[i] \in Msg /\ current[i].call # c
      BY <1>1, Zenon DEF IInv, CurrentOK, Live, MsgOK, Msg, Kind, Phase3Kind
    <2> QED BY <1>1, <2>1, Zenon DEF IInv, CurrentOK, MsgOK, TypeOK, Live, Msg
  <1>7. PromiseKept'
    BY <1>1, Zenon DEF IInv, PromiseKept, TypeOK, Live
  <1> QED BY <1>2, <1>3, <1>4, <1>5, <1>6, <1>7, Zenon DEF IInv

\* A task leaves the queue and is run.
LEMMA BeginTaskInv ==
  ASSUME IInv, NEW i \in Isolate, BeginTask(i)
  PROVE  IInv'
  <1>0. PICK h : h = Head(inbox[i])
    BY Zenon
  <1>1. /\ env[i] = "idle" /\ inbox[i] # <<>>
        /\ current' = [current EXCEPT ![i] = h]
        /\ inbox' = [inbox EXCEPT ![i] = Tail(@)]
        /\ env' = [env EXCEPT ![i] = "run"]
        /\ UNCHANGED <<holder, terminated, did_run, promise, ran, settled, called>>
    BY <1>0, Zenon DEF BeginTask
  <1>2. inbox \in Boxes
    BY Zenon DEF IInv, TypeOK, Boxes
  <1>3. /\ inbox' \in Boxes /\ h \in Msg /\ h \in Contents(inbox)
        /\ Contents(inbox) = Contents(inbox') \cup {h}
        /\ Unique(inbox') /\ Absent(inbox', h.call)
        /\ Home(inbox') /\ (h.kind \in Phase3Kind => First[h.call] = i)
    BY <1>0, <1>1, <1>2, TailBox, Zenon DEF IInv, OneRunnable, AtHome
  <1>4. TypeOK'
    BY <1>1, <1>3, Zenon DEF IInv, TypeOK, Boxes, Env
  <1>5. FreshCalls' /\ SettledOnce' /\ NoHolder'
    BY <1>1, Zenon DEF IInv, FreshCalls, SettledOnce, NoHolder, TypeOK
  <1>6. \A m \in Contents(inbox') : MsgOK(m)'
    BY <1>1, <1>3, Zenon DEF IInv, MsgOK
  <1>7. MsgOK(h)'
    BY <1>1, <1>3, Zenon DEF IInv, MsgOK
  <1>8. /\ Live(i)' /\ current'[i] = h /\ ~Live(i)
        /\ \A j \in Isolate : j # i =>
             (Live(j)' <=> Live(j)) /\ current'[j] = current[j] /\ env'[j] = env[j]
    BY <1>1, Zenon DEF Live, IInv, TypeOK
  <1>9. OneRunnable'
    <2>1. ASSUME NEW j \in Isolate, Live(j) PROVE current[j].call # h.call
      BY <1>3, <2>1, Zenon DEF IInv, OneRunnable, Absent
    <2>2. ASSUME NEW j \in Isolate, Live(j)' PROVE Absent(inbox', current'[j].call)
      BY <1>3, <1>8, <2>2 DEF IInv, OneRunnable, Absent
    <2> QED BY <1>3, <1>8, <2>1, <2>2, Zenon DEF IInv, OneRunnable
  <1>10. AtHome'
    BY <1>3, <1>8, Zenon DEF IInv, AtHome
  <1>11. CurrentOK'
    <2> SUFFICES ASSUME NEW j \in Isolate PROVE CurrentOK!(j)'
      BY Zenon DEF CurrentOK
    <2>1. CASE j = i
      BY <1>1, <1>3, <1>7, <1>8, <2>1, Zenon DEF IInv, TypeOK
    <2>2. CASE j # i
      <3>1. env'[j] = env[j] /\ current'[j] = current[j]
        BY <1>8, <2>2, Zenon
      <3>2. CurrentOK!(j)
        BY Zenon DEF IInv, CurrentOK
      <3> QED BY <1>1, <3>1, <3>2, Zenon DEF MsgOK
    <2> QED BY <2>1, <2>2, Zenon
  <1>12. PromiseKept'
    <2> SUFFICES ASSUME NEW c \in Call, promise[c] = "pending", holder[First[c]],
                        Absent(inbox', c)
                 PROVE  \E j \in Isolate : Live(j)' /\ current'[j].call = c
      BY <1>1, Zenon DEF PromiseKept
    <2>1. CASE c = h.call
      BY <1>8, <2>1, Zenon
    <2>2. CASE c # h.call
      <3>1. Absent(inbox, c)
        BY <1>3, <2>2, Zenon DEF Absent
      <3>2. PICK j \in Isolate : Live(j) /\ current[j].call = c
        BY <3>1, Zenon DEF IInv, PromiseKept
      <3> QED BY <1>8, <3>2, Zenon
    <2> QED BY <2>1, <2>2, Zenon
  <1> QED BY <1>4, <1>5, <1>6, <1>9, <1>10, <1>11, <1>12, Zenon DEF IInv

\* An isolate that runs a task has the only Runnable of its call.
LEMMA OnlyOne ==
  ASSUME IInv, NEW i \in Isolate, Live(i)
  PROVE  /\ current[i] \in Msg /\ current[i].call \in Call
         /\ promise[current[i].call] \in {"pending", "ignored"}
         /\ Absent(inbox, current[i].call)
         /\ \A j \in Isolate : Live(j) /\ j # i => current[j].call # current[i].call
  BY Zenon DEF IInv, OneRunnable, CurrentOK, Live, MsgOK, Msg, Kind, Phase3Kind

\* Phase2 begins.
LEMMA BeginPhase2Inv ==
  ASSUME IInv, NEW i \in Isolate, BeginPhase2(i)
  PROVE  IInv'
  <1>0. PICK c : c = current[i].call
    BY Zenon
  <1>1. /\ env[i] = "run" /\ current[i].kind \in {"Phase2Runner", "Phase2RunnerIgnored"}
        /\ did_run' = [did_run EXCEPT ![c] = TRUE]
        /\ ran' = [ran EXCEPT ![c] = @ + 1]
        /\ env' = [env EXCEPT ![i] = "phase2"]
        /\ UNCHANGED <<holder, terminated, inbox, current, promise, settled, called>>
    BY <1>0, Zenon DEF BeginPhase2
  <1>2. /\ c \in Call /\ Absent(inbox, c) /\ promise[c] \in {"pending", "ignored"} /\ current[i] \in Msg
        /\ \A j \in Isolate : Live(j) /\ j # i => current[j].call # c
    BY <1>0, <1>1, OnlyOne, Zenon DEF Live
  <1>3. ran[c] = 0 /\ (\/ current[i].kind = "Phase2Runner" /\ promise[c] = "pending"
                       \/ current[i].kind = "Phase2RunnerIgnored" /\ promise[c] = "ignored")
    BY <1>0, <1>1, Zenon DEF IInv, CurrentOK, MsgOK
  <1>4. TypeOK'
    BY <1>1, <1>2, <1>3 DEF IInv, TypeOK, Env
  <1>5. FreshCalls' /\ SettledOnce' /\ NoHolder'
    BY <1>1, <1>2, Zenon DEF IInv, FreshCalls, SettledOnce, NoHolder, TypeOK
  <1>6. \A m \in Contents(inbox') : MsgOK(m)'
    BY <1>1, <1>2, QueuedCalls, Zenon DEF IInv, MsgOK, TypeOK, Absent
  <1>7. \A j \in Isolate : Live(j)' <=> Live(j)
    BY <1>1, Zenon DEF Live, IInv, TypeOK
  <1>8. OneRunnable' /\ PromiseKept'
    BY <1>1, <1>7, Zenon DEF IInv, OneRunnable, PromiseKept
  <1>9. AtHome'
    BY <1>1, Zenon DEF IInv, AtHome, TypeOK
  <1>10. CurrentOK'
    <2> SUFFICES ASSUME NEW j \in Isolate PROVE CurrentOK!(j)'
      BY Zenon DEF CurrentOK
    <2>1. CASE j = i
      BY <1>0, <1>1, <1>2, <1>3, <2>1 DEF IInv, TypeOK
    <2>2. CASE j # i
      <3>1. env'[j] = env[j] /\ current'[j] = current[j]
        BY <1>1, <2>2, Zenon DEF IInv, TypeOK
      <3> QED BY <1>1, <1>2, <2>2, <3>1, Zenon DEF IInv, CurrentOK, MsgOK, TypeOK, Live, Msg
    <2> QED BY <2>1, <2>2, Zenon
  <1> QED BY <1>4, <1>5, <1>6, <1>8, <1>9, <1>10, Zenon DEF IInv

\* Phase2 ends, and its result goes back.
LEMMA EndPhase2Inv ==
  ASSUME IInv, NEW i \in Isolate, EndPhase2(i)
  PROVE  IInv'
  <1>0. PICK c : c = current[i].call
    BY Zenon
  <1>1. /\ env[i] = "phase2"
        /\ env' = [env EXCEPT ![i] = "done"]
        /\ UNCHANGED <<holder, terminated, current, did_run, promise, ran, settled, called>>
    BY <1>0, Zenon DEF EndPhase2
  <1>2. /\ c \in Call /\ Absent(inbox, c) /\ current[i] \in Msg /\ inbox \in Boxes
        /\ \A j \in Isolate : Live(j) /\ j # i => current[j].call # c
    BY <1>0, <1>1, OnlyOne, Zenon DEF Live, Boxes, IInv, TypeOK
  <1>3. /\ ran[c] = 1 /\ did_run[c]
        /\ \/ current[i].kind = "Phase2Runner" /\ promise[c] = "pending"
           \/ current[i].kind = "Phase2RunnerIgnored" /\ promise[c] = "ignored"
    BY <1>0, <1>1, Zenon DEF IInv, CurrentOK
  <1>4. PICK k \in {"Phase3Success", "Phase3Failure"} :
          IF current[i].kind = "Phase2Runner"
          THEN inbox' = ScheduleTask(inbox, First[c], M(k, c))
          ELSE inbox' = inbox
    BY <1>0, Zenon DEF EndPhase2
  <1> DEFINE m == M(k, c)
  <1>5. /\ inbox' \in Boxes /\ Unique(inbox') /\ Home(inbox')
        /\ \A x \in Contents(inbox') : x \in Contents(inbox) \/ (x = m /\ promise[c] = "pending")
        /\ Contents(inbox) \subseteq Contents(inbox')
        /\ promise[c] = "pending" /\ holder[First[c]] => m \in Contents(inbox')
    <2>1. CASE current[i].kind = "Phase2Runner"
      <3>1. m \in Msg /\ m.call = c /\ First[c] \in Isolate /\ ~Orphans(m)
        BY <1>2, ThreePhaseAssumption, Zenon DEF M, Msg, Kind, Phase3Kind, Orphans
      <3> HIDE DEF m
      <3>2. /\ inbox' \in Boxes /\ Unique(inbox') /\ Home(inbox')
            /\ holder[First[c]] => Contents(inbox') = Contents(inbox) \cup {m}
            /\ ~holder[First[c]] => inbox' = inbox
        <4>1. inbox' = ScheduleTask(inbox, First[c], m)
          BY <1>4, <2>1, Zenon DEF m
        <4> QED BY <1>2, <3>1, <4>1, ScheduledBox DEF IInv, OneRunnable, AtHome
      <3> QED BY <1>3, <2>1, <3>2, Zenon
    <2>2. CASE current[i].kind # "Phase2Runner"
      BY <1>2, <1>3, <1>4, <2>2, Zenon DEF IInv, OneRunnable, AtHome
    <2> QED BY <2>1, <2>2, Zenon
  <1>6. m.call = c /\ m.kind = k
    BY Zenon DEF M
  <1> HIDE DEF m
  <1>7. TypeOK'
    BY <1>1, <1>5, Zenon DEF IInv, TypeOK, Env, Boxes
  <1>8. FreshCalls' /\ SettledOnce' /\ NoHolder'
    BY <1>1, Zenon DEF IInv, FreshCalls, SettledOnce, NoHolder, TypeOK
  <1>9. ASSUME NEW x \in Contents(inbox') PROVE MsgOK(x)'
    BY <1>1, <1>3, <1>5, <1>6, Zenon DEF IInv, MsgOK
  <1>10. /\ ~Live(i)'
         /\ \A j \in Isolate : j # i => (Live(j)' <=> Live(j)) /\ env'[j] = env[j]
    BY <1>1, Zenon DEF Live, IInv, TypeOK
  <1>11. OneRunnable'
    <2>1. ASSUME NEW j \in Isolate, Live(j)' PROVE Absent(inbox', current[j].call)
      BY <1>2, <1>5, <1>6, <1>10, <2>1, Zenon DEF IInv, OneRunnable, Absent
    <2> QED BY <1>1, <1>5, <1>10, <2>1, Zenon DEF IInv, OneRunnable
  <1>12. AtHome'
    BY <1>1, <1>5, Zenon DEF IInv, AtHome, TypeOK
  <1>13. CurrentOK'
    <2> SUFFICES ASSUME NEW j \in Isolate PROVE CurrentOK!(j)'
      BY Zenon DEF CurrentOK
    <2>1. CASE j = i
      BY <1>0, <1>1, <1>2, <1>3, <2>1, Zenon DEF IInv, TypeOK
    <2>2. CASE j # i
      BY <1>1, <1>10, <2>2 DEF IInv, CurrentOK, MsgOK
    <2> QED BY <2>1, <2>2, Zenon
  <1>14. PromiseKept'
    <2> SUFFICES ASSUME NEW d \in Call, promise[d] = "pending", holder[First[d]], Absent(inbox', d)
                 PROVE  \E j \in Isolate : Live(j)' /\ current[j].call = d
      BY <1>1, Zenon DEF PromiseKept
    <2>1. d # c /\ Absent(inbox, d)
      BY <1>5, <1>6, Zenon DEF Absent
    <2>2. PICK j \in Isolate : Live(j) /\ current[j].call = d
      BY <2>1, Zenon DEF IInv, PromiseKept
    <2> QED BY <1>0, <1>10, <2>1, <2>2, Zenon
  <1> QED BY <1>7, <1>8, <1>9, <1>11, <1>12, <1>13, <1>14, Zenon DEF IInv

\* A Phase3 settles the promise.
LEMMA Phase3Inv ==
  ASSUME IInv, NEW i \in Isolate, Phase3(i)
  PROVE  IInv'
  <1>0. PICK c : c = current[i].call
    BY Zenon
  <1>1. /\ env[i] = "run" /\ current[i].kind \in Phase3Kind
        /\ settled' = [settled EXCEPT ![c] = @ + 1]
        /\ env' = [env EXCEPT ![i] = "done"]
        /\ UNCHANGED <<holder, terminated, inbox, current, did_run, ran, called>>
    BY <1>0, Zenon DEF Phase3
  <1>2. PICK r \in Final : promise' = [promise EXCEPT ![c] = r]
    BY <1>0, Zenon DEF Phase3, Settled, Final, Phase3Kind
  <1>3. /\ c \in Call /\ Absent(inbox, c) /\ current[i] \in Msg /\ promise[c] = "pending"
        /\ \A j \in Isolate : Live(j) /\ j # i => current[j].call # c
    BY <1>0, <1>1, OnlyOne, Zenon DEF Live, IInv, CurrentOK, MsgOK, Phase3Kind
  <1>4. TypeOK'
    BY <1>1, <1>2, <1>3 DEF IInv, TypeOK, Env, Promise, Final
  <1>5. FreshCalls' /\ SettledOnce' /\ NoHolder'
    BY <1>1, <1>2, <1>3 DEF IInv, FreshCalls, SettledOnce, NoHolder, TypeOK, Final
  <1>6. \A m \in Contents(inbox') : MsgOK(m)'
    BY <1>1, <1>2, <1>3, QueuedCalls, Zenon DEF IInv, MsgOK, TypeOK, Absent
  <1>7. /\ ~Live(i)'
        /\ \A j \in Isolate : j # i => (Live(j)' <=> Live(j)) /\ env'[j] = env[j]
    BY <1>1, Zenon DEF Live, IInv, TypeOK
  <1>8. OneRunnable' /\ AtHome'
    <2>1. OneRunnable'
      BY <1>1, <1>7, Zenon DEF IInv, OneRunnable
    <2>2. AtHome'
      BY <1>1, <1>7, Zenon DEF IInv, AtHome
    <2> QED BY <2>1, <2>2, Zenon
  <1>9. CurrentOK'
    <2> SUFFICES ASSUME NEW j \in Isolate PROVE CurrentOK!(j)'
      BY Zenon DEF CurrentOK
    <2>1. CASE j = i
      BY <1>1, <1>3, <2>1, Zenon DEF IInv, TypeOK, Phase3Kind
    <2>2. CASE j # i
      BY <1>1, <1>2, <1>3, <1>7, <2>2 DEF IInv, CurrentOK, MsgOK, TypeOK, Live, Msg
    <2> QED BY <2>1, <2>2, Zenon
  <1>10. PromiseKept'
    <2> SUFFICES ASSUME NEW d \in Call, promise'[d] = "pending", holder[First[d]], Absent(inbox, d)
                 PROVE  \E j \in Isolate : Live(j)' /\ current[j].call = d
      BY <1>1, Zenon DEF PromiseKept
    <2>1. d # c /\ promise[d] = "pending"
      BY <1>2, <1>3, Zenon DEF IInv, TypeOK, Final
    <2>2. PICK j \in Isolate : Live(j) /\ current[j].call = d
      BY <2>1, Zenon DEF IInv, PromiseKept
    <2> QED BY <1>0, <1>7, <2>1, <2>2, Zenon
  <1> QED BY <1>4, <1>5, <1>6, <1>8, <1>9, <1>10, Zenon DEF IInv

\* The isolate that swallows an error has no holder any more.
LEMMA Phase3SwallowedInv ==
  ASSUME IInv, NEW i \in Isolate, Phase3Swallowed(i)
  PROVE  IInv'
  <1>1. /\ env[i] = "run" /\ current[i].kind = "Phase3Success" /\ terminated[i]
        /\ env' = [env EXCEPT ![i] = "done"]
        /\ UNCHANGED <<holder, terminated, inbox, current, did_run, promise, ran, settled, called>>
    BY Zenon DEF Phase3Swallowed
  <1>2. First[current[i].call] = i /\ ~holder[i]
    BY <1>1, Zenon DEF IInv, AtHome, NoHolder, Phase3Kind
  <1>3. TypeOK'
    BY <1>1, Zenon DEF IInv, TypeOK, Env
  <1>4. FreshCalls' /\ SettledOnce' /\ NoHolder'
    BY <1>1, Zenon DEF IInv, FreshCalls, SettledOnce, NoHolder, TypeOK
  <1>5. \A m \in Contents(inbox') : MsgOK(m)'
    BY <1>1, Zenon DEF IInv, MsgOK
  <1>6. /\ ~Live(i)'
        /\ \A j \in Isolate : j # i => (Live(j)' <=> Live(j)) /\ env'[j] = env[j]
    BY <1>1, Zenon DEF Live, IInv, TypeOK
  <1>7. OneRunnable' /\ AtHome'
    BY <1>1, <1>6, Zenon DEF IInv, OneRunnable, AtHome
  <1>8. CurrentOK'
    <2> SUFFICES ASSUME NEW j \in Isolate PROVE CurrentOK!(j)'
      BY Zenon DEF CurrentOK
    <2>1. CASE j = i
      BY <1>1, <2>1, Zenon DEF IInv, TypeOK, CurrentOK
    <2>2. CASE j # i
      <3>1. env'[j] = env[j] /\ current'[j] = current[j]
        BY <1>1, <1>6, <2>2, Zenon
      <3>2. CurrentOK!(j)
        BY Zenon DEF IInv, CurrentOK
      <3> QED BY <1>1, <3>1, <3>2, Zenon DEF MsgOK
    <2> QED BY <2>1, <2>2, Zenon
  <1>9. PromiseKept'
    BY <1>1, <1>2, <1>6 DEF IInv, PromiseKept
  <1> QED BY <1>3, <1>4, <1>5, <1>7, <1>8, <1>9, Zenon DEF IInv

\* A Runnable that was run is destroyed.
LEMMA EndTaskInv ==
  ASSUME IInv, NEW i \in Isolate, EndTask(i)
  PROVE  IInv'
  <1>1. /\ env[i] = "done"
        /\ inbox' = Destroyed(inbox, current[i])
        /\ current' = [current EXCEPT ![i] = NoMsg]
        /\ env' = [env EXCEPT ![i] = IF terminated[i] THEN "drop" ELSE "idle"]
        /\ UNCHANGED <<holder, terminated, did_run, promise, ran, settled, called>>
    BY Zenon DEF EndTask
  <1>2. inbox' = inbox
    BY <1>1, Zenon DEF IInv, CurrentOK, Destroyed, Orphans
  <1>3. TypeOK'
    BY <1>1, <1>2, Zenon DEF IInv, TypeOK, Env
  <1>4. FreshCalls' /\ SettledOnce' /\ NoHolder'
    BY <1>1, Zenon DEF IInv, FreshCalls, SettledOnce, NoHolder, TypeOK
  <1>5. \A m \in Contents(inbox') : MsgOK(m)'
    BY <1>1, <1>2, Zenon DEF IInv, MsgOK
  <1>6. /\ ~Live(i) /\ ~Live(i)' /\ env'[i] \in {"idle", "drop"}
        /\ \A j \in Isolate : j # i =>
             (Live(j)' <=> Live(j)) /\ env'[j] = env[j] /\ current'[j] = current[j]
    BY <1>1, Zenon DEF Live, IInv, TypeOK
  <1>7. OneRunnable' /\ AtHome'
    BY <1>2, <1>6 DEF IInv, OneRunnable, AtHome
  <1>8. CurrentOK'
    <2> SUFFICES ASSUME NEW j \in Isolate
                 PROVE  CurrentOK!(j)'
      BY Zenon DEF CurrentOK
    <2>1. CASE j = i
      BY <1>6, <2>1, Zenon
    <2>2. CASE j # i
      <3>1. env'[j] = env[j] /\ current'[j] = current[j]
        BY <1>6, <2>2, Zenon
      <3>2. CurrentOK!(j)
        BY Zenon DEF IInv, CurrentOK
      <3> QED BY <1>1, <3>1, <3>2, Zenon DEF MsgOK
    <2> QED BY <2>1, <2>2, Zenon
  <1>9. PromiseKept'
    BY <1>1, <1>2, <1>6 DEF IInv, PromiseKept
  <1> QED BY <1>3, <1>4, <1>5, <1>7, <1>8, <1>9, Zenon DEF IInv

\* A Runnable that was not run is destroyed: what is left of it is an orphan.
LEMMA DropTaskInv ==
  ASSUME IInv, NEW i \in Isolate, DropTask(i)
  PROVE  IInv'
  <1>0. PICK h : h = Head(inbox[i])
    BY Zenon
  <1>00. PICK rest : rest = [inbox EXCEPT ![i] = Tail(@)]
    BY Zenon
  <1>1. /\ env[i] = "drop" /\ inbox[i] # <<>>
        /\ inbox' = Destroyed(rest, h)
        /\ UNCHANGED <<holder, terminated, env, current, did_run, promise, ran, settled, called>>
    BY <1>0, <1>00, Zenon DEF DropTask
  <1>2. inbox \in Boxes /\ ~holder[i]
    BY <1>1, Zenon DEF IInv, TypeOK, Boxes, NoHolder
  <1>3. /\ rest \in Boxes /\ h \in Msg /\ h \in Contents(inbox)
        /\ Contents(inbox) = Contents(rest) \cup {h}
        /\ Unique(rest) /\ Absent(rest, h.call)
        /\ Home(rest) /\ (h.kind \in Phase3Kind => First[h.call] = i)
    BY <1>0, <1>00, <1>1, <1>2, TailBox, Zenon DEF IInv, OneRunnable, AtHome
  <1>4. /\ inbox' \in Boxes /\ Unique(inbox') /\ Home(inbox')
        /\ Orphans(h) /\ holder[First[h.call]] =>
             Contents(inbox') = Contents(rest) \cup {Orphan(h.call)}
        /\ ~(Orphans(h) /\ holder[First[h.call]]) => inbox' = rest
    BY <1>1, <1>3, DestroyedBox, Zenon DEF IInv
  <1>5. Orphan(h.call).call = h.call /\ Orphan(h.call).kind = "Phase3Orphan"
    BY Zenon DEF Orphan, M
  <1>6. MsgOK(h)
    BY <1>3, Zenon DEF IInv
  <1>7. /\ Contents(rest) \subseteq Contents(inbox')
        /\ \A x \in Contents(inbox') : x \in Contents(rest) \/ (x = Orphan(h.call) /\ Orphans(h))
    BY <1>4, Zenon
  <1>8. TypeOK'
    BY <1>1, <1>4, Zenon DEF IInv, TypeOK, Boxes
  <1>9. FreshCalls' /\ SettledOnce' /\ NoHolder'
    BY <1>1, Zenon DEF IInv, FreshCalls, SettledOnce, NoHolder
  <1>10. ASSUME NEW x \in Contents(inbox') PROVE MsgOK(x)'
    BY <1>1, <1>3, <1>5, <1>6, <1>7, Zenon DEF IInv, MsgOK, Orphans
  <1>11. OneRunnable'
    <2>1. ASSUME NEW j \in Isolate, Live(j) PROVE Absent(inbox', current[j].call)
      <3>1. \A x \in Contents(inbox) : x.call # current[j].call
        BY <2>1, Zenon DEF IInv, OneRunnable, Absent
      <3> QED BY <1>3, <1>5, <1>7, <3>1, Zenon DEF Absent
    <2> QED BY <1>1, <1>4, <2>1, Zenon DEF IInv, OneRunnable, Live
  <1>12. AtHome'
    BY <1>1, <1>4, Zenon DEF IInv, AtHome
  <1>13. CurrentOK'
    BY <1>1, Zenon DEF IInv, CurrentOK, MsgOK
  <1>14. PromiseKept'
    <2> SUFFICES ASSUME NEW d \in Call, promise[d] = "pending", holder[First[d]], Absent(inbox', d)
                 PROVE  \E j \in Isolate : Live(j) /\ current[j].call = d
      BY <1>1, Zenon DEF PromiseKept, Live
    <2>1. CASE d = h.call
      <3>1. h.kind = "Phase2Runner" /\ Orphans(h)
        BY <1>2, <1>3, <1>6, <2>1, Zenon DEF MsgOK, Orphans, Msg, Kind
      <3>2. Orphan(d) \in Contents(inbox')
        BY <1>4, <2>1, <3>1, Zenon
      <3> QED BY <1>5, <2>1, <3>2, Zenon DEF Absent
    <2>2. CASE d # h.call
      <3>1. Absent(inbox, d)
        BY <1>3, <1>7, <2>2, Zenon DEF Absent
      <3> QED BY <3>1, Zenon DEF IInv, PromiseKept
    <2> QED BY <2>1, <2>2, Zenon
  <1> QED BY <1>8, <1>9, <1>10, <1>11, <1>12, <1>13, <1>14, Zenon DEF IInv

Busy == {"run", "phase2", "done"}

\* Steps that only move holders and isolates that run no task.
LEMMA LifecycleInv ==
  ASSUME IInv, UNCHANGED <<inbox, current, did_run, promise, ran, settled, called>>,
         TypeOK', NoHolder', \A i \in Isolate : holder'[i] => holder[i],
         \A i \in Isolate : env[i] \in Busy \/ env'[i] \in Busy => env'[i] = env[i]
  PROVE  IInv'
  <1>1. \A i \in Isolate : Live(i)' <=> Live(i)
    BY Zenon DEF Live, Busy
  <1>2. OneRunnable' /\ AtHome'
    BY <1>1, Zenon DEF IInv, OneRunnable, AtHome, Busy
  <1>3. CurrentOK'
    BY DEF IInv, CurrentOK, MsgOK, Busy
  <1>4. PromiseKept'
    BY <1>1, ThreePhaseAssumption, Zenon DEF IInv, PromiseKept
  <1>5. FreshCalls' /\ SettledOnce' /\ \A m \in Contents(inbox') : MsgOK(m)'
    BY Zenon DEF IInv, FreshCalls, SettledOnce, MsgOK
  <1> QED BY <1>2, <1>3, <1>4, <1>5, Zenon DEF IInv

\* Terminate, Release and Destroy.
LEMMA DisposeInv ==
  ASSUME IInv, NEW i \in Isolate, Terminate(i) \/ Release(i) \/ Destroy(i)
  PROVE  IInv'
  <1>1. UNCHANGED <<inbox, current, did_run, promise, ran, settled, called>>
    BY Zenon DEF Terminate, Release, Destroy
  <1>2. TypeOK'
    BY Zenon DEF Terminate, Release, Destroy, IInv, TypeOK, Env
  <1>3. NoHolder'
    BY Zenon DEF Terminate, Release, Destroy, IInv, NoHolder, TypeOK
  <1>4. \A j \in Isolate : holder'[j] => holder[j]
    BY Zenon DEF Terminate, Release, Destroy, IInv, TypeOK
  <1>5. \A j \in Isolate : env[j] \in Busy \/ env'[j] \in Busy => env'[j] = env[j]
    BY Zenon DEF Terminate, Release, Destroy, IInv, TypeOK, Busy
  <1> QED BY <1>1, <1>2, <1>3, <1>4, <1>5, LifecycleInv, Zenon

\* The end of the node environment.
LEMMA CleanupInv ==
  ASSUME IInv, CleanupHook \/ CloseDefault \/ JoinAll
  PROVE  IInv'
  <1>1. UNCHANGED <<inbox, current, did_run, promise, ran, settled, called>>
    BY Zenon DEF CleanupHook, CloseDefault, JoinAll
  <1>2. TypeOK'
    BY ThreePhaseAssumption, Zenon DEF CleanupHook, CloseDefault, JoinAll, IInv, TypeOK, Env
  <1>3. NoHolder'
    <2>1. CASE CleanupHook \/ JoinAll
      BY <2>1, ThreePhaseAssumption DEF CleanupHook, JoinAll, IInv, NoHolder, TypeOK
    <2>2. CASE CloseDefault
      <3> SUFFICES ASSUME NEW i \in Isolate
                   PROVE  (env'[i] = "drop" => terminated'[i]) /\ ~holder'[i]
        BY Zenon DEF NoHolder
      <3>1. ~holder'[i]
        BY <2>2, Zenon DEF CloseDefault
      <3>2. terminated[i] => terminated'[i]
        BY <2>2, Zenon DEF CloseDefault
      <3>3. env'[i] = "drop" => env[i] = "drop"
        BY <2>2, ThreePhaseAssumption, Zenon DEF CloseDefault, IInv, TypeOK
      <3> QED BY <3>1, <3>2, <3>3, Zenon DEF IInv, NoHolder
    <2> QED BY <2>1, <2>2, Zenon
  <1>4. \A j \in Isolate : holder'[j] => holder[j]
    BY ThreePhaseAssumption, Zenon DEF CleanupHook, CloseDefault, JoinAll, IInv, TypeOK
  <1>5. \A j \in Isolate : env[j] \in Busy \/ env'[j] \in Busy => env'[j] = env[j]
    BY ThreePhaseAssumption, Zenon DEF CleanupHook, CloseDefault, JoinAll, IInv, TypeOK, Busy
  <1> QED BY <1>1, <1>2, <1>3, <1>4, <1>5, LifecycleInv, Zenon

\* The first state.
LEMMA InitInv == Init => IInv
  <1> SUFFICES ASSUME Init PROVE IInv
    BY Zenon
  <1>1. TypeOK
    BY DEF Init, TypeOK, Env, Promise
  <1>2. \A i \in Isolate : DOMAIN inbox[i] = {}
    BY DEF Init
  <1>3. Contents(inbox) = {} /\ Unique(inbox) /\ Home(inbox)
    BY <1>2, Zenon DEF Contents, Unique, Home
  <1>4. OneRunnable /\ AtHome /\ CurrentOK /\ NoHolder
    BY <1>3, Zenon DEF Init, OneRunnable, AtHome, CurrentOK, NoHolder, Live
  <1>5. FreshCalls /\ SettledOnce /\ PromiseKept
    BY Zenon DEF Init, FreshCalls, SettledOnce, PromiseKept, Final
  <1> QED BY <1>1, <1>3, <1>4, <1>5, Zenon DEF IInv

\* Every step.
LEMMA NextInv == IInv /\ [Next]_vars => IInv'
  <1> SUFFICES ASSUME IInv, [Next]_vars PROVE IInv'
    BY Zenon
  <1>1. CASE \E i \in Isolate : Work(i)
    BY <1>1, BeginTaskInv, BeginPhase2Inv, EndPhase2Inv, Phase3Inv, Phase3SwallowedInv,
       EndTaskInv, DropTaskInv, DisposeInv, Zenon DEF Work
  <1>2. CASE \E i \in Isolate : Terminate(i) \/ Release(i)
    BY <1>2, DisposeInv, Zenon
  <1>3. CASE \E c \in Call : Run(c) \/ RunThrows(c)
    BY <1>3, RunInv, RunThrowsInv, Zenon
  <1>4. CASE CleanupHook \/ CloseDefault \/ JoinAll
    BY <1>4, CleanupInv, Zenon
  <1>5. CASE UNCHANGED vars
    <2>1. TypeOK' /\ NoHolder' /\ \A i \in Isolate : holder'[i] = holder[i] /\ env'[i] = env[i]
      BY <1>5, Zenon DEF vars, IInv, TypeOK, NoHolder
    <2>2. UNCHANGED <<inbox, current, did_run, promise, ran, settled, called>>
      BY <1>5, Zenon DEF vars
    <2> QED BY <2>1, <2>2, LifecycleInv, Zenon
  <1> QED BY <1>1, <1>2, <1>3, <1>4, <1>5, Zenon DEF Next

\* IInv holds in every reachable state.
THEOREM Inductive == Spec => []IInv
  BY InitInv, NextInv, PTL DEF Spec

\* Every variable has its type.
THEOREM TypeCorrect == Spec => []TypeOK
  <1>1. IInv => TypeOK
    BY Zenon DEF IInv
  <1> QED BY <1>1, Inductive, PTL

\* At most one Runnable, queued or running, has something left to do for a call.
THEOREM NoTwoRunnables == Spec => []OneRunnable
  <1>1. IInv => OneRunnable
    BY Zenon DEF IInv
  <1> QED BY <1>1, Inductive, PTL

\* No promise is settled twice.
THEOREM NoSecondSettlement == Spec => []SettledOnce
  <1>1. IInv => SettledOnce
    BY Zenon DEF IInv
  <1> QED BY <1>1, Inductive, PTL

\* While the calling isolate has its holder, a pending promise has a Runnable
\* that will settle it, whatever was disposed.
THEOREM NoPromiseForgotten == Spec => []PromiseKept
  <1>1. IInv => PromiseKept
    BY Zenon DEF IInv
  <1> QED BY <1>1, Inductive, PTL

\* A step of the isolates is a step of AsyncCall, or none.
LEMMA StepRefines == IInv /\ [Next]_vars => [Promises!ANext]_(Promises!absVars)
  <1> SUFFICES ASSUME IInv, [Next]_vars, ~UNCHANGED <<promise, ran>>
               PROVE  Promises!ANext
    BY Zenon DEF Promises!absVars
  <1>1. ASSUME NEW c \in Call, Run(c) PROVE Promises!AMake(c)
    BY <1>1, Zenon DEF Run, Promises!AMake
  <1>2. ASSUME NEW c \in Call, RunThrows(c) PROVE Promises!AThrow(c)
    BY <1>2, Zenon DEF RunThrows, Promises!AThrow
  <1>3. ASSUME NEW i \in Isolate, BeginPhase2(i)
        PROVE  \E c \in Call : Promises!ARun(c)
    <2>1. PICK c : c = current[i].call
      BY Zenon
    <2>2. c \in Call /\ promise[c] \in {"pending", "ignored"} /\ ran[c] = 0
      BY <1>3, <2>1, OnlyOne, ZenonT(30) DEF BeginPhase2, Live, IInv, CurrentOK, MsgOK
    <2>3. ran' = [ran EXCEPT ![c] = 1] /\ UNCHANGED promise
      BY <1>3, <2>1, <2>2 DEF BeginPhase2
    <2> QED BY <2>2, <2>3, Zenon DEF Promises!ARun
  <1>4. ASSUME NEW i \in Isolate, Phase3(i)
        PROVE  \E c \in Call : Promises!ASettle(c) \/ Promises!AOrphan(c)
    <2>1. PICK c : c = current[i].call
      BY Zenon
    <2>2. c \in Call /\ env[i] = "run" /\ current[i].kind \in Phase3Kind /\ MsgOK(current[i])
      BY <1>4, <2>1, OnlyOne, Zenon DEF Phase3, Live, IInv, CurrentOK
    <2>3. CASE current[i].kind = "Phase3Orphan"
      BY <1>4, <2>1, <2>2, <2>3, Zenon DEF Phase3, Settled, MsgOK, Promises!AOrphan
    <2>4. CASE current[i].kind # "Phase3Orphan"
      <3>1. promise[c] = "pending" /\ ran[c] = 1
        BY <2>1, <2>2, <2>4, Zenon DEF MsgOK, Phase3Kind
      <3>2. PICK r \in {"resolved", "rejected"} : promise' = [promise EXCEPT ![c] = r]
        BY <1>4, <2>1, <2>2, <2>4, ZenonT(30) DEF Phase3, Settled, Phase3Kind
      <3> QED BY <1>4, <2>2, <3>1, <3>2, Zenon DEF Phase3, Promises!ASettle
    <2> QED BY <2>3, <2>4, Zenon
  <1>5. ASSUME NEW i \in Isolate,
               \/ BeginTask(i) \/ EndPhase2(i) \/ Phase3Swallowed(i) \/ EndTask(i)
               \/ DropTask(i) \/ Destroy(i) \/ Terminate(i) \/ Release(i)
        PROVE  FALSE
    BY <1>5, Zenon DEF BeginTask, EndPhase2, Phase3Swallowed, EndTask, DropTask, Destroy, Terminate,
                Release
  <1>6. ~(CleanupHook \/ CloseDefault \/ JoinAll \/ UNCHANGED vars)
    BY Zenon DEF CleanupHook, CloseDefault, JoinAll, vars
  <1> QED BY <1>1, <1>2, <1>3, <1>4, <1>5, <1>6, Zenon DEF Next, Work, Promises!ANext

\* The isolates, their queues and the destructors of Runnables implement the
\* promise that AsyncCall makes to a caller.
THEOREM Refinement == Spec => ImplementsAsyncCall
  <1>1. Init => Promises!AInit
    BY Zenon DEF Init, Promises!AInit
  <1> QED BY <1>1, StepRefines, Inductive, PTL DEF Spec, ImplementsAsyncCall, Promises!ASpec
------------------------------------------------------------------------------
(***************************************************************************)
(* The calls that one isolate makes to another begin in the order in which *)
(* they were made (CallOrder of ThreePhaseTask), for any isolates and any  *)
(* calls. Phase2 of a call that was scheduled is found in one of three     *)
(* places, until the isolate takes no more tasks: it has begun, it is the  *)
(* task about to begin, or it is in the inbox, behind Phase2 of every      *)
(* earlier call that has not begun either.                                 *)
(***************************************************************************)
Phase2Kind == {"Phase2Runner", "Phase2RunnerIgnored"}

\* The Runnable m is Phase2 of call c, and isolate i is about to begin it.
IsPhase2(m, c) == m.kind \in Phase2Kind /\ m.call = c
Starting(i, c) == env[i] = "run" /\ IsPhase2(current[i], c)

\* Phase2 of call c comes before what is at place q of the inbox of isolate i.
Ahead(i, c, q) ==
  \/ ran[c] > 0
  \/ Starting(i, c)
  \/ \E p \in 1..Len(inbox[i]) : p < q /\ IsPhase2(inbox[i][p], c)

\* Phase2 is only ever in the isolate that is called.
Phase2Home(i) ==
  /\ \A q \in 1..Len(inbox[i]) :
       inbox[i][q].kind \in Phase2Kind => Second[inbox[i][q].call] = i
  /\ env[i] = "run" /\ current[i].kind \in Phase2Kind => Second[current[i].call] = i

\* An isolate that takes tasks has lost no call ...
NoneLost(i) ==
  \A j \in 1..Len(called) :
    Second[called[j]] = i /\ holder[i] => Ahead(i, called[j], Len(inbox[i]) + 1)

\* ... and what it begins, or will begin, comes after the earlier calls.
InTurn(i) ==
  \A j, k \in 1..Len(called) :
    j < k /\ Second[called[j]] = i /\ Second[called[k]] = i =>
      /\ ran[called[k]] > 0 \/ Starting(i, called[k]) => ran[called[j]] > 0
      /\ env[i] \notin {"drop", "dead"} =>
           \A q \in 1..Len(inbox[i]) :
             IsPhase2(inbox[i][q], called[k]) => Ahead(i, called[j], q)

OrderInv ==
  /\ \A i \in Isolate : Phase2Home(i) /\ NoneLost(i) /\ InTurn(i)
  /\ \A j \in 1..Len(called) : promise[called[j]] # "none"

\* The inbox t is s, and nothing of Phase2 behind it.
Longer(s, t) ==
  /\ Len(s) \in Nat /\ Len(t) \in Nat /\ Len(s) <= Len(t)
  /\ \A q \in 1..Len(s) : t[q] = s[q]
  /\ \A q \in 1..Len(t) : q > Len(s) => t[q].kind \notin Phase2Kind

\* The destructor of a Runnable puts nothing of Phase2 into an inbox ...
LEMMA DestroyedLonger ==
  ASSUME NEW box \in Boxes, NEW m \in Msg, NEW i \in Isolate
  PROVE  Longer(box[i], Destroyed(box, m)[i])
  <1> DEFINE f == First[m.call]
             o == M("Phase3Orphan", m.call)
  <1>1. f \in Isolate /\ o \in Msg /\ o.kind \notin Phase2Kind
    BY ThreePhaseAssumption, Zenon DEF Msg, M, Kind, Phase3Kind, Phase2Kind
  <1>2. Destroyed(box, m) = box \/ Destroyed(box, m) = [box EXCEPT ![f] = Append(box[f], o)]
    BY Zenon DEF Destroyed, Push
  <1> HIDE DEF f, o
  <1>3. box[i] \in Seq(Msg) /\ box[f] \in Seq(Msg)
    BY <1>1, Zenon DEF Boxes
  <1>4. Longer(box[i], box[i])
    BY <1>3 DEF Longer
  <1>5. Longer(box[f], Append(box[f], o))
    BY <1>1, <1>3 DEF Longer
  <1> QED BY <1>1, <1>2, <1>4, <1>5, Zenon DEF Boxes

\* ... and neither does the end of Phase2.
LEMMA ScheduledLonger ==
  ASSUME NEW box \in Boxes, NEW m \in Msg, m.kind \in Phase3Kind, NEW h \in Isolate, NEW i \in Isolate
  PROVE  Longer(box[i], ScheduleTask(box, h, m)[i])
  <1>1. CASE holder[h]
    <2>1. ScheduleTask(box, h, m) = [box EXCEPT ![h] = Append(box[h], m)]
      BY <1>1, Zenon DEF ScheduleTask, Push
    <2>2. box[i] \in Seq(Msg) /\ box[h] \in Seq(Msg)
      BY Zenon DEF Boxes
    <2>3. Longer(box[i], box[i])
      BY <2>2 DEF Longer
    <2>4. Longer(box[h], Append(box[h], m))
      BY <2>2 DEF Longer, Phase2Kind, Phase3Kind
    <2> QED BY <2>1, <2>3, <2>4, Zenon DEF Boxes
  <1>2. CASE ~holder[h]
    BY <1>2, DestroyedLonger, Zenon DEF ScheduleTask
  <1> QED BY <1>1, <1>2, Zenon

\* The places of an inbox, and the calls that were made.
LEMMA OrderTypes ==
  ASSUME TypeOK
  PROVE  /\ inbox \in Boxes /\ Len(called) \in Nat
         /\ \A j \in 1..Len(called) : called[j] \in Call
         /\ \A i \in Isolate : /\ Len(inbox[i]) \in Nat /\ inbox[i] \in Seq(Msg)
                               /\ \A q \in 1..Len(inbox[i]) : inbox[i][q] \in Msg
         /\ \A c \in Call : ran[c] \in Nat
  BY DEF TypeOK, Boxes

\* What the steps that begin no task and no Phase2 of isolate i leave alone.
LeavesAlone(i) ==
  /\ \A c \in Call : Second[c] = i => ran'[c] = ran[c]
  /\ \A j \in 1..Len(called') :
       Second[called'[j]] = i => j \in 1..Len(called) /\ called'[j] = called[j]
  /\ holder'[i] => holder[i]
  /\ env[i] \in {"drop", "dead"} => env'[i] \in {"drop", "dead"}
  /\ env[i] = "run" /\ current[i].kind \in Phase2Kind =>
       env'[i] = "run" /\ current'[i] = current[i]
  /\ env'[i] = "run" => env[i] = "run" /\ current'[i] = current[i]

\* Such a step preserves the order in the isolate, if it adds no Phase2.
LEMMA QuietKeeps ==
  ASSUME TypeOK, NEW i \in Isolate, Phase2Home(i), NoneLost(i), InTurn(i),
         LeavesAlone(i), Longer(inbox[i], inbox'[i])
  PROVE  Phase2Home(i)' /\ NoneLost(i)' /\ InTurn(i)'
  <1>1. Phase2Home(i)'
    BY DEF Phase2Home, LeavesAlone, Longer
  <1>2. \A c : Starting(i, c)' <=> Starting(i, c)
    BY Zenon DEF Starting, IsPhase2, LeavesAlone
  <1>3. ASSUME NEW c \in Call, Second[c] = i, NEW q \in Nat, NEW r \in Nat, q <= r, Ahead(i, c, q)
        PROVE  Ahead(i, c, r)'
    <2>1. CASE ran[c] > 0
      BY <1>3, <2>1, Zenon DEF Ahead, LeavesAlone
    <2>2. CASE Starting(i, c)
      BY <1>2, <2>2, Zenon DEF Ahead
    <2>3. ASSUME NEW p \in 1..Len(inbox[i]), p < q, IsPhase2(inbox[i][p], c)
          PROVE  Ahead(i, c, r)'
      <3>1. p \in 1..Len(inbox'[i]) /\ p < r /\ inbox'[i][p] = inbox[i][p]
        BY <1>3, <2>3 DEF Longer
      <3> QED BY <2>3, <3>1, Zenon DEF Ahead, IsPhase2
    <2> QED BY <1>3, <2>1, <2>2, <2>3, Zenon DEF Ahead
  <1>4. \A j \in 1..Len(called) : called[j] \in Call
    BY OrderTypes, Zenon
  <1>5. NoneLost(i)'
    <2> SUFFICES ASSUME NEW j \in 1..Len(called'), Second[called'[j]] = i, holder'[i]
                 PROVE  Ahead(i, called[j], Len(inbox[i]) + 1)'
      BY Zenon DEF NoneLost
    <2>1. j \in 1..Len(called) /\ called'[j] = called[j] /\ holder[i]
      BY Zenon DEF LeavesAlone
    <2>2. PICK c \in Call : c = called[j] /\ Second[c] = i
      BY <1>4, <2>1, Zenon
    <2>3. PICK q \in Nat, r \in Nat : q = Len(inbox[i]) + 1 /\ r = Len(inbox'[i]) + 1 /\ q <= r
      BY DEF Longer
    <2>4. Ahead(i, c, q)
      BY <2>1, <2>2, <2>3, Zenon DEF NoneLost
    <2>5. Ahead(i, c, r)'
      BY <1>3, <2>2, <2>3, <2>4, Zenon
    <2> QED BY <2>1, <2>2, <2>3, <2>5, Zenon DEF Ahead, Starting
  <1>6. InTurn(i)'
    <2> SUFFICES ASSUME NEW j \in 1..Len(called'), NEW k \in 1..Len(called'), j < k,
                        Second[called'[j]] = i, Second[called'[k]] = i
                 PROVE  (InTurn(i)!(j, k)!2)'
      BY Zenon DEF InTurn
    <2>1. PICK c \in Call, d \in Call :
            /\ j \in 1..Len(called) /\ called'[j] = c /\ called[j] = c /\ Second[c] = i
            /\ k \in 1..Len(called) /\ called'[k] = d /\ called[k] = d /\ Second[d] = i
      BY <1>4 DEF LeavesAlone
    <2>2. ran'[c] = ran[c] /\ ran'[d] = ran[d]
      BY <2>1, Zenon DEF LeavesAlone
    <2>3. ran'[d] > 0 \/ Starting(i, d)' => ran'[c] > 0
      <3>1. ran[d] > 0 \/ Starting(i, d) => ran[c] > 0
        BY <2>1, Zenon DEF InTurn
      <3> QED BY <1>2, <2>2, <3>1, Zenon
    <2>4. ASSUME env'[i] \notin {"drop", "dead"}, NEW q \in 1..Len(inbox'[i]),
                 IsPhase2(inbox'[i][q], d)
          PROVE  Ahead(i, c, q)'
      <3>1. env[i] \notin {"drop", "dead"}
        BY <2>4, Zenon DEF LeavesAlone
      <3>2. q \in 1..Len(inbox[i]) /\ IsPhase2(inbox[i][q], d) /\ q \in Nat /\ q <= q
        BY <2>4 DEF Longer, IsPhase2
      <3>3. Ahead(i, c, q)
        BY <2>1, <3>1, <3>2, Zenon DEF InTurn
      <3> QED BY <1>3, <2>1, <3>2, <3>3, Zenon
    <2> QED BY <2>1, <2>3, <2>4, Zenon DEF Starting, Ahead
  <1> QED BY <1>1, <1>5, <1>6, Zenon

\* A task leaves the inbox: Phase2 of every earlier call has begun.
LEMMA BeginTaskOrder ==
  ASSUME IInv, OrderInv, NEW i \in Isolate, BeginTask(i)
  PROVE  \A j \in Isolate : Phase2Home(j)' /\ NoneLost(j)' /\ InTurn(j)'
  <1>0. /\ TypeOK /\ Len(called) \in Nat
        /\ \A j \in Isolate : Phase2Home(j) /\ NoneLost(j) /\ InTurn(j)
    BY OrderTypes, Zenon DEF IInv, OrderInv
  <1>1. /\ env[i] = "idle" /\ inbox[i] # <<>>
        /\ current' = [current EXCEPT ![i] = Head(inbox[i])]
        /\ inbox' = [inbox EXCEPT ![i] = Tail(@)]
        /\ env' = [env EXCEPT ![i] = "run"]
        /\ UNCHANGED <<holder, ran, called>>
    BY Zenon DEF BeginTask
  <1>2. SUFFICES ASSUME NEW j \in Isolate PROVE Phase2Home(j)' /\ NoneLost(j)' /\ InTurn(j)'
    BY Zenon
  <1>3. CASE j # i
    <2>1. /\ inbox'[j] = inbox[j] /\ env'[j] = env[j] /\ current'[j] = current[j]
          /\ Longer(inbox[j], inbox'[j])
      BY <1>0, <1>1, <1>3 DEF TypeOK, Longer
    <2>2. LeavesAlone(j)
      BY <1>1, <2>1, Zenon DEF LeavesAlone
    <2> QED BY <1>0, <2>1, <2>2, QuietKeeps, Zenon
  <1>4. CASE j = i
    <2>1. /\ Len(inbox[i]) \in Nat \ {0} /\ Len(inbox'[i]) = Len(inbox[i]) - 1
          /\ \A q \in 1..Len(inbox'[i]) : inbox'[i][q] = inbox[i][q + 1]
          /\ current'[i] = inbox[i][1] /\ env'[i] = "run"
      <3>1. inbox[i] \in Seq(Msg) /\ inbox'[i] = Tail(inbox[i])
        BY <1>0, <1>1, Zenon DEF TypeOK
      <3> QED BY <1>0, <1>1, <3>1 DEF TypeOK
    <2>2. ASSUME NEW c, NEW q \in Nat \ {0}, Ahead(i, c, q + 1)
          PROVE  Ahead(i, c, q)'
      <3>1. ~Starting(i, c)
        BY <1>1, Zenon DEF Starting
      <3>2. CASE ran[c] > 0
        BY <1>1, <3>2, Zenon DEF Ahead
      <3>3. ASSUME NEW p \in 1..Len(inbox[i]), p < q + 1, IsPhase2(inbox[i][p], c)
            PROVE  Ahead(i, c, q)'
        <4>1. CASE p = 1
          BY <2>1, <3>3, <4>1, Zenon DEF Ahead, Starting, IsPhase2
        <4>2. CASE p # 1
          <5>1. p - 1 \in 1..Len(inbox'[i]) /\ p - 1 < q /\ inbox'[i][p - 1] = inbox[i][p]
            BY <2>1, <3>3, <4>2
          <5> QED BY <3>3, <5>1, Zenon DEF Ahead, IsPhase2
        <4> QED BY <4>1, <4>2, Zenon
      <3> QED BY <2>2, <3>1, <3>2, <3>3, Zenon DEF Ahead
    <2>3. Phase2Home(i)'
      BY <1>0, <2>1, SMTT(30) DEF Phase2Home
    <2>4. NoneLost(i)'
      <3> SUFFICES ASSUME NEW h \in 1..Len(called), Second[called[h]] = i, holder[i]
                   PROVE  Ahead(i, called[h], Len(inbox[i]) + 1)'
        BY <1>1, Zenon DEF NoneLost
      <3>0. PICK c : c = called[h]
        BY Zenon
      <3>1. PICK n \in Nat \ {0} : n = Len(inbox[i])
        BY <2>1, Zenon
      <3>2. Ahead(i, c, n)'
        BY <1>0, <2>2, <3>0, <3>1, Zenon DEF NoneLost
      <3>3. Len(inbox'[i]) + 1 = n
        BY <2>1, <3>1
      <3> QED BY <1>1, <3>0, <3>2, <3>3, Zenon DEF Ahead, Starting
    <2>5. InTurn(i)'
      <3> SUFFICES ASSUME NEW g \in 1..Len(called), NEW k \in 1..Len(called), g < k,
                          Second[called[g]] = i, Second[called[k]] = i
                   PROVE  (InTurn(i)!(g, k)!2)'
        BY <1>1, Zenon DEF InTurn
      <3>1. PICK c, d : c = called[g] /\ d = called[k]
        BY Zenon
      <3>2. /\ ran[d] > 0 => ran[c] > 0
            /\ \A q \in 1..Len(inbox[i]) : IsPhase2(inbox[i][q], d) => Ahead(i, c, q)
        BY <1>0, <1>1, <3>1, Zenon DEF InTurn
      <3>3. Starting(i, d)' => ran[c] > 0
        <4>1. 1 \in 1..Len(inbox[i])
          BY <2>1
        <4>2. SUFFICES ASSUME IsPhase2(inbox[i][1], d) PROVE ran[c] > 0
          BY <2>1, Zenon DEF Starting, IsPhase2
        <4>3. Ahead(i, c, 1)
          BY <3>2, <4>1, <4>2, Zenon
        <4> QED BY <1>1, <4>3 DEF Ahead, Starting
      <3>4. ASSUME NEW q \in 1..Len(inbox'[i]), IsPhase2(inbox'[i][q], d)
            PROVE  Ahead(i, c, q)'
        <4>1. /\ q + 1 \in 1..Len(inbox[i]) /\ IsPhase2(inbox[i][q + 1], d)
              /\ q \in Nat \ {0}
          BY <2>1, <3>4, SMTT(30) DEF IsPhase2
        <4>2. Ahead(i, c, q + 1)
          BY <3>2, <4>1, Zenon
        <4> QED BY <2>2, <4>1, <4>2, Zenon
      <3> QED BY <1>1, <3>1, <3>2, <3>3, <3>4, ZenonT(30) DEF Starting, Ahead
    <2> QED BY <1>4, <2>3, <2>4, <2>5, Zenon
  <1> QED BY <1>3, <1>4, Zenon

\* Phase2 begins, in its turn.
LEMMA BeginPhase2Order ==
  ASSUME IInv, OrderInv, NEW i \in Isolate, BeginPhase2(i)
  PROVE  \A j \in Isolate : Phase2Home(j)' /\ NoneLost(j)' /\ InTurn(j)'
  <1>0. /\ TypeOK /\ Len(called) \in Nat
        /\ \A j \in 1..Len(called) : called[j] \in Call
        /\ \A j \in Isolate : Phase2Home(j) /\ NoneLost(j) /\ InTurn(j)
    BY OrderTypes, Zenon DEF IInv, OrderInv
  <1>1. PICK a \in Call : a = current[i].call /\ Second[a] = i /\ Starting(i, a)
    BY <1>0, Zenon DEF BeginPhase2, Phase2Home, Phase2Kind, IInv, CurrentOK, Msg, Starting, IsPhase2
  <1>2. /\ ran' = [ran EXCEPT ![a] = @ + 1]
        /\ env[i] = "run" /\ env' = [env EXCEPT ![i] = "phase2"]
        /\ UNCHANGED <<holder, inbox, current, called>>
    BY <1>1, Zenon DEF BeginPhase2
  <1>3. SUFFICES ASSUME NEW j \in Isolate PROVE Phase2Home(j)' /\ NoneLost(j)' /\ InTurn(j)'
    BY Zenon
  <1>4. CASE j # i
    <2>1. /\ inbox'[j] = inbox[j] /\ env'[j] = env[j] /\ current'[j] = current[j]
          /\ Longer(inbox[j], inbox'[j])
      BY <1>0, <1>2, <1>4 DEF TypeOK, Longer
    <2>2. LeavesAlone(j)
      BY <1>0, <1>1, <1>2, <1>4, <2>1, Zenon DEF LeavesAlone, TypeOK
    <2> QED BY <1>0, <2>1, <2>2, QuietKeeps, Zenon
  <1>5. CASE j = i
    <2>1. /\ \A c \in Call : ran[c] \in Nat /\ ran'[c] = IF c = a THEN ran[c] + 1 ELSE ran[c]
          /\ env'[i] = "phase2" /\ \A c : Starting(i, c) <=> c = a
      BY <1>0, <1>1, <1>2, Zenon DEF TypeOK, Starting, IsPhase2
    <2>2. ASSUME NEW c \in Call, NEW q, Ahead(i, c, q) PROVE Ahead(i, c, q)'
      BY <1>2, <2>1, <2>2 DEF Ahead
    <2>3. Phase2Home(i)'
      BY <1>0, <1>2, <2>1, Zenon DEF Phase2Home
    <2>4. NoneLost(i)'
      <3> SUFFICES ASSUME NEW h \in 1..Len(called), Second[called[h]] = i, holder[i]
                   PROVE  Ahead(i, called[h], Len(inbox[i]) + 1)'
        BY <1>2, Zenon DEF NoneLost
      <3>1. PICK c \in Call : c = called[h]
        BY <1>0, Zenon
      <3>2. PICK n : n = Len(inbox[i]) + 1
        BY Zenon
      <3>3. Ahead(i, c, n)'
        BY <1>0, <2>2, <3>1, <3>2, Zenon DEF NoneLost
      <3> QED BY <1>2, <3>1, <3>2, <3>3, Zenon DEF Ahead, Starting
    <2>5. InTurn(i)'
      <3> SUFFICES ASSUME NEW g \in 1..Len(called), NEW k \in 1..Len(called), g < k,
                          Second[called[g]] = i, Second[called[k]] = i
                   PROVE  (InTurn(i)!(g, k)!2)'
        BY <1>2, Zenon DEF InTurn
      <3>1. PICK c \in Call, d \in Call : c = called[g] /\ d = called[k]
        BY <1>0, Zenon
      <3>2. /\ ran[d] > 0 \/ Starting(i, d) => ran[c] > 0
            /\ \A q \in 1..Len(inbox[i]) : IsPhase2(inbox[i][q], d) => Ahead(i, c, q)
        BY <1>0, <1>2, <3>1, Zenon DEF InTurn
      <3>3. ran'[d] > 0 => ran'[c] > 0
        BY <2>1, <3>2
      <3>4. ~Starting(i, d)'
        BY <2>1, Zenon DEF Starting
      <3>5. ASSUME NEW q \in 1..Len(inbox[i]), IsPhase2(inbox[i][q], d) PROVE Ahead(i, c, q)'
        BY <2>2, <3>2, <3>5, Zenon
      <3> QED BY <1>2, <3>1, <3>3, <3>4, <3>5, Zenon DEF Starting, Ahead
    <2> QED BY <1>5, <2>3, <2>4, <2>5, Zenon
  <1> QED BY <1>4, <1>5, Zenon

\* An isolate that drops its tasks begins no more of them.
LEMMA DropTaskOrder ==
  ASSUME IInv, OrderInv, NEW i \in Isolate, DropTask(i)
  PROVE  \A j \in Isolate : Phase2Home(j)' /\ NoneLost(j)' /\ InTurn(j)'
  <1>0. /\ TypeOK /\ inbox \in Boxes /\ Len(called) \in Nat
        /\ \A j \in Isolate : Phase2Home(j) /\ NoneLost(j) /\ InTurn(j)
    BY OrderTypes, Zenon DEF IInv, OrderInv
  <1>1. /\ env[i] = "drop" /\ inbox[i] # <<>> /\ ~holder[i]
        /\ inbox' = Destroyed([inbox EXCEPT ![i] = Tail(@)], Head(inbox[i]))
        /\ UNCHANGED <<holder, env, current, ran, called>>
    BY Zenon DEF DropTask, IInv, NoHolder
  <1> DEFINE rest == [inbox EXCEPT ![i] = Tail(inbox[i])]
  <1>2. /\ rest \in Boxes /\ Head(inbox[i]) \in Msg
        /\ Len(rest[i]) \in Nat
        /\ \A q \in 1..Len(rest[i]) : q + 1 \in 1..Len(inbox[i]) /\ rest[i][q] = inbox[i][q + 1]
        /\ \A j \in Isolate : j # i => rest[j] = inbox[j]
    <2>1. inbox[i] \in Seq(Msg)
      BY <1>0, Zenon DEF TypeOK
    <2> QED BY <1>0, <1>1, <2>1 DEF Boxes
  <1>3. \A j \in Isolate : Longer(rest[j], inbox'[j])
    <2>1. inbox' = Destroyed(rest, Head(inbox[i]))
      BY <1>1, Zenon
    <2> HIDE DEF rest
    <2> QED BY <1>2, <2>1, DestroyedLonger, Zenon
  <1> HIDE DEF rest
  <1>4. SUFFICES ASSUME NEW j \in Isolate PROVE Phase2Home(j)' /\ NoneLost(j)' /\ InTurn(j)'
    BY Zenon
  <1>5. CASE j # i
    <2>1. Longer(inbox[j], inbox'[j])
      BY <1>2, <1>3, <1>5, Zenon
    <2>2. LeavesAlone(j)
      BY <1>1, Zenon DEF LeavesAlone
    <2> QED BY <1>0, <2>1, <2>2, QuietKeeps, Zenon
  <1>6. CASE j = i
    <2>1. Phase2Home(i)'
      <3>1. SUFFICES ASSUME NEW q \in 1..Len(inbox'[i]), inbox'[i][q].kind \in Phase2Kind
                     PROVE  Second[inbox'[i][q].call] = i
        BY <1>1, Zenon DEF Phase2Home
      <3>2. q \in 1..Len(rest[i]) /\ inbox'[i][q] = rest[i][q]
        BY <1>3, <3>1 DEF Longer
      <3>3. q + 1 \in 1..Len(inbox[i]) /\ inbox'[i][q] = inbox[i][q + 1]
        BY <1>2, <3>2, Zenon
      <3> QED BY <1>0, <3>1, <3>3, Zenon DEF Phase2Home
    <2>2. NoneLost(i)'
      BY <1>1, Zenon DEF NoneLost
    <2>3. InTurn(i)'
      <3> SUFFICES ASSUME NEW g \in 1..Len(called), NEW k \in 1..Len(called), g < k,
                          Second[called[g]] = i, Second[called[k]] = i
                   PROVE  (InTurn(i)!(g, k)!2)'
        BY <1>1, Zenon DEF InTurn
      <3>1. ran[called[k]] > 0 => ran[called[g]] > 0
        BY <1>0, Zenon DEF InTurn
      <3> QED BY <1>1, <3>1, Zenon DEF Starting
    <2> QED BY <1>6, <2>1, <2>2, <2>3, Zenon
  <1> QED BY <1>5, <1>6, Zenon

\* A new call goes behind all the others of its isolate.
LEMMA RunOrder ==
  ASSUME IInv, OrderInv, NEW a \in Call, Run(a)
  PROVE  \A j \in Isolate : Phase2Home(j)' /\ NoneLost(j)' /\ InTurn(j)'
  <1> DEFINE i == Second[a]
             m == M(IF a \in Quiet THEN "Phase2RunnerIgnored" ELSE "Phase2Runner", a)
  <1>0. /\ TypeOK /\ inbox \in Boxes /\ Len(called) \in Nat /\ i \in Isolate
        /\ \A j \in 1..Len(called) : called[j] \in Call /\ promise[called[j]] # "none"
        /\ \A j \in Isolate : Phase2Home(j) /\ NoneLost(j) /\ InTurn(j)
    BY OrderTypes, ThreePhaseAssumption, Zenon DEF IInv, OrderInv
  <1>1. /\ promise[a] = "none" /\ ran[a] = 0
        /\ inbox' = ScheduleTask(inbox, i, m)
        /\ Len(called') = Len(called) + 1 /\ called'[Len(called) + 1] = a
        /\ \A j \in 1..Len(called) : called'[j] = called[j]
        /\ UNCHANGED <<holder, env, current, ran>>
    <2>1. called \in Seq(Call) /\ called' = Append(called, a)
      BY <1>0, Zenon DEF TypeOK, Run
    <2> QED BY <2>1 DEF Run, IInv, FreshCalls
  <1>2. m \in Msg /\ m.call = a /\ m.kind \in Phase2Kind
    BY Zenon DEF M, Msg, Kind, Phase3Kind, Phase2Kind
  <1> HIDE DEF i, m
  <1>3. /\ ~Starting(i, a)
        /\ \A q \in 1..Len(inbox[i]) : ~IsPhase2(inbox[i][q], a)
    <2>1. ~Starting(i, a)
      BY <1>0, <1>1, OnlyOne, Zenon DEF Starting, IsPhase2, Live
    <2>2. ASSUME NEW q \in 1..Len(inbox[i]) PROVE inbox[i][q].call # a
      <3>1. inbox[i][q] \in Contents(inbox)
        BY <1>0, ContentsDef, Zenon
      <3> QED BY <1>1, <3>1, QueuedCalls, Zenon
    <2> QED BY <2>1, <2>2, Zenon DEF IsPhase2
  <1>4. /\ Len(inbox[i]) \in Nat /\ Len(inbox'[i]) \in Nat /\ Len(inbox[i]) <= Len(inbox'[i])
        /\ \A q \in 1..Len(inbox[i]) : inbox'[i][q] = inbox[i][q]
        /\ \A q \in 1..Len(inbox'[i]) : q > Len(inbox[i]) =>
             \/ inbox'[i][q].kind \notin Phase2Kind
             \/ holder[i] /\ q = Len(inbox[i]) + 1 /\ inbox'[i][q] = m
        /\ holder[i] => Len(inbox'[i]) = Len(inbox[i]) + 1 /\ inbox'[i][Len(inbox[i]) + 1] = m
    <2>1. CASE holder[i]
      <3>1. inbox[i] \in Seq(Msg) /\ inbox'[i] = Append(inbox[i], m)
        BY <1>0, <1>1, <2>1, Zenon DEF ScheduleTask, Push, TypeOK
      <3> QED BY <1>2, <2>1, <3>1
    <2>2. CASE ~holder[i]
      <3>1. Longer(inbox[i], inbox'[i])
        BY <1>0, <1>1, <1>2, <2>2, DestroyedLonger, Zenon DEF ScheduleTask
      <3> QED BY <2>2, <3>1, Zenon DEF Longer
    <2> QED BY <2>1, <2>2, Zenon
  <1>5. SUFFICES ASSUME NEW j \in Isolate PROVE Phase2Home(j)' /\ NoneLost(j)' /\ InTurn(j)'
    BY Zenon
  <1>6. CASE j # i
    <2>1. Longer(inbox[j], inbox'[j])
      <3>1. CASE holder[i]
        <4>1. inbox'[j] = inbox[j] /\ inbox[j] \in Seq(Msg)
          BY <1>0, <1>1, <1>6, <3>1, Zenon DEF ScheduleTask, Push, TypeOK
        <4> QED BY <4>1 DEF Longer
      <3>2. CASE ~holder[i]
        BY <1>0, <1>1, <1>2, <3>2, DestroyedLonger, Zenon DEF ScheduleTask
      <3> QED BY <3>1, <3>2, Zenon
    <2>2. ASSUME NEW k \in 1..Len(called'), Second[called'[k]] = j
          PROVE  k \in 1..Len(called) /\ called'[k] = called[k]
      BY <1>0, <1>1, <1>6, <2>2 DEF i
    <2>3. LeavesAlone(j)
      BY <1>1, <2>2, Zenon DEF LeavesAlone
    <2> QED BY <1>0, <2>1, <2>3, QuietKeeps, Zenon
  <1>7. CASE j = i
    <2>1. \A c : Starting(i, c)' <=> Starting(i, c)
      BY <1>1, Zenon DEF Starting
    <2>2. ASSUME NEW c, NEW q \in Nat, NEW r \in Nat, q <= r, Ahead(i, c, q)
          PROVE  Ahead(i, c, r)'
      <3>1. ASSUME NEW p \in 1..Len(inbox[i]), p < q, IsPhase2(inbox[i][p], c)
            PROVE  Ahead(i, c, r)'
        <4>1. p \in 1..Len(inbox'[i]) /\ p < r /\ inbox'[i][p] = inbox[i][p]
          BY <1>4, <2>2, <3>1
        <4> QED BY <3>1, <4>1, Zenon DEF Ahead, IsPhase2
      <3>2. CASE ran[c] > 0 \/ Starting(i, c)
        BY <1>1, <2>1, <3>2, Zenon DEF Ahead
      <3> QED BY <2>2, <3>1, <3>2, Zenon DEF Ahead
    <2>3. Phase2Home(i)'
      <3>1. ASSUME NEW q \in 1..Len(inbox'[i]), inbox'[i][q].kind \in Phase2Kind
            PROVE  Second[inbox'[i][q].call] = i
        <4>1. CASE q \in 1..Len(inbox[i])
          BY <1>0, <1>4, <3>1, <4>1 DEF Phase2Home
        <4>2. CASE q \notin 1..Len(inbox[i])
          <5>1. inbox'[i][q] = m
            BY <1>4, <3>1, <4>2
          <5> QED BY <1>2, <5>1, Zenon DEF i
        <4> QED BY <4>1, <4>2, Zenon
      <3> QED BY <1>0, <1>1, <3>1, Zenon DEF Phase2Home
    <2>4. ASSUME NEW k \in 1..Len(called')
          PROVE  \E c \in Call : /\ c = called'[k]
                                 /\ \/ k \in 1..Len(called) /\ c = called[k] /\ c # a
                                    \/ k = Len(called) + 1 /\ c = a
      BY <1>0, <1>1
    <2>5. NoneLost(i)'
      <3> SUFFICES ASSUME NEW k \in 1..Len(called'), Second[called'[k]] = i, holder[i]
                   PROVE  Ahead(i, called[k], Len(inbox[i]) + 1)'
        BY <1>1, Zenon DEF NoneLost
      <3>1. PICK c \in Call : /\ c = called'[k]
                              /\ \/ k \in 1..Len(called) /\ c = called[k] /\ c # a
                                 \/ k = Len(called) + 1 /\ c = a
        BY <2>4, Zenon
      <3>2. PICK q \in Nat, r \in Nat : q = Len(inbox[i]) + 1 /\ r = Len(inbox'[i]) + 1 /\ q <= r
        BY <1>4
      <3>3. Ahead(i, c, r)'
        <4>1. CASE k \in 1..Len(called) /\ c = called[k]
          <5>1. Ahead(i, c, q)
            BY <1>0, <3>1, <3>2, <4>1, Zenon DEF NoneLost
          <5> QED BY <2>2, <3>2, <5>1, Zenon
        <4>2. CASE c = a
          <5>1. q \in 1..Len(inbox'[i]) /\ q < r /\ IsPhase2(inbox'[i][q], c)
            BY <1>2, <1>4, <3>2, <4>2, SMTT(30) DEF IsPhase2
          <5> QED BY <5>1, Zenon DEF Ahead
        <4> QED BY <3>1, <4>1, <4>2, Zenon
      <3> QED BY <3>1, <3>2, <3>3, Zenon DEF Ahead, Starting
    <2>6. InTurn(i)'
      <3> SUFFICES ASSUME NEW g \in 1..Len(called'), NEW k \in 1..Len(called'), g < k,
                          Second[called'[g]] = i, Second[called'[k]] = i
                   PROVE  (InTurn(i)!(g, k)!2)'
        BY Zenon DEF InTurn
      <3>1. PICK c \in Call : /\ c = called'[g] /\ g \in 1..Len(called) /\ c = called[g] /\ c # a
        BY <1>0, <1>1, <2>4
      <3>2. PICK d \in Call : /\ d = called'[k]
                              /\ \/ k \in 1..Len(called) /\ d = called[k] /\ d # a
                                 \/ k = Len(called) + 1 /\ d = a
        BY <2>4, Zenon
      <3>3. ran[d] > 0 \/ Starting(i, d) => ran[c] > 0
        <4>1. CASE d = a
          BY <1>1, <1>3, <4>1
        <4>2. CASE k \in 1..Len(called) /\ d = called[k]
          BY <1>0, <3>1, <3>2, <4>2 DEF InTurn
        <4> QED BY <3>2, <4>1, <4>2, Zenon
      <3>4. ASSUME env[i] \notin {"drop", "dead"}, NEW q \in 1..Len(inbox'[i]),
                   IsPhase2(inbox'[i][q], d)
            PROVE  Ahead(i, c, q)'
        <4>0. q \in Nat /\ q <= q
          OBVIOUS
        <4>1. CASE q \in 1..Len(inbox[i])
          <5>1. IsPhase2(inbox[i][q], d) /\ d # a
            BY <1>3, <1>4, <3>4, <4>1, Zenon DEF IsPhase2
          <5>2. Ahead(i, c, q)
            BY <1>0, <3>1, <3>2, <3>4, <4>1, <5>1, Zenon DEF InTurn
          <5> QED BY <2>2, <4>0, <5>2, Zenon
        <4>2. CASE q \notin 1..Len(inbox[i])
          <5>1. holder[i] /\ q = Len(inbox[i]) + 1
            BY <1>4, <3>4, <4>2 DEF IsPhase2
          <5>2. Ahead(i, c, q)
            BY <1>0, <3>1, <5>1, Zenon DEF NoneLost
          <5> QED BY <2>2, <4>0, <5>2, Zenon
        <4> QED BY <4>1, <4>2, Zenon
      <3> QED BY <1>1, <2>1, <3>1, <3>2, <3>3, <3>4 DEF Starting, Ahead
    <2> QED BY <1>7, <2>3, <2>5, <2>6, Zenon
  <1> QED BY <1>6, <1>7, Zenon

\* The other steps begin nothing and put no Phase2 into an inbox.
LEMMA OthersOrder ==
  ASSUME IInv, OrderInv,
         \/ \E i \in Isolate : \/ EndPhase2(i) \/ Phase3(i) \/ Phase3Swallowed(i) \/ EndTask(i)
                               \/ Destroy(i) \/ Terminate(i) \/ Release(i)
         \/ \E c \in Call : RunThrows(c)
         \/ CleanupHook \/ CloseDefault \/ JoinAll \/ UNCHANGED vars
  PROVE  \A j \in Isolate : Phase2Home(j)' /\ NoneLost(j)' /\ InTurn(j)'
  <1>0. /\ TypeOK /\ inbox \in Boxes
        /\ \A j \in Isolate : Phase2Home(j) /\ NoneLost(j) /\ InTurn(j)
        /\ \A j \in Isolate : Longer(inbox[j], inbox[j])
    BY OrderTypes DEF IInv, OrderInv, Longer
  <1>1. ASSUME NEW j \in Isolate PROVE Longer(inbox[j], inbox'[j])
    <2>1. ASSUME NEW i \in Isolate, EndPhase2(i) PROVE Longer(inbox[j], inbox'[j])
      <3>1. PICK c \in Call : c = current[i].call /\ First[c] \in Isolate
        BY <2>1, ThreePhaseAssumption, Zenon DEF EndPhase2, IInv, CurrentOK, Msg
      <3>2. CASE inbox' = inbox
        BY <1>0, <3>2, Zenon
      <3>3. ASSUME NEW k \in {"Phase3Success", "Phase3Failure"},
                   inbox' = ScheduleTask(inbox, First[c], M(k, c))
            PROVE  Longer(inbox[j], inbox'[j])
        <4>1. M(k, c) \in Msg /\ M(k, c).kind \in Phase3Kind
          BY Zenon DEF M, Msg, Kind, Phase3Kind
        <4> QED BY <1>0, <3>1, <3>3, <4>1, ScheduledLonger, Zenon
      <3> QED BY <2>1, <3>1, <3>2, <3>3, Zenon DEF EndPhase2
    <2>2. ASSUME NEW i \in Isolate, EndTask(i) PROVE Longer(inbox[j], inbox'[j])
      <3>1. current[i] \in Msg
        BY <2>2, Zenon DEF EndTask, IInv, CurrentOK
      <3> QED BY <1>0, <2>2, <3>1, DestroyedLonger, Zenon DEF EndTask
    <2>3. CASE inbox' = inbox
      BY <1>0, <2>3, Zenon
    <2> QED BY <2>1, <2>2, <2>3, Zenon
             DEF Phase3, Phase3Swallowed, Destroy, Terminate, Release, RunThrows, CleanupHook,
                 CloseDefault, JoinAll, vars
  <1>2. ran' = ran /\ called' = called
    BY Zenon DEF EndPhase2, Phase3, Phase3Swallowed, EndTask, Destroy, Terminate, Release, RunThrows,
           CleanupHook, CloseDefault, JoinAll, vars
  <1>3. ASSUME NEW j \in Isolate PROVE LeavesAlone(j)
    <2>1. CASE \E i \in Isolate : \/ EndPhase2(i) \/ Phase3(i) \/ Phase3Swallowed(i) \/ EndTask(i)
      <3>1. PICK i \in Isolate : \/ EndPhase2(i) \/ Phase3(i) \/ Phase3Swallowed(i) \/ EndTask(i)
        BY <2>1, Zenon
      <3>2. /\ holder' = holder /\ env' = [env EXCEPT ![i] = env'[i]]
            /\ \/ env[i] = "phase2" /\ current' = current
               \/ env[i] = "run" /\ current[i].kind \in Phase3Kind /\ current' = current
               \/ env[i] = "done" /\ current' = [current EXCEPT ![i] = NoMsg]
            /\ env'[i] \in {"done", "drop", "idle"}
        BY <1>0, <3>1, Zenon DEF EndPhase2, Phase3, Phase3Swallowed, EndTask, TypeOK, Phase3Kind
      <3> QED BY <1>0, <1>2, <3>2, Zenon DEF LeavesAlone, TypeOK, Phase2Kind, Phase3Kind
    <2>2. CASE \E i \in Isolate : Destroy(i) \/ Terminate(i) \/ Release(i)
      BY <1>0, <1>2, <2>2, Zenon DEF Destroy, Terminate, Release, LeavesAlone, TypeOK
    <2>3. CASE \E c \in Call : RunThrows(c)
      BY <1>2, <2>3, Zenon DEF RunThrows, LeavesAlone
    <2>4. CASE CleanupHook \/ CloseDefault \/ JoinAll \/ UNCHANGED vars
      BY <1>0, <1>2, <2>4, ThreePhaseAssumption, Zenon
         DEF CleanupHook, CloseDefault, JoinAll, vars, LeavesAlone, TypeOK
    <2> QED BY <2>1, <2>2, <2>3, <2>4, Zenon
  <1> QED BY <1>0, <1>1, <1>3, QuietKeeps, Zenon

\* A call that was made stays made.
LEMMA MadeKept ==
  ASSUME IInv, OrderInv, [Next]_vars
  PROVE  \A j \in 1..Len(called') : promise'[called'[j]] # "none"
  <1>0. /\ \A j \in 1..Len(called) : called[j] \in Call /\ promise[called[j]] # "none"
        /\ called \in Seq(Call) /\ promise \in [Call -> Promise]
    BY OrderTypes, Zenon DEF IInv, OrderInv, TypeOK
  <1>1. \A c \in Call : promise[c] # "none" => promise'[c] # "none"
    <2>1. ASSUME NEW i \in Isolate, Phase3(i)
          PROVE  \A c \in Call : promise[c] # "none" => promise'[c] # "none"
      <3>1. PICK r \in Settled(current[i].kind) : promise' = [promise EXCEPT ![current[i].call] = r]
        BY <2>1, Zenon DEF Phase3
      <3>2. r # "none"
        BY <2>1, <3>1, Zenon DEF Phase3, Phase3Kind, Settled
      <3> QED BY <1>0, <3>1, <3>2, Zenon
    <2>2. ASSUME NEW c \in Call, Run(c) \/ RunThrows(c)
          PROVE  \A d \in Call : promise[d] # "none" => promise'[d] # "none"
      BY <1>0, <2>2, Zenon DEF Run, RunThrows
    <2>3. CASE promise' = promise
      BY <2>3, Zenon
    <2> QED BY <2>1, <2>2, <2>3, Zenon
            DEF Next, Work, BeginTask, BeginPhase2, EndPhase2, Phase3Swallowed, EndTask, DropTask,
                Destroy, Terminate, Release, CleanupHook, CloseDefault, JoinAll, vars
  <1>2. ASSUME NEW c \in Call, Run(c)
        PROVE  \A j \in 1..Len(called') : promise'[called'[j]] # "none"
    <2>1. called' = Append(called, c) /\ promise'[c] # "none"
      BY <1>0, <1>2, Zenon DEF Run
    <2> QED BY <1>0, <1>1, <2>1
  <1>3. CASE called' = called
    BY <1>0, <1>1, <1>3, Zenon
  <1> QED BY <1>2, <1>3, Zenon
          DEF Next, Work, BeginTask, BeginPhase2, EndPhase2, Phase3, Phase3Swallowed, EndTask,
              DropTask, Destroy, Terminate, Release, RunThrows, CleanupHook, CloseDefault, JoinAll,
              vars

LEMMA NextOrder == IInv /\ OrderInv /\ [Next]_vars => OrderInv'
  <1> SUFFICES ASSUME IInv, OrderInv, [Next]_vars PROVE OrderInv'
    BY Zenon
  <1>1. \A j \in Isolate : Phase2Home(j)' /\ NoneLost(j)' /\ InTurn(j)'
    <2>1. CASE \E i \in Isolate : BeginTask(i) \/ BeginPhase2(i) \/ DropTask(i)
      BY <2>1, BeginTaskOrder, BeginPhase2Order, DropTaskOrder, Zenon
    <2>2. CASE \E c \in Call : Run(c)
      BY <2>2, RunOrder, Zenon
    <2> QED BY <2>1, <2>2, OthersOrder, Zenon DEF Next, Work
  <1> QED BY <1>1, MadeKept, Zenon DEF OrderInv

\* Phase2 of calls from one isolate to another begins in the order of the calls
\* (ScheduleTask appends to the task queue, AsyncEntry takes its front), also
\* when either isolate is disposed in between.
THEOREM CallsInOrder == Spec => []CallOrder
  <1>1. Init => OrderInv
    BY DEF Init, OrderInv, Phase2Home, NoneLost, InTurn
  <1>2. IInv /\ OrderInv => CallOrder
    <2> SUFFICES ASSUME IInv, OrderInv, NEW j \in DOMAIN called, NEW k \in DOMAIN called, j < k,
                        Second[called[j]] = Second[called[k]], ran[called[k]] > 0
                 PROVE  ran[called[j]] > 0
      BY Zenon DEF CallOrder
    <2>1. called \in Seq(Call)
      BY Zenon DEF IInv, TypeOK
    <2>2. DOMAIN called = 1..Len(called) /\ called[k] \in Call
      BY <2>1
    <2>3. Second[called[k]] \in Isolate
      BY <2>2, ThreePhaseAssumption, Zenon
    <2> QED BY <2>2, <2>3, Zenon DEF OrderInv, InTurn
  <1> QED BY <1>1, <1>2, InitInv, NextInv, NextOrder, PTL DEF Spec
==============================================================================
