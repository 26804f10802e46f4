-------------------------- MODULE ProvisioningProofs --------------------------
(***************************************************************************)
(* Runs of the deployment scripts that do not overlap leave Defender in    *)
(* order, for any number of runs, networks and autotasks: no sentinel      *)
(* without its task, no task twice, and nothing out of date after a run    *)
(* that ended well.                                                        *)
(***************************************************************************)
EXTENDS Provisioning, TLAPS

\* A run resets and rolls out only where it found nothing, so it never deletes
\* anything; it creates a sentinel only for a task that is there.
RequestsSound(r) ==
  \A q \in pending[r] :
    /\ q.op \notin {"deleteTask", "deleteSentinel"}
    /\ q.op = "createTask" => pc[r] = "rollingOut" /\ q.id.run = r
    /\ q.op = "createSentinel" => pc[r] = "rollingOut" /\ autotasks[q.id] # 0

\* What a run under way knows of Defender.
Knows(r) ==
  /\ pc[r] \in {"listing", "updating"} /\ ~found[r] => Installed(autotasks) = {}
  /\ pc[r] = "resetting" => Installed(autotasks) = {} /\ Installed(sentinels) = {}
  /\ pc[r] = "rollingOut" =>
       /\ \A id \in Installed(autotasks) : id.run = r /\ autotasks[id] = r
       /\ \A id \in Installed(sentinels) : sentinels[id] = r

\* What an update has not brought up to date yet is still to be asked for.
UpdatesPending(r) ==
  pc[r] = "updating" =>
    /\ \A id \in Installed(autotasks) :
         \/ autotasks[id] = r
         \/ Op("listTasks") \in pending[r] \/ Request("updateCode", id) \in pending[r]
    /\ \A id \in Installed(sentinels) :
         \/ sentinels[id] = r
         \/ Op("listSentinels") \in pending[r] \/ Request("update", id) \in pending[r]

\* One run at a time, whose requests fit what is installed, all by one rollout.
InOrder ==
  /\ \A r, s \in Runs : Active(r) /\ Active(s) => r = s
  /\ Installed(sentinels) \subseteq Installed(autotasks)
  /\ \A a, b \in Installed(autotasks) : a.run = b.run
  /\ \A r \in Runs : RequestsSound(r) /\ Knows(r) /\ UpdatesPending(r)

ProvisioningInv == ProvisioningTypeOK /\ (~overlapped => InOrder)

-----------------------------------------------------------------------------
(* Types                                                                   *)

LEMMA RequestTypes ==
  /\ \A id \in IDs, op \in {"updateCode", "update", "deleteTask", "deleteSentinel",
                           "createTask", "createSentinel"} :
       /\ Request(op, id) \in Requests
       /\ Request(op, id).op = op /\ Request(op, id).id = id
  /\ \A op \in {"listTasks", "listSentinels"} :
       Op(op) \in Requests /\ Op(op).op = op
BY DEF Request, Requests, Op

LEMMA TaskIDType ==
  ASSUME NEW r \in Runs, NEW n \in Networks, NEW k \in DOMAIN Kinds
  PROVE  TaskID(r, n, k) \in IDs /\ TaskID(r, n, k).run = r
BY ProvisioningAssumption DEF TaskID, IDs, ToSet

LEMMA ConfiguredType ==
  /\ 1 \in DOMAIN Kinds
  /\ \A r \in Runs : r # 0 /\ Configured[r] \subseteq Networks
BY ProvisioningAssumption DEF Runs

\* Only a run under way has requests to be answered.
LEMMA AnsweredActive ==
  ASSUME ProvisioningTypeOK, NEW r \in Runs, NEW q, NEW next, Answered(r, q, next)
  PROVE  /\ pc[r] \in {"updating", "resetting", "rollingOut"}
         /\ Active(r)
         /\ q \in pending[r] /\ q \in Requests
BY DEF ProvisioningTypeOK, Answered, Active

\* An answer replaces one request by the next ones.
LEMMA AnsweredType ==
  ASSUME ProvisioningTypeOK, NEW r \in Runs, NEW q, NEW next, next \subseteq Requests,
         Answered(r, q, next), UNCHANGED <<pc, found, overlapped>>,
         missed' \subseteq Runs,
         autotasks' \in [IDs -> Runs \cup {0}], sentinels' \in [IDs -> Runs \cup {0}]
  PROVE  ProvisioningTypeOK'
<1>1. pc[r] \in {"updating", "resetting", "rollingOut"}
  BY AnsweredActive
<1>2. /\ pending' \in [Runs -> SUBSET Requests]
      /\ \A s \in Runs : s # r => pending'[s] = pending[s]
  BY DEF ProvisioningTypeOK, Answered
<1> QED BY <1>1, <1>2 DEF ProvisioningTypeOK

LEMMA TypeInit == ProvisioningInit => ProvisioningTypeOK
BY DEF ProvisioningInit, ProvisioningTypeOK, Phases

LEMMA TypeStep ==
  ASSUME ProvisioningTypeOK, NEW r \in Runs, ListTasks(r) \/ Step(r)
  PROVE  ProvisioningTypeOK'
<1> USE DEF onDefender
<1>1. CASE ListTasks(r)
  BY <1>1 DEF ListTasks, ProvisioningTypeOK, Phases
<1>2. CASE ListSentinels(r)
  <2>1. /\ Op("listTasks") \in Requests /\ Op("listSentinels") \in Requests
    BY RequestTypes
  <2>2. /\ pc' \in [Runs -> Phases] /\ pending' \in [Runs -> SUBSET Requests]
        /\ pc'[r] \in {"updating", "resetting"}
        /\ \A s \in Runs : s # r => pc'[s] = pc[s] /\ pending'[s] = pending[s]
    BY <1>2, <2>1 DEF ListSentinels, ProvisioningTypeOK, Phases
  <2> QED BY <1>2, <2>2 DEF ListSentinels, ProvisioningTypeOK
<1>3. CASE AllAnswered(r)
  <2>1. \A n \in Configured[r] : Request("createTask", TaskID(r, n, 1)) \in Requests
    BY ConfiguredType, TaskIDType, RequestTypes
  <2>2. /\ pc' \in [Runs -> Phases] /\ pending' \in [Runs -> SUBSET Requests]
        /\ pc'[r] # "rollingOut" => pending'[r] = {} \/ pc[r] = "resetting"
        /\ \A s \in Runs : s # r => pc'[s] = pc[s] /\ pending'[s] = pending[s]
    BY <1>3, <2>1 DEF AllAnswered, ProvisioningTypeOK, Phases
  <2>3. pc'[r] = "rollingOut" \/ pending'[r] = {}
    BY <1>3, <2>2 DEF AllAnswered, ProvisioningTypeOK
  <2> QED BY <1>3, <2>2, <2>3 DEF AllAnswered, ProvisioningTypeOK
<1>4. CASE Fail(r)
  BY <1>4 DEF Fail, ProvisioningTypeOK, Phases
<1>5. /\ missed \subseteq Runs
      /\ autotasks \in [IDs -> Runs \cup {0}] /\ sentinels \in [IDs -> Runs \cup {0}]
  BY DEF ProvisioningTypeOK
<1>6. \A op \in {"updateCode", "update", "deleteTask", "deleteSentinel"} :
        /\ RequestEach(op, autotasks) \subseteq Requests
        /\ RequestEach(op, sentinels) \subseteq Requests
  BY RequestTypes DEF RequestEach, Installed
<1>7. CASE ListTasksAgain(r)
  BY <1>5, <1>6, <1>7, AnsweredType DEF ListTasksAgain
<1>8. CASE ListSentinelsAgain(r)
  BY <1>5, <1>6, <1>8, AnsweredType DEF ListSentinelsAgain
<1>9. CASE ListForReset(r)
  <2>1. UNCHANGED <<autotasks, sentinels, pc, found, missed, overlapped>>
    BY <1>9 DEF ListForReset
  <2>2. CASE Answered(r, Op("listSentinels"), RequestEach("deleteSentinel", sentinels))
    BY <1>5, <1>6, <2>1, <2>2, AnsweredType
  <2>3. CASE Answered(r, Op("listTasks"),
                      RequestEach("deleteTask", autotasks) \cup {Op("listSentinels")})
    <3>1. RequestEach("deleteTask", autotasks) \cup {Op("listSentinels")} \subseteq Requests
      BY <1>6, RequestTypes
    <3> QED BY <1>5, <2>1, <2>3, <3>1, AnsweredType
  <2> QED BY <1>9, <2>2, <2>3 DEF ListForReset
<1>10. ASSUME NEW id \in IDs, \/ UpdateCode(r, id) \/ UpdateSentinel(r, id)
                              \/ DeleteTask(r, id) \/ DeleteSentinel(r, id)
       PROVE  ProvisioningTypeOK'
  <2>1. PICK q : Answered(r, q, {})
    BY <1>10 DEF UpdateCode, UpdateSentinel, DeleteTask, DeleteSentinel
  <2>2. /\ UNCHANGED <<pc, found, missed, overlapped>>
        /\ autotasks' \in [IDs -> Runs \cup {0}] /\ sentinels' \in [IDs -> Runs \cup {0}]
    BY <1>5, <1>10 DEF UpdateCode, UpdateSentinel, DeleteTask, DeleteSentinel
  <2> QED BY <1>5, <2>1, <2>2, AnsweredType
<1>11. ASSUME NEW n \in Networks, NEW k \in DOMAIN Kinds
       PROVE  CreateTask(r, n, k) \/ CreateSentinel(r, n, k) => ProvisioningTypeOK'
  <2>1. /\ TaskID(r, n, k) \in IDs
        /\ {Request("createTask", TaskID(r, n, j)) : j \in {k + 1} \cap DOMAIN Kinds}
             \subseteq Requests
        /\ {Request("createSentinel", TaskID(r, n, k))} \subseteq Requests
    BY TaskIDType, RequestTypes
  <2>2. CASE CreateTask(r, n, k)
    BY <1>5, <2>1, <2>2, AnsweredType DEF CreateTask
  <2>3. CASE CreateSentinel(r, n, k)
    <3>1. missed' \subseteq Runs /\ sentinels' \in [IDs -> Runs \cup {0}]
      BY <1>5, <2>1, <2>3 DEF CreateSentinel
    <3> QED BY <1>5, <2>1, <2>3, <3>1, AnsweredType DEF CreateSentinel
  <2> QED BY <2>2, <2>3
<1> QED BY <1>1, <1>2, <1>3, <1>4, <1>7, <1>8, <1>9, <1>10, <1>11 DEF Step

-----------------------------------------------------------------------------
(* Order                                                                   *)

Sound(r) == RequestsSound(r) /\ Knows(r) /\ UpdatesPending(r)

\* A run that is not under way asks for nothing and has nothing to know.
LEMMA IdleSound ==
  ASSUME ProvisioningTypeOK', NEW r \in Runs, ~Active(r)'
  PROVE  Sound(r)'
BY DEF ProvisioningTypeOK, Active, Sound, RequestsSound, Knows, UpdatesPending

\* So a step of the one run under way has to look at that run alone.
LEMMA InOrderKept ==
  ASSUME ProvisioningTypeOK', InOrder, NEW r \in Runs,
         \A s \in Runs : s # r => ~Active(s) /\ pc'[s] = pc[s],
         (Installed(sentinels) \subseteq Installed(autotasks))',
         \A a, b \in Installed(autotasks)' : a.run = b.run,
         Sound(r)'
  PROVE  InOrder'
<1>1. \A s \in Runs : s # r => ~Active(s)'
  BY DEF Active
<1>2. \A s \in Runs : Sound(s)'
  BY <1>1, IdleSound
<1> QED BY <1>1, <1>2 DEF InOrder, Sound

LEMMA OrderInit == ProvisioningInit => InOrder
BY DEF ProvisioningInit, InOrder, Active, Installed, RequestsSound, Knows, UpdatesPending

\* What stays as it is while the scripts only ask, or end.
LEMMA AsksKeep ==
  ASSUME ProvisioningTypeOK', InOrder, NEW r \in Runs, Active(r), UNCHANGED onDefender,
         \A s \in Runs : s # r => pc'[s] = pc[s],
         Sound(r)'
  PROVE  InOrder'
<1>1. \A s \in Runs : s # r => ~Active(s) /\ pc'[s] = pc[s]
  BY DEF InOrder
<1>2. /\ Installed(sentinels)' = Installed(sentinels)
      /\ Installed(autotasks)' = Installed(autotasks)
  BY DEF Installed, onDefender
<1> QED BY <1>1, <1>2, InOrderKept DEF InOrder

LEMMA OrderStep ==
  ASSUME ProvisioningTypeOK, ProvisioningTypeOK', InOrder, ~overlapped',
         NEW r \in Runs, ListTasks(r) \/ Step(r)
  PROVE  InOrder'
<1> USE DEF onDefender
<1>1. CASE ListTasks(r)
  <2>1. \A s \in Runs : s # r => ~Active(s) /\ pc'[s] = pc[s]
    BY <1>1 DEF ListTasks, Active, ProvisioningTypeOK
  <2>2. /\ pending'[r] = {} /\ pc'[r] = "listing"
        /\ ~found'[r] => Installed(autotasks)' = {}
    BY <1>1 DEF ListTasks, ProvisioningTypeOK, Installed
  <2>3. Sound(r)'
    BY <2>2 DEF Sound, RequestsSound, Knows, UpdatesPending
  <2>4. /\ Installed(sentinels)' = Installed(sentinels)
        /\ Installed(autotasks)' = Installed(autotasks)
    BY <1>1 DEF ListTasks, Installed
  <2> QED BY <2>1, <2>3, <2>4, InOrderKept DEF InOrder
<1>2. CASE ListSentinels(r)
  <2>1. /\ Active(r) /\ UNCHANGED onDefender
        /\ \A s \in Runs : s # r => pc'[s] = pc[s]
        /\ pc'[r] = IF UpdateNeeded(r) THEN "updating" ELSE "resetting"
        /\ found'[r] = found[r]
        /\ \A q \in pending'[r] : q = Op("listTasks") \/ q = Op("listSentinels")
        /\ UpdateNeeded(r) =>
             /\ found[r] => Op("listTasks") \in pending'[r]
             /\ Installed(sentinels) # {} => Op("listSentinels") \in pending'[r]
    BY <1>2 DEF ListSentinels, Active, ProvisioningTypeOK, Op
  <2>2. ~found[r] => Installed(autotasks) = {}
    BY <1>2 DEF ListSentinels, InOrder, Knows
  <2>3. RequestsSound(r)'
    BY <2>1, RequestTypes DEF RequestsSound
  <2>4. Knows(r)' /\ UpdatesPending(r)'
    BY <2>1, <2>2 DEF Knows, UpdatesPending, UpdateNeeded, Installed
  <2> QED BY <2>1, <2>3, <2>4, AsksKeep DEF Sound
<1>3. CASE AllAnswered(r)
  <2>1. /\ Active(r) /\ UNCHANGED onDefender
        /\ \A s \in Runs : s # r => pc'[s] = pc[s]
        /\ pc'[r] \in {"done", "failed"} \/ (pc[r] = "resetting" /\ pc'[r] = "rollingOut")
        /\ \A q \in pending'[r] : /\ pc[r] = "resetting"
                                  /\ \E n \in Configured[r] :
                                       q = Request("createTask", TaskID(r, n, 1))
    BY <1>3 DEF AllAnswered, Active, ProvisioningTypeOK
  <2>2. CASE pc'[r] \in {"done", "failed"}
    BY <2>1, <2>2, IdleSound, AsksKeep DEF Active
  <2>3. CASE pc[r] = "resetting" /\ pc'[r] = "rollingOut"
    <3>1. \A q \in pending'[r] : q.op = "createTask" /\ q.id.run = r
      BY <2>1, ConfiguredType, TaskIDType, RequestTypes
    <3>2. RequestsSound(r)'
      BY <2>3, <3>1 DEF RequestsSound
    <3>3. Knows(r)' /\ UpdatesPending(r)'
      BY <2>1, <2>3 DEF InOrder, Knows, UpdatesPending, Installed
    <3> QED BY <2>1, <3>2, <3>3, AsksKeep DEF Sound
  <2> QED BY <2>1, <2>2, <2>3
<1>4. CASE Fail(r)
  <2>1. /\ Active(r) /\ ~Active(r)' /\ UNCHANGED onDefender
        /\ \A s \in Runs : s # r => pc'[s] = pc[s]
    BY <1>4 DEF Fail, Active, ProvisioningTypeOK
  <2> QED BY <2>1, IdleSound, AsksKeep
<1>5. CASE ListTasksAgain(r)
  <2>1. /\ Active(r) /\ UNCHANGED <<onDefender, pc, found>> /\ pc[r] = "updating"
        /\ pending'[r] = (pending[r] \ {Op("listTasks")})
                            \cup RequestEach("updateCode", autotasks)
    BY <1>5 DEF ListTasksAgain, Active, Answered, ProvisioningTypeOK
  <2>2. \A q \in RequestEach("updateCode", autotasks) : q.op = "updateCode"
    BY RequestTypes DEF RequestEach, Installed
  <2>3. RequestsSound(r)'
    BY <2>1, <2>2 DEF InOrder, RequestsSound
  <2>4. Knows(r)'
    BY <2>1 DEF InOrder, Knows, Installed
  <2>5. UpdatesPending(r)'
    <3>1. \A id \in Installed(autotasks) : Request("updateCode", id) \in pending'[r]
      BY <2>1 DEF RequestEach
    <3>2. /\ Op("listSentinels") # Op("listTasks")
          /\ \A id \in IDs : Request("update", id) # Op("listTasks")
      BY RequestTypes
    <3>3. \A id \in Installed(sentinels) :
            \/ sentinels[id] = r
            \/ Op("listSentinels") \in pending'[r] \/ Request("update", id) \in pending'[r]
      BY <2>1, <3>2 DEF InOrder, UpdatesPending, Installed
    <3> QED BY <2>1, <3>1, <3>3 DEF UpdatesPending, Installed
  <2> QED BY <2>1, <2>3, <2>4, <2>5, AsksKeep DEF Sound
<1>6. CASE ListSentinelsAgain(r)
  <2>1. /\ Active(r) /\ UNCHANGED <<onDefender, pc, found>> /\ pc[r] = "updating"
        /\ pending'[r] = (pending[r] \ {Op("listSentinels")})
                            \cup RequestEach("update", sentinels)
    BY <1>6 DEF ListSentinelsAgain, Active, Answered, ProvisioningTypeOK
  <2>2. \A q \in RequestEach("update", sentinels) : q.op = "update"
    BY RequestTypes DEF RequestEach, Installed
  <2>3. RequestsSound(r)'
    BY <2>1, <2>2 DEF InOrder, RequestsSound
  <2>4. Knows(r)'
    BY <2>1 DEF InOrder, Knows, Installed
  <2>5. UpdatesPending(r)'
    <3>1. \A id \in Installed(sentinels) : Request("update", id) \in pending'[r]
      BY <2>1 DEF RequestEach
    <3>2. /\ Op("listSentinels") # Op("listTasks")
          /\ \A id \in IDs : Request("updateCode", id) # Op("listSentinels")
      BY RequestTypes
    <3>3. \A id \in Installed(autotasks) :
            \/ autotasks[id] = r
            \/ Op("listTasks") \in pending'[r] \/ Request("updateCode", id) \in pending'[r]
      BY <2>1, <3>2 DEF InOrder, UpdatesPending, Installed
    <3> QED BY <2>1, <3>1, <3>3 DEF UpdatesPending, Installed
  <2> QED BY <2>1, <2>3, <2>4, <2>5, AsksKeep DEF Sound
<1>7. CASE ListForReset(r)
  <2>1. /\ Active(r) /\ UNCHANGED <<onDefender, pc, found>> /\ pc[r] = "resetting"
        /\ Installed(autotasks) = {} /\ Installed(sentinels) = {}
    BY <1>7 DEF ListForReset, Active, InOrder, Knows
  <2>2. /\ RequestEach("deleteTask", autotasks) = {}
        /\ RequestEach("deleteSentinel", sentinels) = {}
    BY <2>1 DEF RequestEach
  <2>3. pending'[r] \subseteq pending[r] \cup {Op("listSentinels")}
    BY <1>7, <2>2 DEF ListForReset, Answered, ProvisioningTypeOK
  <2>4. RequestsSound(r)'
    BY <2>1, <2>3, RequestTypes DEF InOrder, RequestsSound
  <2>5. Knows(r)' /\ UpdatesPending(r)'
    BY <2>1 DEF Knows, UpdatesPending, Installed
  <2> QED BY <2>1, <2>4, <2>5, AsksKeep DEF Sound
<1>8. \A q \in pending[r] : q.op \notin {"deleteTask", "deleteSentinel"}
  BY DEF InOrder, RequestsSound
<1>9. \A s \in Runs : s # r /\ Active(r) => ~Active(s)
  BY DEF InOrder
<1>10. /\ pending \in [Runs -> SUBSET Requests] /\ r # 0
       /\ autotasks \in [IDs -> Runs \cup {0}] /\ sentinels \in [IDs -> Runs \cup {0}]
  BY ConfiguredType DEF ProvisioningTypeOK
<1>11. ASSUME NEW id \in IDs, DeleteTask(r, id) \/ DeleteSentinel(r, id)
       PROVE  FALSE
  BY <1>8, <1>11, RequestTypes DEF DeleteTask, DeleteSentinel, Answered
<1>12. ASSUME NEW id \in IDs, UpdateCode(r, id)
       PROVE  InOrder'
  <2>1. /\ Active(r) /\ UNCHANGED <<sentinels, pc, found>> /\ autotasks[id] # 0
        /\ autotasks' = [autotasks EXCEPT ![id] = r]
        /\ pending'[r] = pending[r] \ {Request("updateCode", id)}
    BY <1>10, <1>12, AnsweredActive DEF UpdateCode, Answered
  <2>2. /\ Installed(autotasks)' = Installed(autotasks)
        /\ Installed(sentinels)' = Installed(sentinels)
        /\ \A other \in IDs : autotasks'[other] = IF other = id THEN r ELSE autotasks[other]
    BY <1>10, <2>1 DEF Installed
  <2>3. /\ Op("listTasks") # Request("updateCode", id)
        /\ Op("listSentinels") # Request("updateCode", id)
        /\ \A other \in IDs : /\ Request("update", other) # Request("updateCode", id)
                              /\ other # id => Request("updateCode", other)
                                                 # Request("updateCode", id)
    BY RequestTypes
  <2>4. RequestsSound(r)'
    BY <1>10, <2>1, <2>2 DEF InOrder, RequestsSound
  <2>5. Knows(r)'
    BY <2>1, <2>2 DEF InOrder, Knows, Installed
  <2>6. UpdatesPending(r)'
    BY <2>1, <2>2, <2>3 DEF InOrder, UpdatesPending, Installed
  <2> QED BY <1>9, <2>1, <2>2, <2>4, <2>5, <2>6, InOrderKept DEF InOrder, Sound
<1>13. ASSUME NEW id \in IDs, UpdateSentinel(r, id)
       PROVE  InOrder'
  <2>1. /\ Active(r) /\ UNCHANGED <<autotasks, pc, found>> /\ sentinels[id] # 0
        /\ sentinels' = [sentinels EXCEPT ![id] = r]
        /\ pending'[r] = pending[r] \ {Request("update", id)}
    BY <1>10, <1>13, AnsweredActive DEF UpdateSentinel, Answered
  <2>2. /\ Installed(autotasks)' = Installed(autotasks)
        /\ Installed(sentinels)' = Installed(sentinels)
        /\ \A other \in IDs : sentinels'[other] = IF other = id THEN r ELSE sentinels[other]
    BY <1>10, <2>1 DEF Installed
  <2>3. /\ Op("listTasks") # Request("update", id)
        /\ Op("listSentinels") # Request("update", id)
        /\ \A other \in IDs : /\ Request("updateCode", other) # Request("update", id)
                              /\ other # id => Request("update", other)
                                                 # Request("update", id)
    BY RequestTypes
  <2>4. RequestsSound(r)'
    BY <2>1 DEF InOrder, RequestsSound
  <2>5. Knows(r)'
    BY <2>1, <2>2 DEF InOrder, Knows, Installed
  <2>6. UpdatesPending(r)'
    BY <2>1, <2>2, <2>3 DEF InOrder, UpdatesPending, Installed
  <2> QED BY <1>9, <2>1, <2>2, <2>4, <2>5, <2>6, InOrderKept DEF InOrder, Sound
<1>14. ASSUME NEW n \in Networks, NEW k \in DOMAIN Kinds, CreateTask(r, n, k)
       PROVE  InOrder'
  <2> DEFINE id == TaskID(r, n, k)
  <2>1. id \in IDs /\ id.run = r
    BY TaskIDType
  <2>2. /\ Request("createTask", id) \in pending[r]
        /\ Request("createTask", id).op = "createTask"
        /\ Active(r) /\ UNCHANGED <<sentinels, pc, found>>
        /\ autotasks' = [autotasks EXCEPT ![id] = r]
        /\ pending'[r] = (pending[r] \ {Request("createTask", id)})
                           \cup {Request("createSentinel", id)}
    BY <1>10, <1>14, <2>1, AnsweredActive, RequestTypes DEF CreateTask, Answered
  <2>3. /\ Request("createSentinel", id).op = "createSentinel"
        /\ Request("createSentinel", id).id = id
    BY <2>1, RequestTypes
  <2> HIDE DEF id
  <2>4. pc[r] = "rollingOut"
    BY <2>2 DEF InOrder, RequestsSound
  <2>5. /\ Installed(autotasks)' = Installed(autotasks) \cup {id}
        /\ Installed(sentinels)' = Installed(sentinels)
        /\ \A other \in IDs : autotasks'[other] = IF other = id THEN r ELSE autotasks[other]
    BY <1>10, <2>1, <2>2 DEF Installed
  <2>6. RequestsSound(r)'
    <3>1. \A q \in pending[r] : q.op = "createSentinel" => autotasks'[q.id] # 0
      BY <1>10, <2>2 DEF InOrder, RequestsSound
    <3> QED BY <1>10, <2>1, <2>2, <2>3, <2>4, <2>5, <3>1 DEF InOrder, RequestsSound
  <2>7. Knows(r)' /\ UpdatesPending(r)'
    <3>1. \A other \in Installed(autotasks)' : other.run = r /\ autotasks'[other] = r
      <4> TAKE other \in Installed(autotasks)'
      <4>1. other \in IDs /\ (other = id \/ other \in Installed(autotasks))
        BY <2>1, <2>5 DEF Installed
      <4> QED BY <2>1, <2>4, <2>5, <4>1 DEF InOrder, Knows
    <3>2. \A other \in Installed(sentinels)' : sentinels'[other] = r
      BY <2>2, <2>4, <2>5 DEF InOrder, Knows
    <3> QED BY <2>2, <2>4, <3>1, <3>2 DEF Knows, UpdatesPending
  <2>8. \A a, b \in Installed(autotasks)' : a.run = b.run
    BY <2>1, <2>4, <2>5 DEF InOrder, Knows
  <2> QED BY <1>9, <2>2, <2>5, <2>6, <2>7, <2>8, InOrderKept DEF InOrder, Sound
<1>15. ASSUME NEW n \in Networks, NEW k \in DOMAIN Kinds, CreateSentinel(r, n, k)
       PROVE  InOrder'
  <2> DEFINE id == TaskID(r, n, k)
             next == {Request("createTask", TaskID(r, n, j)) :
                        j \in {k + 1} \cap DOMAIN Kinds}
  <2>1. id \in IDs /\ id.run = r
    BY TaskIDType
  <2>2. \A q \in next : q.op = "createTask" /\ q.id.run = r
    BY TaskIDType, RequestTypes
  <2>3. /\ Request("createSentinel", id) \in pending[r]
        /\ Request("createSentinel", id).op = "createSentinel"
        /\ Request("createSentinel", id).id = id
        /\ Active(r) /\ UNCHANGED <<autotasks, pc, found>>
        /\ sentinels' \in {sentinels, [sentinels EXCEPT ![id] = r]}
        /\ pending'[r] = (pending[r] \ {Request("createSentinel", id)}) \cup next
    BY <1>10, <1>15, <2>1, AnsweredActive, RequestTypes DEF CreateSentinel, Answered
  <2> HIDE DEF id, next
  <2>4. pc[r] = "rollingOut" /\ id \in Installed(autotasks)
    BY <2>1, <2>3 DEF InOrder, RequestsSound, Installed
  <2>5. /\ Installed(autotasks)' = Installed(autotasks)
        /\ Installed(sentinels)' \subseteq Installed(sentinels) \cup {id}
        /\ \A other \in IDs : sentinels'[other] \in {r, sentinels[other]}
    BY <1>10, <2>1, <2>3 DEF Installed
  <2>6. RequestsSound(r)'
    BY <2>2, <2>3, <2>4 DEF InOrder, RequestsSound
  <2>7. Knows(r)' /\ UpdatesPending(r)'
    <3>1. \A other \in Installed(sentinels)' : sentinels'[other] = r
      <4> TAKE other \in Installed(sentinels)'
      <4>1. other \in IDs /\ sentinels'[other] # 0
        BY DEF Installed
      <4>2. sentinels[other] # 0 => sentinels[other] = r
        BY <2>4, <4>1 DEF InOrder, Knows, Installed
      <4> QED BY <2>5, <4>1, <4>2
    <3>2. \A other \in Installed(autotasks)' : other.run = r /\ autotasks'[other] = r
      BY <2>3, <2>4, <2>5 DEF InOrder, Knows
    <3> QED BY <2>3, <2>4, <3>1, <3>2 DEF Knows, UpdatesPending
  <2> QED BY <1>9, <2>3, <2>4, <2>5, <2>6, <2>7, InOrderKept DEF InOrder, Sound
<1> QED BY <1>1, <1>2, <1>3, <1>4, <1>5, <1>6, <1>7, <1>11, <1>12, <1>13, <1>14, <1>15
        DEF Step

\* The inductive invariant of the scripts: one run at a time, whose requests fit
\* what is installed.
THEOREM ProvisioningInvariant == ProvisioningSpec => []ProvisioningInv
<1>1. ProvisioningInit => ProvisioningInv
  BY TypeInit, OrderInit DEF ProvisioningInv
<1>2. ProvisioningInv /\ [ProvisioningNext]_provisioningVars => ProvisioningInv'
  <2>1. ASSUME ProvisioningInv, NEW r \in Runs, ListTasks(r) \/ Step(r)
        PROVE  ProvisioningInv'
    <3>1. ProvisioningTypeOK /\ ProvisioningTypeOK'
      BY <2>1, TypeStep DEF ProvisioningInv
    <3>2. overlapped => overlapped'
      BY <2>1 DEF Step, ListTasks, ListSentinels, AllAnswered, Fail, ListTasksAgain,
                  ListSentinelsAgain, ListForReset, UpdateCode, UpdateSentinel,
                  DeleteTask, DeleteSentinel, CreateTask, CreateSentinel
    <3>3. ~overlapped' => InOrder'
      BY <2>1, <3>1, <3>2, OrderStep DEF ProvisioningInv
    <3> QED BY <3>1, <3>3 DEF ProvisioningInv
  <2>2. ASSUME ProvisioningInv, UNCHANGED provisioningVars
        PROVE  ProvisioningInv'
    BY <2>2 DEF ProvisioningInv, ProvisioningTypeOK, InOrder, Active, Installed,
                RequestsSound, Knows, UpdatesPending, provisioningVars, onDefender
  <2> QED BY <2>1, <2>2 DEF ProvisioningNext
<1> QED BY <1>1, <1>2, PTL DEF ProvisioningSpec

\* Whatever Defender answers, and in whatever order, no run asks for something
\* that is not a request of the scripts.
THEOREM ProvisioningTypeCorrect == ProvisioningSpec => []ProvisioningTypeOK
BY ProvisioningInvariant, PTL DEF ProvisioningInv

\* Whatever fails, no sentinel triggers a task that is not there, and no network
\* has a task twice, as long as runs do not overlap.
THEOREM NothingStrays == ProvisioningSpec => []NoStrays
<1>1. ProvisioningInv => NoStrays
  <2> SUFFICES ASSUME ProvisioningInv, ~overlapped
               PROVE  /\ Installed(sentinels) \subseteq Installed(autotasks)
                      /\ \A a, b \in Installed(autotasks) :
                           a.network = b.network /\ a.kind = b.kind => a = b
    BY DEF NoStrays
  <2>1. \A a, b \in Installed(autotasks) : a \in IDs /\ b \in IDs /\ a.run = b.run
    BY DEF ProvisioningInv, InOrder, Installed
  <2>2. \A a, b \in IDs : a.run = b.run /\ a.network = b.network /\ a.kind = b.kind
                            => a = b
    BY DEF IDs
  <2> QED BY <2>1, <2>2 DEF ProvisioningInv, InOrder
<1> QED BY <1>1, ProvisioningInvariant, PTL

\* A run that ends well leaves its own code and addresses on all of Defender,
\* although nobody waits for its updates.
THEOREM DoneLeavesCurrent == ProvisioningSpec => DoneIsCurrent
<1> DEFINE Current ==
      \A r \in Runs : pc[r] # "done" /\ pc'[r] = "done" /\ ~overlapped =>
        /\ \A id \in Installed(autotasks) : autotasks[id] = r
        /\ \A id \in Installed(sentinels) : sentinels[id] = r
<1>1. ProvisioningInv /\ [ProvisioningNext]_provisioningVars => [Current]_provisioningVars
  <2> SUFFICES ASSUME ProvisioningInv, ProvisioningNext, NEW r \in Runs,
                      pc[r] # "done", pc'[r] = "done", ~overlapped
               PROVE  /\ \A id \in Installed(autotasks) : autotasks[id] = r
                      /\ \A id \in Installed(sentinels) : sentinels[id] = r
    OBVIOUS
  <2>1. PICK s \in Runs : ListTasks(s) \/ Step(s)
    BY DEF ProvisioningNext
  <2>2. pc \in [Runs -> Phases]
    BY DEF ProvisioningInv, ProvisioningTypeOK
  <2>3. AllAnswered(s) /\ s = r
    BY <2>1, <2>2 DEF Step, ListTasks, ListSentinels, AllAnswered, Fail, ListTasksAgain,
                  ListSentinelsAgain, ListForReset, UpdateCode, UpdateSentinel,
                  DeleteTask, DeleteSentinel, CreateTask, CreateSentinel
  <2>4. pc[r] \in {"updating", "rollingOut"} /\ pending[r] = {}
    BY <2>2, <2>3 DEF AllAnswered
  <2>5. Knows(r) /\ UpdatesPending(r)
    BY DEF ProvisioningInv, InOrder
  <2> QED BY <2>4, <2>5 DEF Knows, UpdatesPending
<1>2. ProvisioningSpec => [][Current]_provisioningVars
  BY <1>1, ProvisioningInvariant, PTL DEF ProvisioningSpec
<1> QED BY <1>2 DEF DoneIsCurrent
===============================================================================
