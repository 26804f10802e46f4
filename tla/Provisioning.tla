----------------------------- MODULE Provisioning -----------------------------
(***************************************************************************)
(* The scripts of defender/src that install the autotasks of AllowlistCache *)
(* on OpenZeppelin Defender, and the sentinels that trigger them.  One run  *)
(* of setup.ts lists what is there and either updates it or rolls out anew. *)
(*                                                                         *)
(* An action is one request to Defender; its requests run concurrently      *)
(* wherever the code maps over a list or does not await.  A rejection that  *)
(* nobody catches ends the process and with it every request not yet made.  *)
(* The deployment workflow starts a run for each push to main, and nothing  *)
(* keeps two runs apart.                                                    *)
(***************************************************************************)
EXTENDS Naturals, Sequences, SequencesExt, FiniteSets

CONSTANTS
  Networks,     \* the networks Defender knows
  Kinds,        \* the autotasks of a network, in the order they are rolled out
  Configured    \* the networks configured in the code each run deploys

ASSUME ProvisioningAssumption ==
  /\ Kinds \in Seq(ToSet(Kinds)) /\ Kinds # <<>> /\ IsInjective(Kinds)
  /\ Configured \in Seq(SUBSET Networks)

\* The runs in the order of the code they deploy; 0 stands for no code at all.
Runs == DOMAIN Configured

\* encodeName(network, kind), and the run that created it: names need not be
\* unique on Defender.  A sentinel has the ID of the task it triggers.
IDs == [run : Runs, network : Networks, kind : ToSet(Kinds)]

VARIABLES
  autotasks,   \* ID -> the run whose code it has, 0 if it does not exist
  sentinels,   \* ID -> the run whose address and ABI it has, 0 if none
  pc,          \* run -> where setup() is
  found,       \* run -> whether the first list of autotasks had any
  pending,     \* run -> the requests it may make next
  missed,      \* history: the runs that logged a failure and went on
  overlapped   \* history: two runs have been under way at once

onDefender == <<autotasks, sentinels>>
provisioningVars == <<onDefender, pc, found, pending, missed, overlapped>>

Requests ==
  [op : {"updateCode", "update", "deleteTask", "deleteSentinel"}, id : IDs]
    \cup [op : {"listTasks", "listSentinels"}]
    \cup [op : {"createTask", "createSentinel"}, id : IDs]

Phases == {"idle", "listing", "updating", "resetting", "rollingOut", "done", "failed"}

ProvisioningTypeOK ==
  /\ autotasks \in [IDs -> Runs \cup {0}]
  /\ sentinels \in [IDs -> Runs \cup {0}]
  /\ pc \in [Runs -> Phases]
  /\ found \in [Runs -> BOOLEAN]
  /\ pending \in [Runs -> SUBSET Requests]
  /\ \A r \in Runs : pending[r] # {} => pc[r] \in {"updating", "resetting", "rollingOut"}
  /\ missed \subseteq Runs
  /\ overlapped \in BOOLEAN

ProvisioningInit ==
  /\ autotasks = [id \in IDs |-> 0]
  /\ sentinels = [id \in IDs |-> 0]
  /\ pc = [r \in Runs |-> "idle"]
  /\ found = [r \in Runs |-> FALSE]
  /\ pending = [r \in Runs |-> {}]
  /\ missed = {}
  /\ overlapped = FALSE

Installed(existing) == {id \in IDs : existing[id] # 0}
Active(r) == pc[r] \notin {"idle", "done", "failed"}

Op(op) == [op |-> op]
Request(op, id) == [op |-> op, id |-> id]
RequestEach(op, existing) == {Request(op, id) : id \in Installed(existing)}
TaskID(r, n, k) == [run |-> r, network |-> n, kind |-> Kinds[k]]

\* Run r has had its answer to request q and makes the requests next after it.
Answered(r, q, next) ==
  /\ q \in pending[r]
  /\ pending' = [pending EXCEPT ![r] = (@ \ {q}) \cup next]

-----------------------------------------------------------------------------
(* setup                                                                   *)

\* The first thing setup() does is list the autotasks.
ListTasks(r) ==
  /\ pc[r] = "idle"
  /\ \A earlier \in 1..(r - 1) : pc[earlier] # "idle"
  /\ pc' = [pc EXCEPT ![r] = "listing"]
  /\ found' = [found EXCEPT ![r] = Installed(autotasks) # {}]
  /\ overlapped' = (overlapped \/ \E other \in Runs : Active(other))
  /\ UNCHANGED <<onDefender, pending, missed>>

UpdateNeeded(r) == found[r] \/ Installed(sentinels) # {}

\* It then lists the sentinels, and starts the updates without awaiting them;
\* each lists again what it updates.  With nothing to update it resets first.
ListSentinels(r) ==
  /\ pc[r] = "listing"
  /\ IF UpdateNeeded(r)
     THEN /\ pc' = [pc EXCEPT ![r] = "updating"]
          /\ pending' = [pending EXCEPT ![r] =
               {q \in {Op("listTasks"), Op("listSentinels")} :
                  /\ q.op = "listTasks" => found[r]
                  /\ q.op = "listSentinels" => Installed(sentinels) # {}}]
     ELSE /\ pc' = [pc EXCEPT ![r] = "resetting"]
          /\ pending' = [pending EXCEPT ![r] = {Op("listTasks")}]
  /\ UNCHANGED <<onDefender, found, missed, overlapped>>

\* What the run has started is over: a reset is followed by the rollout, which
\* goes through the networks side by side; after anything else the process ends.
AllAnswered(r) ==
  /\ pc[r] \in {"updating", "resetting", "rollingOut"}
  /\ pending[r] = {}
  /\ pc' = [pc EXCEPT ![r] =
       CASE @ # "resetting" -> "done"
         [] @ = "resetting" /\ Configured[r] = {} -> "failed"
         [] OTHER -> "rollingOut"]
  /\ pending' = [pending EXCEPT ![r] =
       IF pc[r] = "resetting"
       THEN {Request("createTask", TaskID(r, n, 1)) : n \in Configured[r]}
       ELSE {}]
  /\ UNCHANGED <<onDefender, found, missed, overlapped>>

\* Mutant of Fail: the process outlives a rejection that nobody catches.
FailAndGoOn(r) ==
  /\ Active(r)
  /\ pc[r] = "listing" \/ \E q \in pending[r] : q.op # "createSentinel"
  /\ pc' = [pc EXCEPT ![r] = "failed"]
  /\ UNCHANGED <<onDefender, found, pending, missed, overlapped>>

\* A request is refused or a name makes no sense: the rejection ends the process.
Fail(r) ==
  /\ Active(r)
  /\ pc[r] = "listing" \/ \E q \in pending[r] : q.op # "createSentinel"
  /\ pc' = [pc EXCEPT ![r] = "failed"]
  /\ pending' = [pending EXCEPT ![r] = {}]
  /\ UNCHANGED <<onDefender, found, missed, overlapped>>

-----------------------------------------------------------------------------
(* updateAutotask and updateSentinel                                       *)

ListTasksAgain(r) ==
  /\ pc[r] = "updating"
  /\ Answered(r, Op("listTasks"), RequestEach("updateCode", autotasks))
  /\ UNCHANGED <<onDefender, pc, found, missed, overlapped>>

\* A sentinel of a network that is no longer configured has no address to be
\* updated with, and the run fails.
ListSentinelsAgain(r) ==
  /\ pc[r] = "updating"
  /\ \A id \in Installed(sentinels) : id.network \in Configured[r]
  /\ Answered(r, Op("listSentinels"), RequestEach("update", sentinels))
  /\ UNCHANGED <<onDefender, pc, found, missed, overlapped>>

UpdateCode(r, id) ==
  /\ autotasks[id] # 0
  /\ Answered(r, Request("updateCode", id), {})
  /\ autotasks' = [autotasks EXCEPT ![id] = r]
  /\ UNCHANGED <<sentinels, pc, found, missed, overlapped>>

\* Mutant of UpdateSentinel: the sentinel is sent back as it was listed.
UpdateSentinelUnchanged(r, id) ==
  /\ sentinels[id] # 0
  /\ Answered(r, Request("update", id), {})
  /\ UNCHANGED <<onDefender, pc, found, missed, overlapped>>

UpdateSentinel(r, id) ==
  /\ sentinels[id] # 0
  /\ Answered(r, Request("update", id), {})
  /\ sentinels' = [sentinels EXCEPT ![id] = r]
  /\ UNCHANGED <<autotasks, pc, found, missed, overlapped>>

-----------------------------------------------------------------------------
(* reset: both lists are awaited before anything is deleted.               *)

ListForReset(r) ==
  /\ pc[r] = "resetting"
  /\ \/ Answered(r, Op("listTasks"),
                 RequestEach("deleteTask", autotasks) \cup {Op("listSentinels")})
     \/ Answered(r, Op("listSentinels"), RequestEach("deleteSentinel", sentinels))
  /\ UNCHANGED <<onDefender, pc, found, missed, overlapped>>

DeleteTask(r, id) ==
  /\ Op("listSentinels") \notin pending[r]
  /\ autotasks[id] # 0
  /\ Answered(r, Request("deleteTask", id), {})
  /\ autotasks' = [autotasks EXCEPT ![id] = 0]
  /\ UNCHANGED <<sentinels, pc, found, missed, overlapped>>

DeleteSentinel(r, id) ==
  /\ sentinels[id] # 0
  /\ Answered(r, Request("deleteSentinel", id), {})
  /\ sentinels' = [sentinels EXCEPT ![id] = 0]
  /\ UNCHANGED <<autotasks, pc, found, missed, overlapped>>

-----------------------------------------------------------------------------
(* rollOut: for each network a chain of tasks, each with its sentinel.     *)

\* Mutant of CreateTask: nobody asks whether the task was created.
CreateTaskUnchecked(r, n, k) ==
  LET id == TaskID(r, n, k)
  IN  /\ Answered(r, Request("createTask", id), {Request("createSentinel", id)})
      /\ autotasks' \in {autotasks, [autotasks EXCEPT ![id] = r]}
      /\ UNCHANGED <<sentinels, pc, found, missed, overlapped>>

CreateTask(r, n, k) ==
  LET id == TaskID(r, n, k)
  IN  /\ Answered(r, Request("createTask", id), {Request("createSentinel", id)})
      /\ autotasks' = [autotasks EXCEPT ![id] = r]
      /\ UNCHANGED <<sentinels, pc, found, missed, overlapped>>

\* Mutant of CreateSentinel: the chain ends one task early.
CreateSentinelShort(r, n, k) ==
  LET id == TaskID(r, n, k)
  IN  /\ Answered(r, Request("createSentinel", id),
                  {Request("createTask", TaskID(r, n, j)) :
                     j \in {k + 1} \cap 1..(Len(Kinds) - 1)})
      /\ sentinels' = [sentinels EXCEPT ![id] = r]
      /\ UNCHANGED <<autotasks, pc, found, missed, overlapped>>

\* createSentinel logs a refusal and the chain goes on without the sentinel.
CreateSentinel(r, n, k) ==
  LET id == TaskID(r, n, k)
  IN  /\ Answered(r, Request("createSentinel", id),
                  {Request("createTask", TaskID(r, n, j)) :
                     j \in {k + 1} \cap DOMAIN Kinds})
      /\ \/ sentinels' = [sentinels EXCEPT ![id] = r] /\ UNCHANGED missed
         \/ missed' = missed \cup {r} /\ UNCHANGED sentinels
      /\ UNCHANGED <<autotasks, pc, found, overlapped>>

-----------------------------------------------------------------------------

Step(r) ==
  \/ ListSentinels(r) \/ AllAnswered(r) \/ Fail(r)
  \/ ListTasksAgain(r) \/ ListSentinelsAgain(r)
  \/ ListForReset(r)
  \/ \E id \in IDs : \/ UpdateCode(r, id) \/ UpdateSentinel(r, id)
                     \/ DeleteTask(r, id) \/ DeleteSentinel(r, id)
  \/ \E n \in Networks, k \in DOMAIN Kinds :
       CreateTask(r, n, k) \/ CreateSentinel(r, n, k)

ProvisioningNext == \E r \in Runs : ListTasks(r) \/ Step(r)

\* Defender answers every request of a run that has started.
ProvisioningSpec ==
  /\ ProvisioningInit /\ [][ProvisioningNext]_provisioningVars
  /\ \A r \in Runs : WF_provisioningVars(Step(r))

-----------------------------------------------------------------------------
(* Properties                                                              *)

\* What a network's allowlists depend on is there: each task, and the sentinel
\* that triggers it.
Served(n) ==
  \A k \in ToSet(Kinds) : \E id \in Installed(autotasks) \cap Installed(sentinels) :
    id.network = n /\ id.kind = k

\* Whatever fails, no sentinel triggers a task that is not there, and no network
\* has a task twice (each event would then be handled twice), as long as no run
\* starts while another is under way.
NoStrays ==
  ~overlapped =>
    /\ Installed(sentinels) \subseteq Installed(autotasks)
    /\ \A a, b \in Installed(autotasks) :
         a.network = b.network /\ a.kind = b.kind => a = b

\* A run that ends well leaves every task and sentinel of Defender with its own
\* code and addresses, although its updates are not awaited by anybody.
DoneIsCurrent ==
  [][\A r \in Runs : pc[r] # "done" /\ pc'[r] = "done" /\ ~overlapped =>
       /\ \A id \in Installed(autotasks) : autotasks[id] = r
       /\ \A id \in Installed(sentinels) : sentinels[id] = r]_provisioningVars

\* A rollout on an empty account serves every configured network in the end,
\* unless a request failed; a refused sentinel only shows in the log.
RolloutServes ==
  \A r \in Runs :
    pc[r] = "rollingOut" ~>
      \/ pc[r] = "failed" \/ r \in missed \/ overlapped
      \/ (pc[r] = "done" /\ \A n \in Configured[r] : Served(n))
=============================================================================
