------------------------------- MODULE MCJobs -------------------------------
(***************************************************************************)
(* A batch before and after its dispatch: its intake (Intake), and in the  *)
(* daemon the choice of a runtime for the job (Routing) and the run of its *)
(* prompts (PromptPool).                                                   *)
(*                                                                         *)
(* Each takes what the one before hands it as free, so they are run side   *)
(* by side: a behaviour of this module is a behaviour of one of the three. *)
(***************************************************************************)
EXTENDS Intake, PromptPool, Routing

CONSTANTS i1, i2, i3, i4

VARIABLE side     \* the module whose behaviour this is

-----------------------------------------------------------------------------
(* PromptPool.  Chats with a repeated id, a chunk and a half between other  *)
(* rows, and ids that repeat one which was refused.                         *)

Chat(i)   == [id |-> i, kind |-> "chat"]
Embed(i)  == [id |-> i, kind |-> "embed"]
Listed(i) == [id |-> i, kind |-> "list"]
Stream(i) == [id |-> i, kind |-> "stream"]

OneRow == <<Listed(i1)>>
SomeInputs == {<<Chat(i1), Chat(i2), Chat(i1), Chat(i3)>>,
               <<Embed(i1), Chat(i2), Embed(i3), Embed(i4)>>,
               <<Stream(i1), Embed(i1), Listed(i2), Embed(i3)>>,
               <<Stream(i1), Embed(i1)>>, OneRow}

ASSUME PoolAssumption

(* Routing.  One runtime that pulls behind one that does not.               *)
TwoRuntimes == <<"vllm", "ollama">>
OneManager == <<"ollama">>

ASSUME RoutingAssumption

-----------------------------------------------------------------------------
JobsInit ==
    /\ side \in {"intake", "routing", "prompts"}
    /\ Init /\ RouteInit /\ PoolInit
    /\ side # "routing" => \A r \in DOMAIN up : up[r] /\ has[r] = {}
    /\ side # "prompts" => rows = OneRow /\ hosted

JobsNext ==
    \/ side = "intake" /\ Next /\ UNCHANGED <<routeVars, poolVars, side>>
    \/ side = "routing" /\ RouteNext /\ UNCHANGED <<vars, poolVars, side>>
    \/ side = "prompts" /\ PoolNext /\ UNCHANGED <<vars, routeVars, side>>

all == <<vars, routeVars, poolVars, side>>
JobsSpec == JobsInit /\ [][JobsNext]_all
JobsFairness ==
    /\ Fairness /\ RouteFairness
    /\ WF_poolVars(side = "prompts" /\ OwnStep)
    /\ \A w \in Workers : WF_poolVars(side = "prompts" /\ WorkerStep(w))
FairJobs == JobsSpec /\ JobsFairness

-----------------------------------------------------------------------------
\* The state of each module is of its type.
JobsTypeOK ==
    CASE side = "intake" -> TypeOK
      [] side = "routing" -> RouteTypeOK
      [] side = "prompts" -> PoolTypeOK

\* In the daemon a job is routed or reported, whatever runtimes do meanwhile,
\* and the run of its prompts ends, whatever breaks.
JobEnds == JobIsSettled /\ (side = "prompts" => RunEnds)
=============================================================================
