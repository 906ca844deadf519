------------------------------- MODULE NodeApi -------------------------------
(***************************************************************************)
(* The programming interface of the node, api/src/api/api_node.rs: a       *)
(* singleton that threads of an application configure, start and end.  A   *)
(* mutex makes start_prep, start_complete, start_revert, end_prep and      *)
(* end_complete atomic, but not start() and end(): Validator::new and      *)
(* Validator::shut_down (node/src/validator/mod.rs) run between them, and  *)
(* the pending states are what keeps other threads out.                    *)
(*                                                                         *)
(* A validator is a number, its consensus tasks and its REST server are    *)
(* the things that run.  The chain is the number of its blocks.            *)
(***************************************************************************)
EXTENDS Integers

CONSTANTS Thread,           \* the threads of the application
          Config,           \* the settings that are locked by the first start
          KeepState,        \* those of them that have the keep_state flag
          MaxValidators,    \* bound on the number of validators made
          MaxBlocks         \* bound on the number of blocks

ASSUME ApiAssumption ==
    /\ MaxValidators \in Nat /\ MaxBlocks \in Nat
    /\ KeepState \subseteq Config

VARIABLES
    state, prev_state,      \* the state engine
    config,                 \* network, REST endpoint and ledger settings
    validator,              \* the validator in the data: 0 is ValidatorApi::None
    shutdown,               \* the flag that all validators share
    pc,                     \* where each thread is inside start() or end()
    mine,                   \* the validator each thread is making or ending
    made,                   \* the number of validators made so far
    consensus, rest,        \* the validators whose consensus, or REST server, runs
    settings,               \* the settings each validator was made with
    blocks                  \* the height of the chain

data == <<state, prev_state, config, validator>>
running == <<consensus, rest, settings>>
vars == <<data, shutdown, pc, mine, made, running, blocks>>

Goto(p, label) == pc' = [pc EXCEPT ![p] = label]

IsState(S) == state \in S

-----------------------------------------------------------------------------
(* Configuration: cfg_network, cfg_rest and cfg_ledger.  The log settings   *)
(* may change in Stopped too and have no effect on anything here.           *)

\* Mutant: a node that is about to start can still be configured.
ConfigurePending(g) ==
    /\ IsState({"Init", "StartPending"})
    /\ config' = g
    /\ UNCHANGED <<state, prev_state, validator, shutdown, pc, mine, made, running, blocks>>

Configure(g) ==
    /\ IsState({"Init"})
    /\ config' = g
    /\ UNCHANGED <<state, prev_state, validator, shutdown, pc, mine, made, running, blocks>>

-----------------------------------------------------------------------------
(* start().                                                                 *)

\* Mutant: start is also allowed while another start is pending.
StartPrepPending(p) ==
    /\ pc[p] = "idle"
    /\ made < MaxValidators
    /\ IsState({"Init", "Stopped", "StartPending"})
    /\ prev_state' = state
    /\ state' = "StartPending"
    /\ made' = made + 1
    /\ mine' = [mine EXCEPT ![p] = made + 1]
    /\ settings' = [settings EXCEPT ![made + 1] = {config}]
    /\ blocks' = IF config \in KeepState THEN blocks ELSE 0
    /\ Goto(p, "launch")
    /\ UNCHANGED <<config, validator, shutdown, consensus, rest>>

\* A temporary ledger is cleaned, and the settings are copied out for Validator::new.
StartPrep(p) ==
    /\ pc[p] = "idle"
    /\ made < MaxValidators
    /\ IsState({"Init", "Stopped"})
    /\ prev_state' = state
    /\ state' = "StartPending"
    /\ made' = made + 1
    /\ mine' = [mine EXCEPT ![p] = made + 1]
    /\ settings' = [settings EXCEPT ![made + 1] = {config}]
    /\ blocks' = IF config \in KeepState THEN blocks ELSE 0
    /\ Goto(p, "launch")
    /\ UNCHANGED <<config, validator, shutdown, consensus, rest>>

\* Validator::new as far as consensus.run: the consensus tasks start, or an error
\* (which leaves none of them behind) is returned.
Launch(p) ==
    /\ pc[p] = "launch"
    /\ \/ Goto(p, "bind") /\ consensus' = consensus \cup {mine[p]}
       \/ Goto(p, "revert") /\ UNCHANGED consensus
    /\ UNCHANGED <<data, shutdown, mine, made, rest, settings, blocks>>

\* Mutant: consensus keeps running when the REST server does not start.
BindRestLeaks(p) ==
    /\ pc[p] = "bind"
    /\ \/ Goto(p, "complete") /\ rest' = rest \cup {mine[p]}
       \/ Goto(p, "revert") /\ UNCHANGED rest
    /\ UNCHANGED <<data, shutdown, mine, made, consensus, settings, blocks>>

\* Rest::start: the port is bound, or it is not and consensus is shut down.
BindRest(p) ==
    /\ pc[p] = "bind"
    /\ \/ Goto(p, "complete") /\ rest' = rest \cup {mine[p]} /\ UNCHANGED consensus
       \/ Goto(p, "revert") /\ consensus' = consensus \ {mine[p]} /\ UNCHANGED rest
    /\ UNCHANGED <<data, shutdown, mine, made, settings, blocks>>

StartComplete(p) ==
    /\ pc[p] = "complete"
    /\ validator' = mine[p]
    /\ prev_state' = state
    /\ state' = "Started"
    /\ Goto(p, "idle")
    /\ UNCHANGED <<config, shutdown, mine, made, running, blocks>>

\* Mutant: a failed start leaves the pending state.
StartRevertPending(p) ==
    /\ pc[p] = "revert"
    /\ Goto(p, "idle")
    /\ UNCHANGED <<data, shutdown, mine, made, running, blocks>>

StartRevert(p) ==
    /\ pc[p] = "revert"
    /\ state' = prev_state
    /\ Goto(p, "idle")
    /\ UNCHANGED <<prev_state, config, validator, shutdown, mine, made, running, blocks>>

-----------------------------------------------------------------------------
(* end().                                                                   *)

EndPrep(p) ==
    /\ pc[p] = "idle"
    /\ IsState({"Started"})
    /\ prev_state' = state
    /\ state' = "StopPending"
    /\ mine' = [mine EXCEPT ![p] = validator]
    /\ Goto(p, "stop")
    /\ UNCHANGED <<config, validator, shutdown, made, running, blocks>>

\* Validator::shut_down: the flag, then the REST server, ...
StopRest(p) ==
    /\ pc[p] = "stop"
    /\ shutdown' = TRUE
    /\ rest' = rest \ {mine[p]}
    /\ Goto(p, "stop_consensus")
    /\ UNCHANGED <<data, mine, made, consensus, settings, blocks>>

\* ... then consensus, which waits for the BFT.
StopConsensus(p) ==
    /\ pc[p] = "stop_consensus"
    /\ consensus' = consensus \ {mine[p]}
    /\ Goto(p, "end")
    /\ UNCHANGED <<data, shutdown, mine, made, rest, settings, blocks>>

EndComplete(p) ==
    /\ pc[p] = "end"
    /\ validator' = 0
    /\ prev_state' = state
    /\ state' = "Stopped"
    /\ Goto(p, "idle")
    /\ UNCHANGED <<config, shutdown, mine, made, running, blocks>>

-----------------------------------------------------------------------------
(* The chain.                                                               *)

\* The consensus tasks of a validator make a block; advance_to_next_block refuses it
\* once the shutdown flag is set.
AddBlock(v) ==
    /\ v \in consensus
    /\ ~shutdown
    /\ blocks < MaxBlocks
    /\ blocks' = blocks + 1
    /\ UNCHANGED <<data, shutdown, pc, mine, made, running>>

Init ==
    /\ state = "Init" /\ prev_state = "Init"
    /\ config \in Config
    /\ validator = 0 /\ shutdown = FALSE
    /\ pc = [p \in Thread |-> "idle"] /\ mine = [p \in Thread |-> 0]
    /\ made = 0 /\ consensus = {} /\ rest = {} /\ blocks = 0
    /\ settings = [v \in 1..MaxValidators |-> {}]

\* A step of a call that has begun.
CallStep(p) ==
    \/ Launch(p) \/ BindRest(p) \/ StartComplete(p) \/ StartRevert(p)
    \/ StopRest(p) \/ StopConsensus(p) \/ EndComplete(p)

Next ==
    \/ \E g \in Config : Configure(g)
    \/ \E p \in Thread : StartPrep(p) \/ EndPrep(p) \/ CallStep(p)
    \/ \E v \in 1..MaxValidators : AddBlock(v)

Spec == Init /\ [][Next]_vars

\* A call that was made is driven to its end, and the loops of the primary run.
FairSpec ==
    /\ Spec
    /\ \A p \in Thread : WF_vars(CallStep(p))
    /\ WF_vars(\E v \in 1..MaxValidators : AddBlock(v))

-----------------------------------------------------------------------------
(* Properties.                                                              *)

State == {"Init", "StartPending", "Started", "StopPending", "Stopped"}

StartLabel == {"launch", "bind", "complete", "revert"}
EndLabel == {"stop", "stop_consensus", "end"}

\* The types of the state engine of AmareleoApiData and of what runs.
TypeOK ==
    /\ state \in State /\ prev_state \in State
    /\ config \in Config
    /\ validator \in 0..MaxValidators
    /\ shutdown \in BOOLEAN
    /\ pc \in [Thread -> {"idle"} \cup StartLabel \cup EndLabel]
    /\ mine \in [Thread -> 0..MaxValidators]
    /\ made \in 0..MaxValidators
    /\ consensus \subseteq 1..MaxValidators /\ rest \subseteq 1..MaxValidators
    /\ settings \in [1..MaxValidators -> SUBSET Config]
    /\ blocks \in 0..MaxBlocks

\* "Sandwiching validator::new between them, secures against concurrency": whatever the
\* threads call, at most one of them is inside start() or end(), and then the state is
\* the pending state of its call.
OneCall ==
    /\ \A p, q \in Thread : pc[p] # "idle" /\ pc[q] # "idle" => p = q
    /\ \A p \in Thread : /\ pc[p] \in StartLabel => state = "StartPending"
                         /\ pc[p] \in EndLabel => state = "StopPending"

\* At most one validator runs, nothing of it runs in Init or Stopped (a failed start
\* included), all of it in Started, and end() gets hold of the one that runs.
OneValidator ==
    /\ \A v, w \in consensus \cup rest : v = w
    /\ state \in {"Init", "Stopped"} => consensus = {} /\ rest = {} /\ validator = 0
    /\ state = "Started" => consensus = {validator} /\ rest = {validator}

\* "Node configuration is completely locked and node is running": the settings that
\* the getters report are those of the validator that runs.
ConfigLocked ==
    \A v \in consensus \cup rest : settings[v] = {config}

\* A call never leaves the node pending.
PendingResolves ==
    state \in {"StartPending", "StopPending"} ~> state \in {"Init", "Stopped", "Started"}

\* "Each run keeps adding blocks": a started node that keeps its state adds blocks, the
\* first time and every other time.
StartedAddsBlocks ==
    \A n \in 0..(MaxBlocks - 1) :
        state = "Started" /\ blocks = n ~> state # "Started" \/ blocks > n
=============================================================================
