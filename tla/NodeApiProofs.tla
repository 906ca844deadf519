--------------------------- MODULE NodeApiProofs ---------------------------
(***************************************************************************)
(* The pending states of NodeApi make start() and end() exclusive, for any *)
(* number of threads: one call at a time, one validator at a time, running *)
(* with the settings that the getters report.  The inductive invariant     *)
(* says what runs at each point of the call that is under way.             *)
(***************************************************************************)
EXTENDS NodeApi, TLAPS

USE DEF StartLabel, EndLabel

\* What runs is exactly the validators of C (consensus) and R (REST servers).
Runs(C, R) == consensus = C /\ rest = R

\* What runs at each point of start() and end().
StageInv ==
    \A p \in Thread :
        /\ pc[p] \in StartLabel => /\ prev_state \in {"Init", "Stopped"}
                                   /\ validator = 0
                                   /\ mine[p] \in 1..MaxValidators
                                   /\ settings[mine[p]] = {config}
        /\ pc[p] \in {"launch", "revert"} => Runs({}, {})
        /\ pc[p] = "bind" => Runs({mine[p]}, {})
        /\ pc[p] = "complete" => Runs({mine[p]}, {mine[p]})
        /\ pc[p] = "stop" => Runs({mine[p]}, {mine[p]})
        /\ pc[p] = "stop_consensus" => Runs({mine[p]}, {})
        /\ pc[p] = "end" => Runs({}, {})

ApiInv == TypeOK /\ OneCall /\ StageInv /\ OneValidator /\ ConfigLocked

\* Before the first start nothing runs.
LEMMA ApiInit == Init => ApiInv
<1> SUFFICES ASSUME Init PROVE ApiInv
  OBVIOUS
<1>1. TypeOK
  <2>1. pc \in [Thread -> {"idle"} \cup StartLabel \cup EndLabel]
    BY DEF Init
  <2>2. /\ mine \in [Thread -> 0..MaxValidators] /\ made \in 0..MaxValidators
        /\ validator \in 0..MaxValidators /\ blocks \in 0..MaxBlocks
    BY ApiAssumption DEF Init
  <2>3. settings \in [1..MaxValidators -> SUBSET Config]
    BY DEF Init
  <2> QED BY <2>1, <2>2, <2>3 DEF Init, TypeOK, State
<1>2. OneCall /\ StageInv /\ OneValidator /\ ConfigLocked
  BY DEF Init, OneCall, StageInv, OneValidator, ConfigLocked, Runs
<1> QED BY <1>1, <1>2 DEF ApiInv

\* A thread that moves to a label: the others stay where they are.
LEMMA GotoOthers ==
    ASSUME TypeOK, NEW p \in Thread, NEW label, Goto(p, label)
    PROVE  pc'[p] = label /\ \A q \in Thread \ {p} : pc'[q] = pc[q]
BY DEF TypeOK, Goto

\* While one thread is inside a call the others are idle.
LEMMA OthersIdle ==
    ASSUME OneCall, NEW p \in Thread, pc[p] # "idle"
    PROVE  \A q \in Thread \ {p} : pc[q] = "idle"
BY DEF OneCall

\* Between calls all threads are idle.
LEMMA AllIdle ==
    ASSUME TypeOK, OneCall, state \in {"Init", "Started", "Stopped"}
    PROVE  \A q \in Thread : pc[q] = "idle"
<1> SUFFICES ASSUME NEW q \in Thread PROVE pc[q] = "idle"
  OBVIOUS
<1>1. pc[q] \in {"idle"} \cup StartLabel \cup EndLabel
  BY DEF TypeOK
<1> QED BY <1>1 DEF OneCall

\* The steps of start().
LEMMA StartKeeps ==
    ASSUME ApiInv, NEW p \in Thread,
           StartPrep(p) \/ Launch(p) \/ BindRest(p) \/ StartComplete(p) \/ StartRevert(p)
    PROVE  ApiInv'
<1> USE DEF data, running
<1>0. TypeOK /\ OneCall /\ StageInv /\ OneValidator /\ ConfigLocked
  BY DEF ApiInv
<1>1. CASE StartPrep(p)
  <2>1. \A q \in Thread : pc[q] = "idle"
    BY <1>0, <1>1, AllIdle DEF StartPrep, IsState
  <2>2. pc'[p] = "launch" /\ \A q \in Thread \ {p} : pc'[q] = "idle"
    BY <1>0, <1>1, <2>1, GotoOthers DEF StartPrep
  <2>3. /\ made + 1 \in 1..MaxValidators
        /\ mine'[p] = made + 1
        /\ settings'[made + 1] = {config}
    BY <1>0, <1>1, ApiAssumption DEF TypeOK, StartPrep
  <2>4. TypeOK'
    <3>1. pc' \in [Thread -> {"idle"} \cup StartLabel \cup EndLabel]
      BY <1>0, <1>1 DEF TypeOK, StartPrep, Goto
    <3>2. /\ mine' \in [Thread -> 0..MaxValidators]
          /\ settings' \in [1..MaxValidators -> SUBSET Config]
          /\ made' \in 0..MaxValidators /\ blocks' \in 0..MaxBlocks
      BY <1>0, <1>1, <2>3, ApiAssumption DEF TypeOK, StartPrep
    <3> QED BY <1>0, <1>1, <3>1, <3>2 DEF TypeOK, StartPrep, State
  <2>5. Runs({}, {}) /\ Runs({}, {})' /\ validator' = 0 /\ config' = config
    BY <1>0, <1>1 DEF StartPrep, IsState, OneValidator, Runs
  <2>6. OneCall'
    BY <1>1, <2>2 DEF OneCall, StartPrep
  <2>7. StageInv'
    BY <1>1, <2>2, <2>3, <2>5 DEF StageInv, StartPrep, IsState
  <2>8. OneValidator' /\ ConfigLocked'
    BY <1>1, <2>5 DEF StartPrep, OneValidator, ConfigLocked, Runs
  <2> QED BY <2>4, <2>6, <2>7, <2>8 DEF ApiInv
<1>2. ASSUME pc[p] \in StartLabel
      PROVE  /\ \A q \in Thread \ {p} : pc[q] = "idle"
             /\ state = "StartPending" /\ validator = 0
             /\ prev_state \in {"Init", "Stopped"}
             /\ mine[p] \in 1..MaxValidators /\ settings[mine[p]] = {config}
  BY <1>0, <1>2, OthersIdle DEF OneCall, StageInv
<1>3. CASE Launch(p)
  <2>1. pc[p] = "launch" /\ Runs({}, {})
    BY <1>0, <1>3 DEF Launch, StageInv
  <2>2. /\ \A q \in Thread \ {p} : pc'[q] = "idle"
        /\ \/ pc'[p] = "bind" /\ Runs({mine[p]}, {})'
           \/ pc'[p] = "revert" /\ Runs({}, {})'
    BY <1>0, <1>2, <1>3, <2>1, GotoOthers DEF Launch, Runs
  <2>3. UNCHANGED <<state, prev_state, config, validator, shutdown, mine, made, settings, blocks>>
    BY <1>3 DEF Launch
  <2>4. TypeOK'
    <3>1. pc' \in [Thread -> {"idle"} \cup StartLabel \cup EndLabel]
      BY <1>0, <1>3 DEF TypeOK, Launch, Goto
    <3> QED BY <1>0, <1>2, <2>1, <2>2, <2>3, <3>1 DEF TypeOK, Runs
  <2>5. OneCall' /\ StageInv'
    BY <1>2, <2>1, <2>2, <2>3 DEF OneCall, StageInv
  <2>6. OneValidator' /\ ConfigLocked'
    BY <1>2, <2>1, <2>2, <2>3 DEF OneValidator, ConfigLocked, Runs
  <2> QED BY <2>4, <2>5, <2>6 DEF ApiInv
<1>4. CASE BindRest(p)
  <2>1. pc[p] = "bind" /\ Runs({mine[p]}, {})
    BY <1>0, <1>4 DEF BindRest, StageInv
  <2>2. /\ \A q \in Thread \ {p} : pc'[q] = "idle"
        /\ \/ pc'[p] = "complete" /\ Runs({mine[p]}, {mine[p]})'
           \/ pc'[p] = "revert" /\ Runs({}, {})'
    BY <1>0, <1>2, <1>4, <2>1, GotoOthers DEF BindRest, Runs
  <2>3. UNCHANGED <<state, prev_state, config, validator, shutdown, mine, made, settings, blocks>>
    BY <1>4 DEF BindRest
  <2>4. TypeOK'
    <3>1. pc' \in [Thread -> {"idle"} \cup StartLabel \cup EndLabel]
      BY <1>0, <1>4 DEF TypeOK, BindRest, Goto
    <3> QED BY <1>0, <1>2, <2>1, <2>2, <2>3, <3>1 DEF TypeOK, Runs
  <2>5. OneCall' /\ StageInv'
    BY <1>2, <2>1, <2>2, <2>3 DEF OneCall, StageInv
  <2>6. OneValidator' /\ ConfigLocked'
    BY <1>2, <2>1, <2>2, <2>3 DEF OneValidator, ConfigLocked, Runs
  <2> QED BY <2>4, <2>5, <2>6 DEF ApiInv
<1>5. CASE StartComplete(p)
  <2>1. pc[p] = "complete" /\ Runs({mine[p]}, {mine[p]})
    BY <1>0, <1>5 DEF StartComplete, StageInv
  <2>2. \A q \in Thread : pc'[q] = "idle"
    BY <1>0, <1>2, <1>5, <2>1, GotoOthers DEF StartComplete
  <2>3. /\ UNCHANGED <<config, shutdown, mine, made, consensus, rest, settings, blocks>>
        /\ validator' = mine[p] /\ prev_state' = state /\ state' = "Started"
    BY <1>5 DEF StartComplete
  <2>4. TypeOK'
    <3>1. pc' \in [Thread -> {"idle"} \cup StartLabel \cup EndLabel]
      BY <1>0, <1>5 DEF TypeOK, StartComplete, Goto
    <3> QED BY <1>0, <2>3, <3>1 DEF TypeOK, State
  <2>5. OneCall' /\ StageInv'
    BY <2>2 DEF OneCall, StageInv
  <2>6. OneValidator' /\ ConfigLocked'
    BY <1>0, <2>1, <2>3 DEF OneValidator, ConfigLocked, Runs
  <2> QED BY <2>4, <2>5, <2>6 DEF ApiInv
<1>6. CASE StartRevert(p)
  <2>1. pc[p] = "revert" /\ Runs({}, {})
    BY <1>0, <1>6 DEF StartRevert, StageInv
  <2>2. \A q \in Thread : pc'[q] = "idle"
    BY <1>0, <1>2, <1>6, <2>1, GotoOthers DEF StartRevert
  <2>3. /\ UNCHANGED <<prev_state, config, validator, shutdown, mine, made, consensus, rest,
                       settings, blocks>>
        /\ state' = prev_state
    BY <1>6 DEF StartRevert
  <2>4. TypeOK'
    <3>1. pc' \in [Thread -> {"idle"} \cup StartLabel \cup EndLabel]
      BY <1>0, <1>6 DEF TypeOK, StartRevert, Goto
    <3> QED BY <1>0, <2>3, <3>1 DEF TypeOK
  <2>5. OneCall' /\ StageInv'
    BY <2>2 DEF OneCall, StageInv
  <2>6. OneValidator' /\ ConfigLocked'
    BY <1>2, <2>1, <2>3 DEF OneValidator, ConfigLocked, Runs
  <2> QED BY <2>4, <2>5, <2>6 DEF ApiInv
<1> QED BY <1>1, <1>3, <1>4, <1>5, <1>6

\* The steps of end().
LEMMA EndKeeps ==
    ASSUME ApiInv, NEW p \in Thread,
           EndPrep(p) \/ StopRest(p) \/ StopConsensus(p) \/ EndComplete(p)
    PROVE  ApiInv'
<1> USE DEF data, running
<1>0. TypeOK /\ OneCall /\ StageInv /\ OneValidator /\ ConfigLocked
  BY DEF ApiInv
<1>1. pc' \in [Thread -> {"idle"} \cup StartLabel \cup EndLabel]
  BY <1>0 DEF TypeOK, EndPrep, StopRest, StopConsensus, EndComplete, Goto
<1>2. \A q \in Thread \ {p} : pc[q] = "idle" /\ pc'[q] = "idle"
  <2>1. \A q \in Thread \ {p} : pc[q] = "idle"
    <3>1. CASE pc[p] # "idle"
      BY <1>0, <3>1, OthersIdle
    <3>2. CASE EndPrep(p)
      BY <1>0, <3>2, AllIdle DEF EndPrep, IsState
    <3> QED BY <3>1, <3>2 DEF StopRest, StopConsensus, EndComplete
  <2>2. \E label : Goto(p, label)
    BY DEF EndPrep, StopRest, StopConsensus, EndComplete
  <2> QED BY <1>0, <2>1, <2>2, GotoOthers
<1>3. CASE EndPrep(p)
  <2>1. pc'[p] = "stop"
    BY <1>0, <1>3, GotoOthers DEF EndPrep
  <2>2. mine' \in [Thread -> 0..MaxValidators] /\ mine'[p] = validator
    BY <1>0, <1>3 DEF TypeOK, EndPrep
  <2>3. Runs({validator}, {validator}) /\ Runs({validator}, {validator})'
    BY <1>0, <1>3 DEF EndPrep, IsState, OneValidator, Runs
  <2>4. TypeOK'
    BY <1>0, <1>1, <1>3, <2>2 DEF TypeOK, EndPrep, State
  <2>5. OneCall' /\ StageInv'
    BY <1>2, <1>3, <2>1, <2>2, <2>3 DEF OneCall, StageInv, EndPrep, Runs
  <2>6. OneValidator' /\ ConfigLocked'
    BY <1>0, <1>3, <2>3 DEF EndPrep, OneValidator, ConfigLocked
  <2> QED BY <2>4, <2>5, <2>6 DEF ApiInv
<1>4. CASE StopRest(p)
  <2>1. pc[p] = "stop" /\ Runs({mine[p]}, {mine[p]}) /\ state = "StopPending"
    BY <1>0, <1>4 DEF StopRest, StageInv, OneCall
  <2>2. pc'[p] = "stop_consensus"
    BY <1>0, <1>4, GotoOthers DEF StopRest
  <2>3. /\ UNCHANGED <<state, prev_state, config, validator, mine, made, consensus, settings,
                       blocks>>
        /\ shutdown' = TRUE /\ rest' = rest \ {mine[p]}
    BY <1>4 DEF StopRest
  <2>4. TypeOK'
    BY <1>0, <1>1, <2>3 DEF TypeOK
  <2>5. Runs({mine[p]}, {})'
    BY <2>1, <2>3 DEF Runs
  <2>6. OneCall' /\ StageInv'
    BY <1>2, <2>1, <2>2, <2>3, <2>5 DEF OneCall, StageInv
  <2>7. OneValidator' /\ ConfigLocked'
    BY <1>0, <2>1, <2>3 DEF OneValidator, ConfigLocked
  <2> QED BY <2>4, <2>6, <2>7 DEF ApiInv
<1>5. CASE StopConsensus(p)
  <2>1. pc[p] = "stop_consensus" /\ Runs({mine[p]}, {}) /\ state = "StopPending"
    BY <1>0, <1>5 DEF StopConsensus, StageInv, OneCall
  <2>2. pc'[p] = "end"
    BY <1>0, <1>5, GotoOthers DEF StopConsensus
  <2>3. /\ UNCHANGED <<state, prev_state, config, validator, shutdown, mine, made, rest,
                       settings, blocks>>
        /\ consensus' = consensus \ {mine[p]}
    BY <1>5 DEF StopConsensus
  <2>4. TypeOK'
    BY <1>0, <1>1, <2>3 DEF TypeOK
  <2>5. Runs({}, {})'
    BY <2>1, <2>3 DEF Runs
  <2>6. OneCall' /\ StageInv'
    BY <1>2, <2>1, <2>2, <2>3, <2>5 DEF OneCall, StageInv
  <2>7. OneValidator' /\ ConfigLocked'
    BY <1>0, <2>1, <2>3 DEF OneValidator, ConfigLocked
  <2> QED BY <2>4, <2>6, <2>7 DEF ApiInv
<1>6. CASE EndComplete(p)
  <2>1. pc[p] = "end" /\ Runs({}, {})
    BY <1>0, <1>6 DEF EndComplete, StageInv
  <2>2. \A q \in Thread : pc'[q] = "idle"
    BY <1>0, <1>2, <1>6, GotoOthers DEF EndComplete
  <2>3. /\ UNCHANGED <<config, shutdown, mine, made, consensus, rest, settings, blocks>>
        /\ validator' = 0 /\ prev_state' = state /\ state' = "Stopped"
    BY <1>6 DEF EndComplete
  <2>4. TypeOK'
    BY <1>0, <1>1, <2>3, ApiAssumption DEF TypeOK, State
  <2>5. OneCall' /\ StageInv'
    BY <2>2 DEF OneCall, StageInv
  <2>6. OneValidator' /\ ConfigLocked'
    BY <2>1, <2>3 DEF OneValidator, ConfigLocked, Runs
  <2> QED BY <2>4, <2>5, <2>6 DEF ApiInv
<1> QED BY <1>3, <1>4, <1>5, <1>6

\* Every step keeps the invariant.
LEMMA ApiNext == ApiInv /\ [Next]_vars => ApiInv'
<1> SUFFICES ASSUME ApiInv, [Next]_vars PROVE ApiInv'
  OBVIOUS
<1> USE DEF data, running
<1>0. TypeOK /\ OneCall /\ StageInv /\ OneValidator /\ ConfigLocked
  BY DEF ApiInv
<1>1. CASE UNCHANGED vars
  BY <1>0, <1>1 DEF vars, ApiInv, TypeOK, OneCall, StageInv, OneValidator, ConfigLocked, Runs
<1>2. ASSUME NEW g \in Config, Configure(g) PROVE ApiInv'
  <2>1. \A q \in Thread : pc[q] = "idle"
    BY <1>0, <1>2, AllIdle DEF Configure, IsState
  <2>2. TypeOK'
    BY <1>0, <1>2 DEF Configure, TypeOK
  <2>3. OneCall' /\ StageInv'
    BY <1>2, <2>1 DEF Configure, OneCall, StageInv
  <2>4. OneValidator' /\ ConfigLocked'
    BY <1>0, <1>2 DEF Configure, IsState, OneValidator, ConfigLocked, Runs
  <2> QED BY <2>2, <2>3, <2>4 DEF ApiInv
<1>3. ASSUME NEW v, AddBlock(v) PROVE ApiInv'
  <2>1. TypeOK'
    BY <1>0, <1>3, ApiAssumption DEF AddBlock, TypeOK
  <2>2. OneCall' /\ StageInv' /\ OneValidator' /\ ConfigLocked'
    BY <1>0, <1>3 DEF AddBlock, OneCall, StageInv, OneValidator, ConfigLocked, Runs
  <2> QED BY <2>1, <2>2 DEF ApiInv
<1>4. ASSUME NEW p \in Thread, StartPrep(p) \/ EndPrep(p) \/ CallStep(p) PROVE ApiInv'
  BY <1>4, StartKeeps, EndKeeps DEF CallStep
<1> QED BY <1>1, <1>2, <1>3, <1>4 DEF Next

-----------------------------------------------------------------------------

\* The state engine of AmareleoApi lets one thread at a time into start() or end(),
\* however many threads call them.
THEOREM CallsAreExclusive == Spec => []OneCall
<1>1. ApiInv => OneCall
  BY DEF ApiInv
<1> QED BY <1>1, ApiInit, ApiNext, PTL DEF Spec

\* AmareleoApi never has two validators, nor half of one outside a call, also when a
\* start fails half-way.
THEOREM ValidatorIsUnique == Spec => []OneValidator
<1>1. ApiInv => OneValidator
  BY DEF ApiInv
<1> QED BY <1>1, ApiInit, ApiNext, PTL DEF Spec

\* A validator runs with the settings that AmareleoApi reports.
THEOREM ConfigIsLocked == Spec => []ConfigLocked
<1>1. ApiInv => ConfigLocked
  BY DEF ApiInv
<1> QED BY <1>1, ApiInit, ApiNext, PTL DEF Spec
=============================================================================
