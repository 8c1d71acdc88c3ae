-------------------------- MODULE CoChannel_proofs --------------------------
(***************************************************************************)
(* Proofs about the coroutine scheduler and the coroutine channel on it,   *)
(* for any coroutines, any capacity and any number of calls.               *)
(***************************************************************************)
EXTENDS CoChannel, TLAPS

-----------------------------------------------------------------------------
(***************************************************************************)
(* The coroutine scheduler.                                                *)
(*                                                                         *)
(* The induction rests on the shape of the running coroutines, Chain: each *)
(* one was resumed by a running coroutine or by the event loop, no two by  *)
(* the same one, and none by the coroutine that is current.  So current is *)
(* the only one that can yield or end without cutting the chain.           *)
(***************************************************************************)

SwitchTypeOK ==
    /\ current \in Co \cup {NoCo}
    /\ origin \in [Co -> Co \cup {NoCo}]
    /\ state \in [Co -> CoStates]

Chain ==
    /\ current # NoCo => state[current] = "RUNNING"
    /\ \A c \in Co : state[c] = "RUNNING" =>
        /\ origin[c] # current
        /\ origin[c] # NoCo => state[origin[c]] = "RUNNING"
        /\ \A d \in Co : state[d] = "RUNNING" /\ origin[d] = origin[c] => d = c

Switch == SwitchTypeOK /\ Chain /\ NoReferenceToEnded

-----------------------------------------------------------------------------
\* resume() of a coroutine that is neither running nor ended keeps the chain.
LEMMA ResumeKeepsSwitch ==
    ASSUME NEW c \in Co, Switch, ~on_bailout, state[c] \in {"INIT", "WAITING"},
           resume(c)
    PROVE  Switch'
  <1>1. SwitchTypeOK'
    BY DEF Switch, SwitchTypeOK, resume, CoStates
  <1>2. Chain'
    BY NoCoAssumption DEF Switch, SwitchTypeOK, Chain, resume, CoStates
  <1>3. NoReferenceToEnded'
    BY NoCoAssumption DEF Switch, SwitchTypeOK, NoReferenceToEnded, resume, CoStates
  <1>4. QED
    BY Zenon, <1>1, <1>2, <1>3 DEF Switch

\* yield() of the current coroutine keeps the chain.
LEMMA YieldKeepsSwitch ==
    ASSUME NEW c \in Co, Switch, current = c, yield(c)
    PROVE  Switch'
  <1>1. SwitchTypeOK'
    BY Zenon DEF Switch, SwitchTypeOK, yield, CoStates
  <1>2. Chain'
    BY NoCoAssumption DEF Switch, SwitchTypeOK, Chain, yield, CoStates
  <1>3. NoReferenceToEnded'
    BY Zenon, NoCoAssumption DEF Switch, SwitchTypeOK, NoReferenceToEnded, yield, CoStates
  <1>4. QED
    BY Zenon, <1>1, <1>2, <1>3 DEF Switch

\* The end of the current coroutine, close() included, keeps the chain.
LEMMA EndKeepsSwitch ==
    ASSUME NEW c \in Co, Switch, End(c)
    PROVE  Switch'
  <1>1. SwitchTypeOK'
    BY Zenon DEF Switch, SwitchTypeOK, End, close_children, CoStates
  <1>2. Chain'
    BY NoCoAssumption
    DEF Switch, SwitchTypeOK, Chain, End, close_children, CoStates
  <1>3. NoReferenceToEnded'
    <2>1. origin[c] # c
      BY Zenon, NoCoAssumption DEF Switch, Chain, End
    <2>2. QED
      BY Zenon, <2>1, NoCoAssumption
      DEF Switch, SwitchTypeOK, NoReferenceToEnded, End, close_children, CoStates
  <1>4. QED
    BY Zenon, <1>1, <1>2, <1>3 DEF Switch

-----------------------------------------------------------------------------
(***************************************************************************)
(* The same with bailouts.  A bailout leaves its coroutines running in the *)
(* middle of a call, so the chain is that of the live ones, which began    *)
(* after the last bailout.                                                 *)
(***************************************************************************)

Live == {c \in Co \ abandoned : state[c] = "RUNNING"}

LiveChain ==
    /\ current # NoCo => current \in Live
    /\ \A c \in Live :
        /\ origin[c] # current
        /\ origin[c] \in Live \cup {NoCo}
        /\ \A d \in Live : origin[d] = origin[c] => d = c

LiveSwitch ==
    /\ SwitchTypeOK
    /\ \A c \in abandoned : c \in Co /\ state[c] # "INIT"
    /\ LiveChain
    /\ NoReferenceToEnded

\* What resume() does when it switches, and create() always.
Enter(c) ==
    /\ current' = c
    /\ origin' = [origin EXCEPT ![c] = current]
    /\ state' = [state EXCEPT ![c] = "RUNNING"]

\* A switch into a coroutine that is neither running, ended nor abandoned puts it
\* on top of the chain.
LEMMA EnterKeepsLive ==
    ASSUME NEW c \in Co \ abandoned, LiveSwitch, state[c] \in {"INIT", "WAITING"},
           Enter(c), UNCHANGED abandoned
    PROVE  LiveSwitch' /\ Live' = Live \cup {c} /\ c \notin Live
  <1> USE NoCoAssumption DEF LiveSwitch, SwitchTypeOK, Enter, CoStates
  <1>1. SwitchTypeOK'
    BY Zenon
  <1>2. Live' = Live \cup {c} /\ c \notin Live
    BY DEF Live
  <1>3. current' = c /\ origin'[c] = current /\ \A d \in Live : d # c /\ origin'[d] = origin[d]
    BY Zenon, <1>2 DEF Live
  <1>4. LiveChain'
    BY <1>2, <1>3 DEF LiveChain
  <1>5. NoReferenceToEnded'
    BY DEF NoReferenceToEnded
  <1>6. \A d \in abandoned' : d \in Co /\ state'[d] # "INIT"
    BY Zenon
  <1>7. QED
    BY Zenon, <1>1, <1>2, <1>4, <1>5, <1>6

\* yield() of the current coroutine takes it off the chain.
LEMMA YieldKeepsLive ==
    ASSUME NEW c \in Co, LiveSwitch, current = c, yield(c), UNCHANGED abandoned
    PROVE  LiveSwitch' /\ Live' = Live \ {c} /\ c \in Live
  <1> USE NoCoAssumption DEF LiveSwitch, SwitchTypeOK, yield, CoStates
  <1>1. SwitchTypeOK'
    BY Zenon
  <1>2. Live' = Live \ {c} /\ c \in Live
    BY DEF Live, LiveChain
  <1>3. LiveChain'
    BY <1>2 DEF LiveChain
  <1>4. NoReferenceToEnded'
    BY DEF NoReferenceToEnded
  <1>5. \A d \in abandoned' : d \in Co /\ state'[d] # "INIT"
    BY Zenon
  <1>6. QED
    BY Zenon, <1>1, <1>2, <1>3, <1>4, <1>5

\* So does its end, and what close() clears are the origins of coroutines that
\* are not on the chain.
LEMMA EndKeepsLive ==
    ASSUME NEW c \in Co, LiveSwitch, End(c)
    PROVE  /\ LiveSwitch' /\ Live' = Live \ {c} /\ c \in Live
           /\ \A d \in Live \ {c} : origin'[d] = origin[d]
  <1> USE NoCoAssumption DEF LiveSwitch, SwitchTypeOK, End, CoStates
  <1>1. SwitchTypeOK'
    BY Zenon DEF close_children
  <1>2. Live' = Live \ {c} /\ c \in Live
    BY DEF Live, LiveChain
  <1>3. \A d \in Live \ {c} : origin'[d] = origin[d]
    BY Zenon, <1>2 DEF close_children, Live, LiveChain
  <1>4. LiveChain'
    BY <1>2, <1>3 DEF LiveChain
  <1>5. NoReferenceToEnded'
    <2>1. origin[c] # c
      BY Zenon, <1>2 DEF LiveChain
    <2>2. QED
      BY Zenon, <2>1 DEF NoReferenceToEnded, close_children
  <1>6. \A d \in abandoned' : d \in Co /\ state'[d] # "INIT"
    BY Zenon
  <1>7. QED
    BY Zenon, <1>1, <1>2, <1>3, <1>4, <1>5, <1>6

\* bailout() abandons the whole chain.
LEMMA BailoutKeepsLive ==
    ASSUME LiveSwitch, Bailout
    PROVE  LiveSwitch' /\ Live' = {}
  <1> USE NoCoAssumption DEF LiveSwitch, SwitchTypeOK, CoStates
  <1>1. SwitchTypeOK'
    BY Zenon DEF Bailout
  <1>2. \A d \in Co : state'[d] \in {state[d], "WAITING"}
    BY Zenon DEF Bailout
  <1>3. current' = NoCo /\ origin' = origin /\ abandoned' = {d \in Co : state[d] # "INIT"}
    BY Zenon DEF Bailout
  <1>4. Live' = {}
    BY <1>2, <1>3 DEF Live
  <1>5. LiveChain'
    BY Zenon, <1>3, <1>4 DEF LiveChain
  <1>6. NoReferenceToEnded'
    BY <1>2, <1>3 DEF NoReferenceToEnded
  <1>7. \A d \in abandoned' : d \in Co /\ state'[d] # "INIT"
    BY <1>2, <1>3
  <1>8. QED
    BY Zenon, <1>1, <1>4, <1>5, <1>6, <1>7

-----------------------------------------------------------------------------
(***************************************************************************)
(* Every live coroutine is met on the walk from current by origin,         *)
(* whatever set closed under origin one looks at, and the walk ends in the *)
(* event loop.                                                             *)
(***************************************************************************)

Rooted ==
    /\ \A S \in SUBSET Co :
         current \in S \cup {NoCo} /\ OriginClosed(S) => Live \subseteq S
    /\ current # NoCo => \E c \in Live : origin[c] = NoCo

\* A switch puts its coroutine on top of the walk.
LEMMA EnterKeepsRooted ==
    ASSUME NEW c \in Co \ abandoned, LiveSwitch, Rooted, state[c] \in {"INIT", "WAITING"},
           Enter(c), UNCHANGED abandoned
    PROVE  Rooted'
  <1> USE NoCoAssumption DEF LiveSwitch, SwitchTypeOK, CoStates
  <1>1. Live' = Live \cup {c} /\ c \notin Live
    BY Zenon, EnterKeepsLive
  <1>2. origin' = [origin EXCEPT ![c] = current] /\ current' = c
    BY Zenon DEF Enter
  <1>3. ASSUME NEW S \in SUBSET Co, (current \in S \cup {NoCo} /\ OriginClosed(S))'
        PROVE  Live' \subseteq S
    <2>1. c \in S /\ current \in S \cup {NoCo}
      BY Zenon, <1>2, <1>3 DEF OriginClosed
    <2> DEFINE T == S \cap Live
    <2>2. current \in T \cup {NoCo}
      BY Zenon, <2>1 DEF LiveChain, Live
    <2>3. ASSUME NEW d \in T PROVE origin[d] \in T \cup {NoCo}
      <3>1. d # c /\ d \in S /\ d \in Co /\ d \in Live
        BY Zenon, <1>1
      <3>2. origin[d] \in S \cup {NoCo}
        BY Zenon, <3>1, <1>2, <1>3 DEF OriginClosed
      <3>3. origin[d] \in Live \cup {NoCo}
        BY Zenon, <3>1 DEF LiveChain, Live
      <3>4. QED
        BY Zenon, <3>2, <3>3
    <2>4. Live \subseteq T
      BY Zenon, <2>2, <2>3 DEF Rooted, OriginClosed
    <2>5. QED
      BY Zenon, <2>1, <2>4, <1>1
  <1>4. \E d \in Live' : origin'[d] = NoCo
    <2>1. CASE current = NoCo
      BY Zenon, <2>1, <1>1, <1>2
    <2>2. CASE current # NoCo
      <3>1. PICK d \in Live : origin[d] = NoCo
        BY Zenon, <2>2 DEF Rooted
      <3>2. d \in Co /\ d # c
        BY Zenon, <1>1 DEF Live
      <3>3. QED
        BY Zenon, <3>1, <3>2, <1>1, <1>2
    <2>3. QED
      BY Zenon, <2>1, <2>2
  <1>5. QED
    BY Zenon, <1>3, <1>4 DEF Rooted

\* yield() and the end of a coroutine take the top off the walk; what close()
\* clears are origins of coroutines that are not running.
LEMMA LeaveKeepsRooted ==
    ASSUME NEW c \in Co, LiveSwitch, Rooted, current = c, current' = origin[c],
           Live' = Live \ {c},
           \A d \in Live \ {c} : origin'[d] = origin[d]
    PROVE  Rooted'
  <1> USE NoCoAssumption DEF LiveSwitch, SwitchTypeOK, CoStates
  <1>1. ASSUME NEW S \in SUBSET Co, (current \in S \cup {NoCo} /\ OriginClosed(S))'
        PROVE  Live' \subseteq S
    <2> DEFINE T == (S \cap Live) \cup {c}
    <2>1. c \in Live
      BY Zenon DEF LiveChain, Live
    <2>2. ASSUME NEW d \in T PROVE origin[d] \in T \cup {NoCo}
      <3>1. d \in Co /\ d \in Live
        BY Zenon, <2>1 DEF Live
      <3>2. origin[d] \in Live \cup {NoCo}
        BY Zenon, <3>1 DEF LiveChain, Live
      <3>3. origin[d] \in S \cup {NoCo}
        <4>1. CASE d = c
          BY Zenon, <4>1, <1>1
        <4>2. CASE d # c
          BY Zenon, <4>2, <3>1, <1>1 DEF OriginClosed
        <4>3. QED
          BY Zenon, <4>1, <4>2
      <3>4. QED
        BY Zenon, <3>2, <3>3
    <2>3. Live \subseteq T
      <3>1. T \in SUBSET Co /\ current \in T \cup {NoCo}
        BY Zenon DEF Live
      <3>2. QED
        BY Zenon, <2>2, <3>1 DEF Rooted, OriginClosed
    <2>4. QED
      BY Zenon, <2>3
  <1>2. ASSUME current' # NoCo PROVE \E d \in Live' : origin'[d] = NoCo
    <2>1. PICK d \in Live : origin[d] = NoCo
      BY Zenon DEF Rooted
    <2>2. QED
      BY Zenon, <2>1, <1>2
  <1>3. QED
    BY Zenon, <1>1, <1>2 DEF Rooted

-----------------------------------------------------------------------------
\* A coroutine suspended in yield() or yield_ex() is waiting, or it has been
\* switched to and has not run yet; timers and cancel functions belong to it.
Suspended ==
    \A c \in Co :
        /\ pc[c] \in {"yield", "yield_ex"} /\ ~on_bailout
             => state[c] = "WAITING" \/ current = c
        /\ timer[c] => pc[c] = "yield_ex"
        /\ cancel_fn[c] # "none" => pc[c] = "yield_ex"

CoInv ==
    /\ CoTypeOK
    /\ LiveSwitch
    /\ Rooted
    /\ ~on_bailout => abandoned = {}
    /\ Suspended

\* The initial state satisfies the invariant.
LEMMA CoInitInv == CoInit => CoInv
  <1> SUFFICES ASSUME CoInit PROVE CoInv
    BY Zenon
  <1>1. CoTypeOK
    BY Zenon DEF CoInit, CoTypeOK, CoStates
  <1>2. Live = {}
    BY Zenon DEF CoInit, Live
  <1>3. NoReferenceToEnded /\ LiveChain /\ Rooted
    BY Zenon, <1>2 DEF CoInit, NoReferenceToEnded, LiveChain, Rooted
  <1>4. Suspended
    BY Zenon DEF CoInit, Suspended
  <1>5. QED
    BY Zenon, <1>1, <1>3, <1>4 DEF CoInit, CoInv, LiveSwitch, CoTypeOK, SwitchTypeOK

\* Every step of the scheduler keeps the types.
LEMMA CoTypeStep == CoTypeOK /\ [CoNext]_coVars => CoTypeOK'
  <1> SUFFICES ASSUME CoTypeOK, [CoNext]_coVars PROVE CoTypeOK'
    BY Zenon
  <1> USE DEF CoTypeOK, CoStates
  <1>1. CASE Bailout
    BY Zenon, <1>1 DEF Bailout
  <1>2. ASSUME NEW c \in Co, Create(c) PROVE CoTypeOK'
    BY Zenon, <1>2 DEF Create
  <1>3. ASSUME NEW c \in Co, ReturnFromResume(c) PROVE CoTypeOK'
    BY Zenon, <1>3 DEF ReturnFromResume
  <1>4. ASSUME NEW c \in Co, End(c) PROVE CoTypeOK'
    BY Zenon, <1>4 DEF End, close_children
  <1>5. ASSUME NEW c \in Co, Yield(c) PROVE CoTypeOK'
    BY Zenon, <1>5 DEF Yield, yield
  <1>6. ASSUME NEW c \in Co, AfterYield(c) PROVE CoTypeOK'
    BY Zenon, <1>6 DEF AfterYield
  <1>7. ASSUME NEW c \in Co, NEW timed \in BOOLEAN, YieldEx(c, timed) PROVE CoTypeOK'
    BY Zenon, <1>7 DEF YieldEx, yield
  <1>8. ASSUME NEW c \in Co, AfterYieldEx(c) PROVE CoTypeOK'
    BY Zenon, <1>8 DEF AfterYieldEx
  <1>9. ASSUME NEW c \in Co, YieldExTimeout(c) PROVE CoTypeOK'
    BY <1>9 DEF YieldExTimeout, resume
  <1>10. ASSUME NEW c \in Co, CancelYieldEx(c) PROVE CoTypeOK'
    BY <1>10 DEF CancelYieldEx, resume, InCaller
  <1>11. ASSUME NEW c \in Co, ResumeCo(c) PROVE CoTypeOK'
    BY <1>11 DEF ResumeCo, resume, InCaller
  <1>12. CASE UNCHANGED coVars
    BY Zenon, <1>12 DEF coVars
  <1>13. QED
    BY ZenonT(30), <1>1, <1>2, <1>3, <1>4, <1>5, <1>6, <1>7, <1>8, <1>9, <1>10, <1>11, <1>12
    DEF CoNext

\* Every step keeps the chain of the live coroutines and the walk along it, and
\* nothing is abandoned without a bailout.
LEMMA CoChainStep ==
    CoInv /\ [CoNext]_coVars
        => LiveSwitch' /\ Rooted' /\ (~on_bailout' => abandoned' = {})
  <1> DEFINE Goal == LiveSwitch' /\ Rooted' /\ (~on_bailout' => abandoned' = {})
  <1> SUFFICES ASSUME CoInv, [CoNext]_coVars PROVE Goal
    BY Zenon
  <1>a. LiveSwitch /\ Rooted /\ (~on_bailout => abandoned = {})
    BY Zenon DEF CoInv
  <1>b. UNCHANGED <<current, origin, state, on_bailout, abandoned>> => Goal
    <2> SUFFICES ASSUME UNCHANGED <<current, origin, state, on_bailout, abandoned>> PROVE Goal
      BY Zenon
    <2>1. Live' = Live
      BY Zenon DEF Live
    <2>2. LiveChain'
      BY Zenon, <1>a, <2>1 DEF LiveSwitch, LiveChain
    <2>3. Rooted'
      BY Zenon, <1>a, <2>1 DEF Rooted, OriginClosed
    <2>4. QED
      BY Zenon, <1>a, <2>2, <2>3 DEF LiveSwitch, SwitchTypeOK, NoReferenceToEnded
  <1>c. ASSUME NEW c \in Co, current = c, yield(c), UNCHANGED <<on_bailout, abandoned>>
        PROVE  Goal
    <2>1. LiveSwitch' /\ Live' = Live \ {c}
      BY Zenon, <1>a, <1>c, YieldKeepsLive
    <2>2. Rooted'
      BY Zenon, <1>a, <1>c, <2>1, LeaveKeepsRooted DEF yield
    <2>3. QED
      BY Zenon, <1>a, <1>c, <2>1, <2>2
  <1>d. ASSUME NEW c \in Co, resume(c), UNCHANGED <<on_bailout, abandoned>>,
               state[c] = "WAITING" \/ on_bailout
        PROVE  Goal
    <2>1. CASE on_bailout
      BY Zenon, <1>b, <1>d, <2>1 DEF resume
    <2>2. CASE ~on_bailout
      <3>1. Enter(c) /\ c \in Co \ abandoned
        BY Zenon, <1>a, <1>d, <2>2 DEF resume, Enter
      <3>2. LiveSwitch' /\ Rooted'
        BY Zenon, <1>a, <1>d, <2>2, <3>1, EnterKeepsLive, EnterKeepsRooted
      <3>3. QED
        BY Zenon, <1>a, <1>d, <3>2
    <2>3. QED
      BY Zenon, <2>1, <2>2
  <1>1. CASE Bailout
    <2>1. LiveSwitch' /\ Live' = {}
      BY Zenon, <1>a, <1>1, BailoutKeepsLive
    <2>2. Rooted'
      BY Zenon, <1>1, <2>1 DEF Bailout, Rooted
    <2>3. QED
      BY Zenon, <1>1, <2>1, <2>2 DEF Bailout
  <1>2. ASSUME NEW c \in Co, Create(c) PROVE Goal
    <2>1. Enter(c) /\ c \in Co \ abandoned
      BY Zenon, <1>a, <1>2 DEF Create, Enter, LiveSwitch
    <2>2. LiveSwitch' /\ Rooted'
      BY Zenon, <1>a, <1>2, <2>1, EnterKeepsLive, EnterKeepsRooted DEF Create
    <2>3. QED
      BY Zenon, <1>a, <1>2, <2>2 DEF Create
  <1>3. ASSUME NEW c \in Co, ReturnFromResume(c) PROVE Goal
    BY Zenon, <1>3, <1>b DEF ReturnFromResume
  <1>4. ASSUME NEW c \in Co, End(c) PROVE Goal
    <2>1. /\ LiveSwitch' /\ Live' = Live \ {c}
          /\ \A d \in Live \ {c} : origin'[d] = origin[d]
      BY Zenon, <1>a, <1>4, EndKeepsLive
    <2>2. Rooted'
      BY Zenon, <1>a, <1>4, <2>1, LeaveKeepsRooted DEF End
    <2>3. QED
      BY Zenon, <1>a, <1>4, <2>1, <2>2 DEF End
  <1>5. ASSUME NEW c \in Co, Yield(c) PROVE Goal
    BY Zenon, <1>5, <1>c DEF Yield
  <1>6. ASSUME NEW c \in Co, AfterYield(c) PROVE Goal
    BY Zenon, <1>6, <1>b DEF AfterYield
  <1>7. ASSUME NEW c \in Co, NEW timed \in BOOLEAN, YieldEx(c, timed) PROVE Goal
    BY Zenon, <1>7, <1>c DEF YieldEx
  <1>8. ASSUME NEW c \in Co, AfterYieldEx(c) PROVE Goal
    BY Zenon, <1>8, <1>b DEF AfterYieldEx
  <1>9. ASSUME NEW c \in Co, YieldExTimeout(c) PROVE Goal
    BY Zenon, <1>9, <1>d, NoCoAssumption DEF YieldExTimeout, CoInv, Suspended
  <1>10. ASSUME NEW c \in Co, CancelYieldEx(c) PROVE Goal
    BY Zenon, <1>10, <1>d, NoCoAssumption DEF CancelYieldEx, CanCall, CoInv, Suspended
  <1>11. ASSUME NEW c \in Co, ResumeCo(c) PROVE Goal
    BY Zenon, <1>11, <1>d DEF ResumeCo
  <1>12. CASE UNCHANGED coVars
    BY Zenon, <1>12, <1>b DEF coVars
  <1>13. QED
    BY ZenonT(30), <1>1, <1>2, <1>3, <1>4, <1>5, <1>6, <1>7, <1>8, <1>9, <1>10, <1>11, <1>12
    DEF CoNext

\* Every step keeps timers, cancel functions and states consistent with pc.
LEMMA CoSuspendedStep == CoInv /\ [CoNext]_coVars => Suspended'
  <1> SUFFICES ASSUME CoInv, [CoNext]_coVars PROVE Suspended'
    BY Zenon
  <1> USE NoCoAssumption DEF CoInv, CoTypeOK, CoStates, Suspended
  <1>1. CASE Bailout
    BY Zenon, <1>1 DEF Bailout
  <1>2. ASSUME NEW c \in Co, Create(c) PROVE Suspended'
    BY <1>2 DEF Create, CanCall
  <1>3. ASSUME NEW c \in Co, ReturnFromResume(c) PROVE Suspended'
    BY <1>3 DEF ReturnFromResume
  <1>4. ASSUME NEW c \in Co, End(c) PROVE Suspended'
    BY Zenon, <1>4 DEF End
  <1>5. ASSUME NEW c \in Co, Yield(c) PROVE Suspended'
    BY <1>5 DEF Yield, yield
  <1>6. ASSUME NEW c \in Co, AfterYield(c) PROVE Suspended'
    BY <1>6 DEF AfterYield
  <1>7. ASSUME NEW c \in Co, NEW timed \in BOOLEAN, YieldEx(c, timed) PROVE Suspended'
    BY <1>7 DEF YieldEx, yield
  <1>8. ASSUME NEW c \in Co, AfterYieldEx(c) PROVE Suspended'
    BY Zenon, <1>8 DEF AfterYieldEx
  <1>9. ASSUME NEW c \in Co, YieldExTimeout(c) PROVE Suspended'
    BY <1>9 DEF YieldExTimeout, resume
  <1>10. ASSUME NEW c \in Co, CancelYieldEx(c) PROVE Suspended'
    BY <1>10 DEF CancelYieldEx, resume, InCaller, CanCall
  <1>11. ASSUME NEW c \in Co, ResumeCo(c) PROVE Suspended'
    BY <1>11 DEF ResumeCo, resume, InCaller, CanCall
  <1>12. CASE UNCHANGED coVars
    BY Zenon, <1>12 DEF coVars
  <1>13. QED
    BY <1>1, <1>2, <1>3, <1>4, <1>5, <1>6, <1>7, <1>8, <1>9, <1>10, <1>11, <1>12
    DEF CoNext

\* CoInv is inductive.
LEMMA CoInvariant == CoSpec => []CoInv
  <1>1. CoInv /\ [CoNext]_coVars => CoInv'
    BY Zenon, CoTypeStep, CoChainStep, CoSuspendedStep DEF CoInv
  <1>2. QED
    BY CoInitInv, <1>1, PTL DEF CoSpec

-----------------------------------------------------------------------------
\* Every reachable state of the scheduler is type correct.
THEOREM CoTypeCorrect == CoSpec => []CoTypeOK
  BY CoInvariant, PTL DEF CoInv

\* For any coroutines, in whatever order they resume each other and whenever they
\* bail out: the running ones that no bailout left behind are exactly those
\* between current and the event loop, and the walk of bailout() along origin
\* reaches its end.
THEOREM RunningAlongOrigin == CoSpec => []RunningIsOriginChain
  <1>1. CoInv => RunningIsOriginChain
    <2> SUFFICES ASSUME CoInv
                 PROVE  /\ OriginChain = Live
                        /\ current # NoCo => \E c \in OriginChain : origin[c] = NoCo
      BY Zenon DEF RunningIsOriginChain, Live
    <2>1. Live \subseteq OriginChain
      BY Zenon DEF CoInv, Rooted, OriginChain, Live
    <2>2. current \in Live \cup {NoCo} /\ OriginClosed(Live) /\ Live \in SUBSET Co
      BY Zenon DEF CoInv, LiveSwitch, LiveChain, Live, OriginClosed
    <2>3. OriginChain \subseteq Live
      BY Zenon, <2>2 DEF OriginChain
    <2>4. QED
      BY Zenon, <2>1, <2>3 DEF CoInv, Rooted
  <1>2. QED
    BY CoInvariant, <1>1, PTL

\* close() never leaves a reference to the coroutine it deletes, however the
\* coroutines resumed each other before.
THEOREM NoDanglingOrigin == CoSpec => []NoReferenceToEnded
  BY CoInvariant, PTL DEF CoInv, LiveSwitch

\* The timer of a yield_ex() call never outlives the call.
THEOREM TimerInFrame == CoSpec => []TimerWithinItsWait
  <1>1. CoInv => TimerWithinItsWait
    BY Zenon DEF CoInv, Suspended, TimerWithinItsWait
  <1>2. QED
    BY CoInvariant, <1>1, PTL

\* cancel() can only reach a coroutine that is suspended in yield_ex().
THEOREM CancelIsSafe == CoSpec => []CancelOnlySuspended
  <1>1. CoInv => CancelOnlySuspended
    BY Zenon DEF CoInv, Suspended, CancelOnlySuspended
  <1>2. QED
    BY CoInvariant, <1>1, PTL

\* For any coroutines: timers and cancel functions are never used after the
\* yield_ex() that set them has returned.
THEOREM FramesStayAlive == CoSpec => []FramesAlive
  BY TimerInFrame, CancelIsSafe, PTL DEF FramesAlive

\* For any coroutines: what a bailout abandoned never runs again, whatever is
\* created, resumed, cancelled and timed out afterwards, and however often the
\* scheduler bails out.  The return of a coroutine to its origin is the way back
\* that resume() does not guard; that it stays among the coroutines begun after
\* the last bailout is LiveChain.
THEOREM BailoutIsFinal == CoSpec => []AbandonedNeverRuns
  <1>1. CoInv => AbandonedNeverRuns
    BY Zenon, NoCoAssumption DEF CoInv, LiveSwitch, LiveChain, Live, AbandonedNeverRuns
  <1>2. QED
    BY CoInvariant, <1>1, PTL

-----------------------------------------------------------------------------
(***************************************************************************)
(* The helpers: offsets in the ring, and what the queue operations do to   *)
(* the set of queued coroutines.                                           *)
(***************************************************************************)

\* next() is the successor in the ring, with a mask or without one.
LEMMA NextOffset ==
    ASSUME NEW o \in Slots
    PROVE  /\ next(o) = IF o + 1 = Capacity THEN 0 ELSE o + 1
           /\ next(o) \in Slots
  <1>1. CASE mask_ = 0
    BY <1>1, CapacityAssumption DEF next, Slots
  <1>2. CASE mask_ # 0
    <2>1. mask_ = Capacity - 1
      BY Zenon, <1>2 DEF mask_
    <2>2. next(o) = (o + 1) % Capacity
      BY <1>2, <2>1, CapacityAssumption DEF next
    <2>3. CASE o + 1 = Capacity
      BY <2>2, <2>3, CapacityAssumption DEF Slots
    <2>4. CASE o + 1 # Capacity
      BY <2>2, <2>4, CapacityAssumption DEF Slots
    <2>5. QED
      BY Zenon, <2>3, <2>4
  <1>3. QED
    BY Zenon, <1>1, <1>2

\* A coroutine appended to a queue it is not in.
LEMMA AppendQueued ==
    ASSUME NEW q \in Seq(Co), NEW c \in Co, NoRepeats(q), c \notin Queued(q)
    PROVE  /\ Append(q, c) \in Seq(Co)
           /\ NoRepeats(Append(q, c))
           /\ Queued(Append(q, c)) = Queued(q) \cup {c}
  BY DEF NoRepeats, Queued

\* The first coroutine taken out of a queue.
LEMMA TailQueued ==
    ASSUME NEW q \in Seq(Co), q # <<>>, NoRepeats(q)
    PROVE  /\ Head(q) \in Queued(q) /\ Head(q) \in Co
           /\ Tail(q) \in Seq(Co)
           /\ NoRepeats(Tail(q))
           /\ Queued(Tail(q)) = Queued(q) \ {Head(q)}
  <1>1. /\ Len(q) \in Nat \ {0} /\ Head(q) = q[1] /\ Len(Tail(q)) = Len(q) - 1
        /\ \A i \in 1 .. Len(q) - 1 : Tail(q)[i] = q[i + 1]
    OBVIOUS
  <1>2. Head(q) \in Queued(q) /\ Head(q) \in Co /\ Tail(q) \in Seq(Co)
    BY <1>1 DEF Queued
  <1>3. NoRepeats(Tail(q))
    BY <1>1 DEF NoRepeats
  <1>4. Queued(Tail(q)) \subseteq Queued(q) \ {Head(q)}
    BY <1>1 DEF NoRepeats, Queued
  <1>5. ASSUME NEW i \in 1 .. Len(q), q[i] # Head(q) PROVE q[i] \in Queued(Tail(q))
    <2>1. i - 1 \in 1 .. Len(Tail(q)) /\ Tail(q)[i - 1] = q[i]
      BY <1>1, <1>5
    <2>2. QED
      BY Zenon, <2>1 DEF Queued
  <1>6. QED
    BY Zenon, <1>2, <1>3, <1>4, <1>5 DEF Queued

\* The elements of w are elements of q, in the same order.
SameOrder(w, q) ==
    \A i, j \in 1 .. Len(w) : i < j =>
        \E a, b \in 1 .. Len(q) : a < b /\ q[a] = w[i] /\ q[b] = w[j]

\* producer_remove() and consumer_remove() take out that coroutine only, and
\* leave the others in their order.
LEMMA WithoutQueued ==
    ASSUME NEW q \in Seq(Co), NEW c \in Co, NoRepeats(q)
    PROVE  /\ Without(q, c) \in Seq(Co)
           /\ NoRepeats(Without(q, c))
           /\ Queued(Without(q, c)) = Queued(q) \ {c}
           /\ SameOrder(Without(q, c), q)
  <1>1. CASE ~ \E i \in 1 .. Len(q) : q[i] = c
    <2>1. Without(q, c) = q /\ Queued(q) = Queued(q) \ {c}
      BY Zenon, <1>1 DEF Without, Queued
    <2>2. SameOrder(q, q)
      BY Zenon DEF SameOrder
    <2>3. QED
      BY Zenon, <2>1, <2>2
  <1>2. CASE \E i \in 1 .. Len(q) : q[i] = c
    <2> DEFINE k == CHOOSE j \in 1 .. Len(q) : q[j] = c
               r == SubSeq(q, 1, k - 1) \o SubSeq(q, k + 1, Len(q))
    <2>1. k \in 1 .. Len(q) /\ q[k] = c
      BY Zenon, <1>2
    <2>2. Without(q, c) = r
      BY Zenon, <1>2 DEF Without
    <2> HIDE DEF k
    <2> DEFINE a == SubSeq(q, 1, k - 1)
               b == SubSeq(q, k + 1, Len(q))
    <2>a. a \in Seq(Co) /\ Len(a) = k - 1 /\ \A i \in 1 .. k - 1 : a[i] = q[i]
      BY <2>1
    <2>b. /\ b \in Seq(Co) /\ Len(b) = Len(q) - k
          /\ \A i \in 1 .. Len(q) - k : b[i] = q[k + i]
      BY <2>1
    <2> HIDE DEF a, b
    <2>3. /\ a \o b \in Seq(Co) /\ Len(a \o b) = Len(q) - 1
          /\ \A i \in 1 .. Len(q) - 1 :
                (a \o b)[i] = IF i < k THEN q[i] ELSE q[i + 1]
      <3>1. /\ a \o b \in Seq(Co) /\ Len(a \o b) = Len(q) - 1
            /\ \A i \in 1 .. Len(q) - 1 :
                (a \o b)[i] = IF i <= k - 1 THEN a[i] ELSE b[i - (k - 1)]
        <4>1. /\ a \o b \in Seq(Co)
              /\ Len(a \o b) = Len(a) + Len(b)
              /\ \A i \in 1 .. Len(a) + Len(b) :
                    (a \o b)[i] = IF i <= Len(a) THEN a[i] ELSE b[i - Len(a)]
          <5>1. a \in Seq(Co) /\ b \in Seq(Co)
            BY Zenon, <2>a, <2>b
          <5>2. QED
            BY <5>1
        <4>2. Len(q) \in Nat
          OBVIOUS
        <4>3. Len(a) + Len(b) = Len(q) - 1
          BY <2>1, <2>a, <2>b, <4>2
        <4>4. QED
          BY Zenon, <4>1, <4>3, <2>a
      <3>2. ASSUME NEW i \in 1 .. Len(q) - 1, i >= k
            PROVE  (a \o b)[i] = q[i + 1]
        <4>1. i - (k - 1) \in 1 .. Len(q) - k /\ k + (i - (k - 1)) = i + 1
          BY <2>1, <3>2
        <4>2. b[i - (k - 1)] = q[i + 1]
          BY Zenon, <4>1, <2>b
        <4>3. ~(i <= k - 1)
          BY <2>1, <3>2
        <4>4. QED
          BY Zenon, <4>2, <4>3, <3>1
      <3>3. ASSUME NEW i \in 1 .. Len(q) - 1, i < k
            PROVE  (a \o b)[i] = q[i]
        <4>1. i <= k - 1 /\ i \in 1 .. k - 1
          BY <2>1, <3>3
        <4>2. QED
          BY Zenon, <4>1, <3>1, <2>a
      <3>4. \A i \in 1 .. Len(q) - 1 : ~(i < k) => i >= k
        BY <2>1
      <3>5. QED
        BY Zenon, <3>1, <3>2, <3>3, <3>4
    <2>c. Without(q, c) = a \o b
      BY Zenon, <2>2 DEF a, b
    <2> DEFINE w == a \o b
    <2> HIDE DEF w
    <2>d. /\ w \in Seq(Co) /\ Len(w) = Len(q) - 1 /\ Without(q, c) = w
          /\ \A i \in 1 .. Len(q) - 1 : w[i] = IF i < k THEN q[i] ELSE q[i + 1]
      BY Zenon, <2>3, <2>c DEF w
    <2>4. NoRepeats(w)
      <3>1. ASSUME NEW i \in 1 .. Len(w), NEW j \in 1 .. Len(w), w[i] = w[j]
            PROVE  i = j
        <4> DEFINE m == IF i < k THEN i ELSE i + 1
                   n == IF j < k THEN j ELSE j + 1
        <4>1. m \in 1 .. Len(q) /\ n \in 1 .. Len(q) /\ (m = n => i = j)
          BY <2>1, <2>d
        <4>2. q[m] = w[i] /\ q[n] = w[j]
          BY Zenon, <2>1, <2>d
        <4> HIDE DEF m, n
        <4>3. QED
          BY Zenon, <3>1, <4>1, <4>2 DEF NoRepeats
      <3>2. QED
        BY Zenon, <3>1 DEF NoRepeats
    <2>5. ASSUME NEW i \in 1 .. Len(w) PROVE w[i] \in Queued(q) /\ w[i] # c
      BY SMTT(30), <2>1, <2>d DEF NoRepeats, Queued
    <2>6. ASSUME NEW i \in 1 .. Len(q), q[i] # c PROVE q[i] \in Queued(w)
      <3>1. CASE i < k
        BY <2>1, <2>d, <3>1 DEF Queued
      <3>2. CASE i > k
        <4>1. i - 1 \in 1 .. Len(w) /\ w[i - 1] = q[i]
          BY <2>1, <2>d, <3>2
        <4>2. QED
          BY Zenon, <4>1 DEF Queued
      <3>3. QED
        BY <2>1, <2>6, <3>1, <3>2
    <2>7. Queued(w) = Queued(q) \ {c}
      BY Zenon, <2>5, <2>6 DEF Queued
    <2>8. SameOrder(w, q)
      <3>1. ASSUME NEW i \in 1 .. Len(w), NEW j \in 1 .. Len(w), i < j
            PROVE  \E m, n \in 1 .. Len(q) : m < n /\ q[m] = w[i] /\ q[n] = w[j]
        <4> DEFINE m == IF i < k THEN i ELSE i + 1
                   n == IF j < k THEN j ELSE j + 1
        <4>1. m \in 1 .. Len(q) /\ n \in 1 .. Len(q) /\ m < n
          BY <2>1, <2>d, <3>1
        <4>2. q[m] = w[i] /\ q[n] = w[j]
          BY Zenon, <2>1, <2>d, <3>1
        <4>3. QED
          BY Zenon, <4>1, <4>2
      <3>2. QED
        BY Zenon, <3>1 DEF SameOrder
    <2>9. QED
      BY Zenon, <2>d, <2>4, <2>7, <2>8
  <1>3. QED
    BY Zenon, <1>1, <1>2

-----------------------------------------------------------------------------
(***************************************************************************)
(* Types.  The three parts are what the pieces of a call change: the       *)
(* switch it makes, the ring, and the bookkeeping of a wait.               *)
(***************************************************************************)
SwitchPart ==
    /\ SwitchTypeOK
    /\ pc \in [Co -> {"user", "in_resume", "yield_ex"} \cup Waits \cup Loops]
    /\ producer_queue \in Seq(Co) /\ consumer_queue \in Seq(Co)

RingPart ==
    /\ error_ \in {"OK", "TIMEOUT", "CLOSED", "CANCELED"}
    /\ head_ \in Slots /\ tail_ \in Slots /\ count_ \in 0 .. Capacity
    /\ data_queue \in [Slots -> Numbers]
    /\ ret \in [Co -> {"OK", "PENDING", "TIMEOUT", "CLOSED", "CANCELED", "EMPTY"}]
    /\ pushed \in Seq(Numbers) /\ popped \in Seq(Numbers) /\ served \in Seq(Numbers)

WaitPart ==
    /\ resume_code \in [Co -> {"OK", "TIMEDOUT", "CANCELED"}]
    /\ cancel_fn \in [Co -> {"none", "yield_ex"} \cup Waits]
    /\ timer \in [Co -> BOOLEAN]
    /\ on_bailout = FALSE
    /\ closed \in BOOLEAN
    /\ msg_error \in [Co -> BOOLEAN]
    /\ call \in [Co -> Numbers] /\ calls \in Numbers

\* TypeOK is what it says of the switches, of the ring and of the waits.
LEMMA TypeParts ==
    /\ TypeOK <=> SwitchPart /\ RingPart /\ WaitPart
    /\ TypeOK' <=> SwitchPart' /\ RingPart' /\ WaitPart'
  BY Zenon DEF TypeOK, SwitchPart, SwitchTypeOK, RingPart, WaitPart

\* A failing call.
LEMMA FailTypes ==
    ASSUME SwitchPart, RingPart, NEW c \in Co,
           NEW e \in {"TIMEOUT", "CLOSED", "CANCELED", "EMPTY"}, Fail(c, e)
    PROVE  SwitchPart' /\ RingPart'
  BY Zenon DEF SwitchPart, SwitchTypeOK, RingPart, Fail, dataVars, histVars

\* push_data()
LEMMA PushDataTypes ==
    ASSUME SwitchPart, RingPart, on_bailout = FALSE,
           NEW c \in Co, NEW n \in Numbers, push_data(c, n)
    PROVE  SwitchPart' /\ RingPart'
  <1>1. CASE is_full
    BY Zenon, <1>1, FailTypes DEF push_data
  <1>2. CASE ~is_full
    <2>1. RingPart'
      <3>1. tail_' \in Slots /\ count_' \in 0 .. Capacity
        BY <1>2, NextOffset, CapacityAssumption DEF push_data, RingPart, is_full
      <3>2. data_queue' \in [Slots -> Numbers]
        BY Zenon, <1>2 DEF push_data, RingPart
      <3>3. pushed' = Append(pushed, n) /\ pushed \in Seq(Numbers)
        BY Zenon, <1>2 DEF push_data, RingPart
      <3>4. pushed' \in Seq(Numbers)
        BY <3>3
      <3>5. QED
        BY Zenon, <1>2, <3>1, <3>2, <3>4 DEF push_data, RingPart
    <2>2. SwitchPart'
      <3>1. CASE consumer_queue = <<>>
        BY Zenon, <1>2, <3>1 DEF push_data, notify_consumer, SwitchPart, SwitchTypeOK
      <3>2. CASE consumer_queue # <<>>
        <4>1. Head(consumer_queue) \in Co /\ Tail(consumer_queue) \in Seq(Co)
          BY <3>2 DEF SwitchPart
        <4>2. QED
          BY ZenonT(30), <1>2, <3>2, <4>1
          DEF push_data, notify_consumer, resume, SwitchPart, SwitchTypeOK, CoStates
      <3>3. QED
        BY Zenon, <3>1, <3>2
    <2>3. QED
      BY Zenon, <2>1, <2>2
  <1>3. QED
    BY Zenon, <1>1, <1>2

\* pop_data() and what pop() does around it.
LEMMA PopDataTypes ==
    ASSUME SwitchPart, RingPart, on_bailout = FALSE,
           NEW c \in Co, NEW n \in Numbers, pop_data(c, n)
    PROVE  SwitchPart' /\ RingPart'
  <1>1. CASE is_empty
    BY Zenon, <1>1, FailTypes DEF pop_data
  <1>2. CASE ~is_empty
    <2>1. RingPart'
      <3>1. head_' \in Slots /\ count_' \in 0 .. Capacity
        BY <1>2, NextOffset, CapacityAssumption DEF pop_data, RingPart, is_empty
      <3>2. /\ popped' = Append(popped, data_queue[head_]) /\ popped \in Seq(Numbers)
            /\ served' = Append(served, n) /\ served \in Seq(Numbers)
            /\ data_queue[head_] \in Numbers
        BY Zenon, <1>2 DEF pop_data, RingPart
      <3>3. popped' \in Seq(Numbers) /\ served' \in Seq(Numbers)
        BY <3>2
      <3>4. QED
        BY Zenon, <1>2, <3>1, <3>3 DEF pop_data, RingPart
    <2>2. SwitchPart'
      <3>1. CASE producer_queue = <<>>
        BY Zenon, <1>2, <3>1 DEF pop_data, notify_producer, SwitchPart, SwitchTypeOK
      <3>2. CASE producer_queue # <<>>
        <4>1. Head(producer_queue) \in Co /\ Tail(producer_queue) \in Seq(Co)
          BY <3>2 DEF SwitchPart
        <4>2. QED
          BY ZenonT(30), <1>2, <3>2, <4>1
          DEF pop_data, notify_producer, resume, SwitchPart, SwitchTypeOK, CoStates
      <3>3. QED
        BY Zenon, <3>1, <3>2
    <2>3. QED
      BY Zenon, <2>1, <2>2
  <1>3. QED
    BY Zenon, <1>1, <1>2

\* A call that has to wait switches away and leaves the ring alone.
LEMMA SuspendTypes ==
    ASSUME SwitchPart, RingPart, on_bailout = FALSE, NEW c \in Co,
           NEW timed \in BOOLEAN, NEW w \in Waits, Suspend(c, timed, w)
    PROVE  /\ SwitchTypeOK' /\ RingPart'
           /\ pc' \in [Co -> {"user", "in_resume", "yield_ex"} \cup Waits \cup Loops]
  BY Zenon DEF SwitchPart, SwitchTypeOK, RingPart, Suspend, yield, CoStates, dataVars, histVars

\* The steps of the scheduler itself.
LEMMA SchedulingTypes ==
    ASSUME TypeOK, NEW c \in Co, Scheduling(c)
    PROVE  TypeOK'
  <1> USE DEF TypeOK, CoStates
  <1>1. UNCHANGED <<producer_queue, consumer_queue, closed, error_, msg_error>>
        /\ UNCHANGED <<data_queue, head_, tail_, count_>>
        /\ UNCHANGED <<call, ret, calls, pushed, popped, served>>
    BY Zenon DEF Scheduling, chanVars, waitVars, dataVars, callVars, histVars
  <1>2. CASE Create(c)
    BY Zenon, <1>1, <1>2 DEF Create
  <1>3. CASE ReturnFromResume(c)
    BY Zenon, <1>1, <1>3 DEF ReturnFromResume
  <1>4. CASE End(c)
    BY Zenon, <1>1, <1>4 DEF End, close_children
  <1>5. CASE YieldEx(c, TRUE)
    BY Zenon, <1>1, <1>5 DEF YieldEx, yield
  <1>6. CASE AfterYieldEx(c)
    BY Zenon, <1>1, <1>6 DEF AfterYieldEx
  <1>7. CASE YieldExTimeout(c)
    BY Zenon, <1>1, <1>7 DEF YieldExTimeout, resume
  <1>8. QED
    BY Zenon, <1>2, <1>3, <1>4, <1>5, <1>6, <1>7 DEF Scheduling

\* A call that begins keeps the types.
LEMMA CalledTypes ==
    ASSUME TypeOK, NEW c \in Co, Called(c)
    PROVE  /\ calls + 1 \in Numbers /\ calls' = calls + 1
           /\ call' \in [Co -> Numbers] /\ on_bailout' = FALSE /\ closed' \in BOOLEAN
  BY MaxCallsAssumption DEF TypeOK, Called, Numbers

\* push() and pop(), from the call to the first switch.
LEMMA PushTypes ==
    ASSUME TypeOK, NEW c \in Co, NEW timed \in BOOLEAN, Push(c, timed)
    PROVE  TypeOK'
  <1> USE TypeParts
  <1>1. /\ calls' = calls + 1 /\ calls + 1 \in Numbers
        /\ call' \in [Co -> Numbers] /\ on_bailout' = FALSE /\ closed' \in BOOLEAN
    BY Zenon, CalledTypes DEF Push
  <1>2. NoWait => WaitPart'
    BY Zenon, <1>1 DEF NoWait, WaitPart
  <1>3. CASE Fail(c, "CLOSED") /\ NoWait
    BY Zenon, <1>2, <1>3, FailTypes
  <1>4. CASE push_data(c, calls + 1) /\ NoWait
    BY Zenon, <1>1, <1>2, <1>4, PushDataTypes DEF WaitPart
  <1>5. CASE /\ Suspend(c, timed, "wait_push") /\ UNCHANGED consumer_queue
             /\ producer_queue' = Append(producer_queue, c)
    <2>1. producer_queue' \in Seq(Co)
      BY <1>5 DEF SwitchPart
    <2>2. WaitPart'
      BY Zenon, <1>1, <1>5 DEF Suspend, WaitPart, Waits
    <2>3. QED
      BY Zenon, <1>5, <2>1, <2>2, SuspendTypes DEF SwitchPart, Waits, WaitPart
  <1>6. QED
    BY Zenon, <1>3, <1>4, <1>5 DEF Push

\* pop() up to its first switch keeps the types.
LEMMA PopTypes ==
    ASSUME TypeOK, NEW c \in Co, NEW timed \in BOOLEAN, Pop(c, timed)
    PROVE  TypeOK'
  <1> USE TypeParts
  <1>1. /\ calls' = calls + 1 /\ calls + 1 \in Numbers
        /\ call' \in [Co -> Numbers] /\ on_bailout' = FALSE /\ closed' \in BOOLEAN
    BY Zenon, CalledTypes DEF Pop
  <1>2. NoWait => WaitPart'
    BY Zenon, <1>1 DEF NoWait, WaitPart
  <1>3. CASE Fail(c, "CLOSED") /\ NoWait
    BY Zenon, <1>2, <1>3, FailTypes
  <1>4. CASE pop_data(c, calls + 1) /\ NoWait
    BY Zenon, <1>1, <1>2, <1>4, PopDataTypes DEF WaitPart
  <1>5. CASE /\ Suspend(c, timed, "wait_pop") /\ UNCHANGED producer_queue
             /\ consumer_queue' = Append(consumer_queue, c)
    <2>1. consumer_queue' \in Seq(Co)
      BY <1>5 DEF SwitchPart
    <2>2. WaitPart'
      BY Zenon, <1>1, <1>5 DEF Suspend, WaitPart, Waits
    <2>3. QED
      BY Zenon, <1>5, <2>1, <2>2, SuspendTypes DEF SwitchPart, Waits, WaitPart
  <1>6. QED
    BY Zenon, <1>3, <1>4, <1>5 DEF Pop

\* push() and pop(), after the wait.
LEMMA WakeTypes ==
    ASSUME TypeOK, NEW c \in Co, PushWake(c) \/ PopWake(c)
    PROVE  TypeOK'
  <1> USE TypeParts
  <1>1. call[c] \in Numbers /\ on_bailout = FALSE
    BY Zenon DEF WaitPart
  <1>2. WaitPart'
    BY Zenon DEF WaitPart, PushWake, PopWake, Resumed, Waits
  <1>3. CASE PushWake(c)
    <2>1. push_data(c, call[c]) => SwitchPart' /\ RingPart'
      BY Zenon, <1>1, PushDataTypes
    <2>2. QED
      BY Zenon, <1>2, <1>3, <2>1, FailTypes DEF PushWake
  <1>4. CASE PopWake(c)
    <2>1. pop_data(c, call[c]) => SwitchPart' /\ RingPart'
      BY Zenon, <1>1, PopDataTypes
    <2>2. QED
      BY Zenon, <1>2, <1>4, <2>1, FailTypes DEF PopWake
  <1>5. QED
    BY Zenon, <1>3, <1>4

\* close()
LEMMA CloseTypes ==
    ASSUME TypeOK, NEW c \in Co,
           Close(c) \/ CloseProducers(c) \/ CloseConsumers(c)
    PROVE  TypeOK'
  <1>0. SwitchPart /\ SwitchTypeOK /\ RingPart /\ WaitPart
    BY Zenon, TypeParts DEF SwitchPart
  <1>1. CASE Close(c)
    <2>1. SwitchPart'
      BY Zenon, <1>0, <1>1 DEF Close, SwitchPart, SwitchTypeOK, Loops
    <2>2. RingPart' /\ WaitPart'
      BY Zenon, <1>0, <1>1 DEF Close, RingPart, WaitPart, dataVars, callVars, histVars
    <2>3. QED
      BY Zenon, <2>1, <2>2, TypeParts
  <1>2. CASE CloseProducers(c)
    <2>1. producer_queue # <<>> =>
            Head(producer_queue) \in Co /\ Tail(producer_queue) \in Seq(Co)
      BY <1>0 DEF SwitchPart
    <2>2. SwitchPart'
      BY ZenonT(30), <1>0, <1>2, <2>1
      DEF CloseProducers, resume, SwitchPart, SwitchTypeOK, CoStates, Loops
    <2>3. RingPart' /\ WaitPart'
      BY Zenon, <1>0, <1>2 DEF CloseProducers, RingPart, WaitPart, dataVars, callVars, histVars
    <2>4. QED
      BY Zenon, <2>2, <2>3, TypeParts
  <1>3. CASE CloseConsumers(c)
    <2>1. consumer_queue # <<>> =>
            Head(consumer_queue) \in Co /\ Tail(consumer_queue) \in Seq(Co)
      BY <1>0 DEF SwitchPart
    <2>2. SwitchPart'
      BY ZenonT(30), <1>0, <1>3, <2>1
      DEF CloseConsumers, resume, SwitchPart, SwitchTypeOK, CoStates, Loops
    <2>3. RingPart' /\ WaitPart'
      BY Zenon, <1>0, <1>3 DEF CloseConsumers, RingPart, WaitPart, dataVars, callVars, histVars
    <2>4. QED
      BY Zenon, <2>2, <2>3, TypeParts
  <1>4. QED
    BY Zenon, <1>1, <1>2, <1>3

-----------------------------------------------------------------------------
(***************************************************************************)
(* The wait queues.  A step of the channel either stays in the current     *)
(* coroutine, or resumes one, or suspends the current one, or ends it.     *)
(***************************************************************************)
Suspending == Waits \cup {"yield_ex"}

WaitInv ==
    \A c \in Co :
        /\ pc[c] \in Suspending => state[c] = "WAITING" \/ current = c
        /\ timer[c] => pc[c] \in Suspending
        /\ cancel_fn[c] # "none" => cancel_fn[c] = pc[c]

QueueInv == Switch /\ WaitInv /\ QueuedAreWaiting

\* What a step that does not suspend the current coroutine does to the waits:
\* the current coroutine is in none any more, the others may lose a timer or a
\* cancel function.
Bookkeeping ==
    \A d \in Co :
        /\ d # current => /\ pc'[d] = pc[d]
                          /\ timer'[d] => timer[d]
                          /\ cancel_fn'[d] \in {cancel_fn[d], "none"}
        /\ d = current => /\ pc'[d] \notin Suspending
                          /\ ~timer'[d]
                          /\ cancel_fn'[d] = "none"

\* A step without a switch.
LEMMA StayStep ==
    ASSUME QueueInv, Bookkeeping, current \in Co,
           UNCHANGED <<current, origin, state, producer_queue, consumer_queue>>
    PROVE  QueueInv'
  <1>1. state[current] = "RUNNING"
    BY Zenon, NoCoAssumption DEF QueueInv, Switch, Chain
  <1>2. Switch'
    BY Zenon DEF QueueInv, Switch, SwitchTypeOK, Chain, NoReferenceToEnded
  <1>3. WaitInv'
    BY DEF QueueInv, WaitInv, Bookkeeping, Suspending, Waits
  <1>4. QueuedAreWaiting'
    <2>1. \A d \in Co : state'[d] = "WAITING" => pc'[d] = pc[d]
      BY Zenon, <1>1 DEF Bookkeeping
    <2>2. \A d \in Co : state'[d] = state[d]
      BY Zenon
    <2>3. QED
      BY <2>1, <2>2 DEF QueueInv, QueuedAreWaiting, NoRepeats, Queued
  <1>5. QED
    BY Zenon, <1>2, <1>3, <1>4 DEF QueueInv

\* A step that resumes h, which leaves the queue it was in.
LEMMA ResumeStep ==
    ASSUME QueueInv, Bookkeeping, on_bailout = FALSE, NEW h \in Co,
           state[h] \in {"INIT", "WAITING"}, resume(h),
           NoRepeats(producer_queue)', NoRepeats(consumer_queue)',
           Queued(producer_queue)' = Queued(producer_queue) \ {h},
           Queued(consumer_queue)' = Queued(consumer_queue) \ {h}
    PROVE  QueueInv'
  <1>1. current # NoCo => state[current] = "RUNNING"
    BY Zenon DEF QueueInv, Switch, Chain
  <1>2. Switch'
    BY Zenon, ResumeKeepsSwitch DEF QueueInv
  <1>3. /\ current' = h /\ h # current
        /\ state'[h] = "RUNNING"
        /\ \A d \in Co : d # h => state'[d] = state[d]
    BY Zenon, <1>1, NoCoAssumption DEF resume, QueueInv, Switch, SwitchTypeOK
  <1>4. WaitInv'
    BY <1>3 DEF QueueInv, WaitInv, Bookkeeping, Suspending, Waits
  <1>5. QueuedAreWaiting'
    <2>1. \A d \in Co : state'[d] = "WAITING" => d # h /\ d # current /\ pc'[d] = pc[d]
      BY Zenon, <1>1, <1>3, NoCoAssumption DEF Bookkeeping
    <2>2. \A d \in Co : d # h /\ state[d] = "WAITING" => state'[d] = "WAITING" /\ pc'[d] = pc[d]
      BY Zenon, <1>1, <1>3, NoCoAssumption DEF Bookkeeping
    <2>3. QED
      BY <1>3, <2>1, <2>2 DEF QueueInv, QueuedAreWaiting
  <1>6. QED
    BY Zenon, <1>2, <1>4, <1>5 DEF QueueInv

\* A step that suspends the current coroutine c with pc w, queued accordingly.
LEMMA SuspendStep ==
    ASSUME QueueInv, NEW c \in Co, current = c, yield(c), NEW w \in Suspending,
           \A d \in Co : d # c => /\ pc'[d] = pc[d] /\ timer'[d] = timer[d]
                                  /\ cancel_fn'[d] = cancel_fn[d],
           pc'[c] = w, cancel_fn'[c] = w,
           NoRepeats(producer_queue)', NoRepeats(consumer_queue)',
           Queued(producer_queue)' =
                Queued(producer_queue) \cup {d \in {c} : w = "wait_push"},
           Queued(consumer_queue)' =
                Queued(consumer_queue) \cup {d \in {c} : w = "wait_pop"}
    PROVE  QueueInv'
  <1>1. state[c] = "RUNNING"
    BY Zenon, NoCoAssumption DEF QueueInv, Switch, Chain
  <1>2. Switch'
    BY Zenon, YieldKeepsSwitch DEF QueueInv
  <1>3. state'[c] = "WAITING" /\ \A d \in Co : d # c => state'[d] = state[d]
    BY Zenon DEF yield, QueueInv, Switch, SwitchTypeOK
  <1>4. WaitInv'
    BY <1>3 DEF QueueInv, WaitInv, Suspending, Waits
  <1>5. QueuedAreWaiting'
    BY <1>1, <1>3 DEF QueueInv, QueuedAreWaiting, Suspending, Waits
  <1>6. QED
    BY Zenon, <1>2, <1>4, <1>5 DEF QueueInv

\* The current coroutine c is in no wait any more; the others are as before.
WaitOver(c) ==
    \A d \in Co :
        IF d = c THEN ~timer'[d] /\ cancel_fn'[d] = "none"
        ELSE timer'[d] = timer[d] /\ cancel_fn'[d] = cancel_fn[d]

\* Outside a wait there is no timer and no cancel function to forget.
LEMMA NoWaitIsOver ==
    ASSUME TypeOK, WaitInv, NEW c \in Co, pc[c] \notin Suspending,
           UNCHANGED <<timer, cancel_fn>>
    PROVE  WaitOver(c)
  BY Zenon DEF TypeOK, WaitInv, WaitOver, Suspending, Waits

\* After a wait they are forgotten.
LEMMA ResumedIsOver ==
    ASSUME TypeOK, NEW c \in Co, NEW w, Resumed(c, w)
    PROVE  WaitOver(c)
  BY Zenon DEF TypeOK, Resumed, WaitOver

\* A call that fails keeps QueueInv.
LEMMA FailQueue ==
    ASSUME TypeOK, QueueInv, NEW c \in Co, current = c, WaitOver(c), NEW e, Fail(c, e)
    PROVE  QueueInv'
  <1>1. Bookkeeping
    BY Zenon DEF TypeOK, Bookkeeping, WaitOver, Fail, Suspending, Waits
  <1>2. QED
    BY Zenon, <1>1, StayStep DEF Fail

\* push_data() with its notification keeps QueueInv.
LEMMA PushDataQueue ==
    ASSUME TypeOK, QueueInv, NEW c \in Co, current = c, WaitOver(c),
           NEW n, push_data(c, n)
    PROVE  QueueInv'
  <1>1. CASE is_full
    BY Zenon, <1>1, FailQueue DEF push_data
  <1>2. CASE ~is_full
    <2>1. notify_consumer(c) /\ producer_queue' = producer_queue
      BY Zenon, <1>2 DEF push_data
    <2>2. Bookkeeping
      BY <2>1 DEF TypeOK, Bookkeeping, WaitOver, notify_consumer, Suspending, Waits
    <2>3. CASE consumer_queue = <<>>
      BY Zenon, <2>1, <2>2, <2>3, StayStep DEF notify_consumer
    <2>4. CASE consumer_queue # <<>>
      <3> DEFINE h == Head(consumer_queue)
      <3>1. /\ h \in Queued(consumer_queue) /\ h \in Co
            /\ NoRepeats(Tail(consumer_queue))
            /\ Queued(Tail(consumer_queue)) = Queued(consumer_queue) \ {h}
        BY Zenon, <2>4, TailQueued DEF TypeOK, QueueInv, QueuedAreWaiting
      <3>2. consumer_queue' = Tail(consumer_queue) /\ resume(h)
        BY Zenon, <2>1, <2>4 DEF notify_consumer
      <3>3. state[h] = "WAITING" /\ h \notin Queued(producer_queue)
        BY Zenon, <3>1 DEF QueueInv, QueuedAreWaiting
      <3> HIDE DEF h
      <3>4. /\ NoRepeats(producer_queue)' /\ NoRepeats(consumer_queue)'
            /\ Queued(producer_queue)' = Queued(producer_queue) \ {h}
            /\ Queued(consumer_queue)' = Queued(consumer_queue) \ {h}
        BY Zenon, <2>1, <3>1, <3>2, <3>3 DEF QueueInv, QueuedAreWaiting
      <3>5. QED
        BY Zenon, <2>2, <3>1, <3>2, <3>3, <3>4, ResumeStep DEF TypeOK
    <2>5. QED
      BY Zenon, <2>3, <2>4
  <1>3. QED
    BY Zenon, <1>1, <1>2

\* pop_data() with its notification keeps QueueInv.
LEMMA PopDataQueue ==
    ASSUME TypeOK, QueueInv, NEW c \in Co, current = c, WaitOver(c),
           NEW n, pop_data(c, n)
    PROVE  QueueInv'
  <1>1. CASE is_empty
    BY Zenon, <1>1, FailQueue DEF pop_data
  <1>2. CASE ~is_empty
    <2>1. notify_producer(c) /\ consumer_queue' = consumer_queue
      BY Zenon, <1>2 DEF pop_data
    <2>2. Bookkeeping
      BY <2>1 DEF TypeOK, Bookkeeping, WaitOver, notify_producer, Suspending, Waits
    <2>3. CASE producer_queue = <<>>
      BY Zenon, <2>1, <2>2, <2>3, StayStep DEF notify_producer
    <2>4. CASE producer_queue # <<>>
      <3> DEFINE h == Head(producer_queue)
      <3>1. /\ h \in Queued(producer_queue) /\ h \in Co
            /\ NoRepeats(Tail(producer_queue))
            /\ Queued(Tail(producer_queue)) = Queued(producer_queue) \ {h}
        BY Zenon, <2>4, TailQueued DEF TypeOK, QueueInv, QueuedAreWaiting
      <3>2. producer_queue' = Tail(producer_queue) /\ resume(h)
        BY Zenon, <2>1, <2>4 DEF notify_producer
      <3>3. state[h] = "WAITING" /\ h \notin Queued(consumer_queue)
        BY Zenon, <3>1 DEF QueueInv, QueuedAreWaiting
      <3> HIDE DEF h
      <3>4. /\ NoRepeats(producer_queue)' /\ NoRepeats(consumer_queue)'
            /\ Queued(producer_queue)' = Queued(producer_queue) \ {h}
            /\ Queued(consumer_queue)' = Queued(consumer_queue) \ {h}
        BY Zenon, <2>1, <3>1, <3>2, <3>3 DEF QueueInv, QueuedAreWaiting
      <3>5. QED
        BY Zenon, <2>2, <3>1, <3>2, <3>3, <3>4, ResumeStep DEF TypeOK
    <2>5. QED
      BY Zenon, <2>3, <2>4
  <1>3. QED
    BY Zenon, <1>1, <1>2

\* A call that suspends its caller.
LEMMA SuspendQueue ==
    ASSUME TypeOK, QueueInv, NEW c \in Co, current = c, NEW timed \in BOOLEAN,
           NEW w \in Waits, Suspend(c, timed, w),
           IF w = "wait_push"
           THEN producer_queue' = Append(producer_queue, c) /\ UNCHANGED consumer_queue
           ELSE consumer_queue' = Append(consumer_queue, c) /\ UNCHANGED producer_queue
    PROVE  QueueInv'
  <1>1. c \notin Queued(producer_queue) /\ c \notin Queued(consumer_queue)
    BY Zenon, NoCoAssumption DEF QueueInv, QueuedAreWaiting, Switch, Chain
  <1>2. /\ NoRepeats(Append(producer_queue, c))
        /\ Queued(Append(producer_queue, c)) = Queued(producer_queue) \cup {c}
        /\ NoRepeats(Append(consumer_queue, c))
        /\ Queued(Append(consumer_queue, c)) = Queued(consumer_queue) \cup {c}
    BY Zenon, <1>1, AppendQueued DEF TypeOK, QueueInv, QueuedAreWaiting
  <1>3. /\ NoRepeats(producer_queue)' /\ NoRepeats(consumer_queue)'
        /\ Queued(producer_queue)' =
                Queued(producer_queue) \cup {d \in {c} : w = "wait_push"}
        /\ Queued(consumer_queue)' =
                Queued(consumer_queue) \cup {d \in {c} : w = "wait_pop"}
    <2>1. CASE w = "wait_push"
      BY Zenon, <1>2, <2>1 DEF QueueInv, QueuedAreWaiting
    <2>2. CASE w = "wait_pop"
      BY Zenon, <1>2, <2>2 DEF QueueInv, QueuedAreWaiting
    <2>3. QED
      BY Zenon, <2>1, <2>2 DEF Waits
  <1>4. /\ \A d \in Co : d # c => /\ pc'[d] = pc[d] /\ timer'[d] = timer[d]
                                  /\ cancel_fn'[d] = cancel_fn[d]
        /\ pc'[c] = w /\ cancel_fn'[c] = w /\ yield(c)
    BY Zenon DEF TypeOK, Suspend
  <1>5. QED
    BY Zenon, <1>3, <1>4, SuspendStep DEF Suspending

\* push() and pop(), before and after the wait.
LEMMA CallQueue ==
    ASSUME TypeOK, QueueInv, NEW c \in Co, NEW timed \in BOOLEAN,
           Push(c, timed) \/ Pop(c, timed)
    PROVE  QueueInv'
  <1>1. current = c /\ pc[c] = "user"
    BY Zenon DEF Push, Pop, Called
  <1>2. NoWait => WaitOver(c)
    BY Zenon, <1>1, NoWaitIsOver DEF NoWait, QueueInv, Suspending, Waits
  <1>3. CASE Push(c, timed)
    <2>1. Suspend(c, timed, "wait_push") /\ producer_queue' = Append(producer_queue, c)
            /\ UNCHANGED consumer_queue => QueueInv'
      BY Zenon, <1>1, SuspendQueue DEF Waits
    <2>2. QED
      BY Zenon, <1>1, <1>2, <1>3, <2>1, FailQueue, PushDataQueue DEF Push
  <1>4. CASE Pop(c, timed)
    <2>1. Suspend(c, timed, "wait_pop") /\ consumer_queue' = Append(consumer_queue, c)
            /\ UNCHANGED producer_queue => QueueInv'
      BY Zenon, <1>1, SuspendQueue DEF Waits
    <2>2. QED
      BY Zenon, <1>1, <1>2, <1>4, <2>1, FailQueue, PopDataQueue DEF Pop
  <1>5. QED
    BY Zenon, <1>3, <1>4

\* A caller that goes on after its wait keeps QueueInv.
LEMMA WakeQueue ==
    ASSUME TypeOK, QueueInv, NEW c \in Co, PushWake(c) \/ PopWake(c)
    PROVE  QueueInv'
  <1>1. current = c /\ WaitOver(c)
    BY Zenon, ResumedIsOver DEF PushWake, PopWake, Resumed
  <1>2. QED
    BY Zenon, <1>1, FailQueue, PushDataQueue, PopDataQueue DEF PushWake, PopWake

\* The first waiter of a queue, taken out by close().
LEMMA FirstWaiter ==
    ASSUME TypeOK, QueueInv
    PROVE  /\ producer_queue # <<>> =>
                /\ Head(producer_queue) \in Co
                /\ state[Head(producer_queue)] = "WAITING"
                /\ Head(producer_queue) \notin Queued(consumer_queue)
                /\ NoRepeats(Tail(producer_queue))
                /\ Queued(Tail(producer_queue)) = Queued(producer_queue) \ {Head(producer_queue)}
           /\ consumer_queue # <<>> =>
                /\ Head(consumer_queue) \in Co
                /\ state[Head(consumer_queue)] = "WAITING"
                /\ Head(consumer_queue) \notin Queued(producer_queue)
                /\ NoRepeats(Tail(consumer_queue))
                /\ Queued(Tail(consumer_queue)) = Queued(consumer_queue) \ {Head(consumer_queue)}
  <1>1. ASSUME producer_queue # <<>>
        PROVE  /\ Head(producer_queue) \in Queued(producer_queue)
               /\ Head(producer_queue) \in Co
               /\ NoRepeats(Tail(producer_queue))
               /\ Queued(Tail(producer_queue)) = Queued(producer_queue) \ {Head(producer_queue)}
    BY Zenon, <1>1, TailQueued DEF TypeOK, QueueInv, QueuedAreWaiting
  <1>2. ASSUME consumer_queue # <<>>
        PROVE  /\ Head(consumer_queue) \in Queued(consumer_queue)
               /\ Head(consumer_queue) \in Co
               /\ NoRepeats(Tail(consumer_queue))
               /\ Queued(Tail(consumer_queue)) = Queued(consumer_queue) \ {Head(consumer_queue)}
    BY Zenon, <1>2, TailQueued DEF TypeOK, QueueInv, QueuedAreWaiting
  <1>3. QED
    BY Zenon, <1>1, <1>2 DEF QueueInv, QueuedAreWaiting

\* A step of the loops of close() keeps QueueInv.
LEMMA CloseQueue ==
    ASSUME TypeOK, QueueInv, NEW c \in Co,
           Close(c) \/ CloseProducers(c) \/ CloseConsumers(c)
    PROVE  QueueInv'
  <1>1. /\ current = c /\ pc[c] \notin Suspending /\ UNCHANGED <<timer, cancel_fn>>
        /\ pc'[c] \notin Suspending /\ \A d \in Co : d # c => pc'[d] = pc[d]
    BY DEF Close, CloseProducers, CloseConsumers, Suspending, Waits, TypeOK
  <1>2. Bookkeeping
    BY Zenon, <1>1, NoWaitIsOver DEF QueueInv, Bookkeeping, WaitOver
  <1>3. CASE UNCHANGED <<current, origin, state, producer_queue, consumer_queue>>
    BY Zenon, <1>1, <1>2, <1>3, StayStep
  <1>4. CASE /\ producer_queue # <<>> /\ producer_queue' = Tail(producer_queue)
             /\ resume(Head(producer_queue)) /\ UNCHANGED consumer_queue
    <2> DEFINE h == Head(producer_queue)
    <2>1. /\ h \in Co /\ state[h] = "WAITING" /\ resume(h)
          /\ NoRepeats(producer_queue)' /\ NoRepeats(consumer_queue)'
          /\ Queued(producer_queue)' = Queued(producer_queue) \ {h}
          /\ Queued(consumer_queue)' = Queued(consumer_queue) \ {h}
      BY <1>4, FirstWaiter DEF QueueInv, QueuedAreWaiting
    <2> HIDE DEF h
    <2>2. QED
      BY ZenonT(30), <1>2, <2>1, ResumeStep DEF TypeOK
  <1>5. CASE /\ consumer_queue # <<>> /\ consumer_queue' = Tail(consumer_queue)
             /\ resume(Head(consumer_queue)) /\ UNCHANGED producer_queue
    <2> DEFINE h == Head(consumer_queue)
    <2>1. /\ h \in Co /\ state[h] = "WAITING" /\ resume(h)
          /\ NoRepeats(producer_queue)' /\ NoRepeats(consumer_queue)'
          /\ Queued(producer_queue)' = Queued(producer_queue) \ {h}
          /\ Queued(consumer_queue)' = Queued(consumer_queue) \ {h}
      BY <1>5, FirstWaiter DEF QueueInv, QueuedAreWaiting
    <2> HIDE DEF h
    <2>2. QED
      BY Zenon, <1>2, <2>1, ResumeStep DEF TypeOK
  <1>6. QED
    BY Zenon, <1>3, <1>4, <1>5 DEF Close, CloseProducers, CloseConsumers

\* timer_callback() and the cancel function: the waiter leaves its queue.
LEMMA RemoveQueue ==
    ASSUME TypeOK, QueueInv, NEW c \in Co, RemoveWaiter(c), pc[c] \in Waits
    PROVE  /\ NoRepeats(producer_queue)' /\ NoRepeats(consumer_queue)'
           /\ Queued(producer_queue)' = Queued(producer_queue) \ {c}
           /\ Queued(consumer_queue)' = Queued(consumer_queue) \ {c}
           /\ producer_queue' \in Seq(Co) /\ consumer_queue' \in Seq(Co)
  <1>1. /\ NoRepeats(Without(producer_queue, c))
        /\ Queued(Without(producer_queue, c)) = Queued(producer_queue) \ {c}
        /\ Without(producer_queue, c) \in Seq(Co)
        /\ NoRepeats(Without(consumer_queue, c))
        /\ Queued(Without(consumer_queue, c)) = Queued(consumer_queue) \ {c}
        /\ Without(consumer_queue, c) \in Seq(Co)
    BY Zenon, WithoutQueued DEF TypeOK, QueueInv, QueuedAreWaiting
  <1>2. CASE pc[c] = "wait_push"
    BY <1>1, <1>2 DEF RemoveWaiter, TypeOK, QueueInv, QueuedAreWaiting
  <1>3. CASE pc[c] = "wait_pop"
    BY Zenon, <1>1, <1>3 DEF RemoveWaiter, TypeOK, QueueInv, QueuedAreWaiting
  <1>4. QED
    BY Zenon, <1>2, <1>3 DEF Waits

\* The callback of a timer keeps QueueInv.
LEMMA TimerQueue ==
    ASSUME TypeOK, QueueInv, NEW c \in Co, TimerCallback(c)
    PROVE  QueueInv' /\ TypeOK'
  <1>1. current = NoCo /\ pc[c] \in Waits /\ state[c] = "WAITING"
    BY Zenon, NoCoAssumption DEF TimerCallback, QueueInv, WaitInv, Suspending, Waits
  <1>2. Bookkeeping
    BY Zenon, <1>1, NoCoAssumption DEF Bookkeeping, TimerCallback, TypeOK
  <1>3. /\ NoRepeats(producer_queue)' /\ NoRepeats(consumer_queue)'
        /\ Queued(producer_queue)' = Queued(producer_queue) \ {c}
        /\ Queued(consumer_queue)' = Queued(consumer_queue) \ {c}
        /\ producer_queue' \in Seq(Co) /\ consumer_queue' \in Seq(Co)
    BY Zenon, <1>1, RemoveQueue DEF TimerCallback
  <1>4. QueueInv'
    BY Zenon, <1>1, <1>2, <1>3, ResumeStep DEF TimerCallback, TypeOK
  <1>5. TypeOK'
    BY Zenon, <1>3 DEF TimerCallback, TypeOK, resume, CoStates, dataVars, callVars, histVars
  <1>6. QED
    BY Zenon, <1>4, <1>5

\* cancel() of a waiting caller keeps QueueInv.
LEMMA CancelQueue ==
    ASSUME TypeOK, QueueInv, NEW c \in Co, CancelWaiter(c)
    PROVE  QueueInv' /\ TypeOK'
  <1>1. pc[c] \in Waits /\ pc[c] = cancel_fn[c]
    BY Zenon DEF CancelWaiter, QueueInv, WaitInv, Waits
  <1>2. current # NoCo => current \in Co /\ pc[current] = "user"
    BY Zenon DEF CancelWaiter, CanCall
  <1>3. state[c] = "WAITING" /\ current # c
    BY Zenon, <1>1, <1>2, NoCoAssumption DEF QueueInv, WaitInv, Suspending, Waits
  <1>4. /\ timer' = timer /\ cancel_fn' = [cancel_fn EXCEPT ![c] = "none"]
        /\ pc' = IF current \in Co THEN [pc EXCEPT ![current] = "in_resume"] ELSE pc
    BY Zenon DEF CancelWaiter, InCaller, TypeOK
  <1>5. current \in Co => ~timer[current] /\ cancel_fn[current] = "none"
    BY Zenon, <1>2, NoCoAssumption DEF TypeOK, QueueInv, WaitInv, Suspending, Waits
  <1>6. Bookkeeping
    BY <1>3, <1>4, <1>5, NoCoAssumption DEF Bookkeeping, TypeOK, Suspending, Waits
  <1>7. /\ NoRepeats(producer_queue)' /\ NoRepeats(consumer_queue)'
        /\ Queued(producer_queue)' = Queued(producer_queue) \ {c}
        /\ Queued(consumer_queue)' = Queued(consumer_queue) \ {c}
        /\ producer_queue' \in Seq(Co) /\ consumer_queue' \in Seq(Co)
    BY Zenon, <1>1, RemoveQueue DEF CancelWaiter
  <1>8. QueueInv'
    BY Zenon, <1>3, <1>6, <1>7, ResumeStep DEF CancelWaiter, TypeOK
  <1>9. TypeOK'
    <2>1. SwitchPart'
      <3>1. SwitchTypeOK /\ SwitchPart /\ ~on_bailout
        BY Zenon, TypeParts DEF SwitchPart, WaitPart
      <3>2. resume(c)
        BY Zenon DEF CancelWaiter
      <3>3. SwitchTypeOK'
        BY Zenon, <3>1, <3>2 DEF resume, SwitchTypeOK, CoStates
      <3>4. pc' \in [Co -> {"user", "in_resume", "yield_ex"} \cup Waits \cup Loops]
        BY Zenon, <1>4, <3>1 DEF SwitchPart
      <3>5. QED
        BY Zenon, <1>7, <3>3, <3>4 DEF SwitchPart
    <2>2. RingPart' /\ WaitPart'
      BY Zenon, TypeParts DEF CancelWaiter, RingPart, WaitPart, dataVars, callVars, histVars
    <2>3. QED
      BY Zenon, <2>1, <2>2, TypeParts
  <1>10. QED
    BY Zenon, <1>8, <1>9

\* The scheduler's own steps leave the queues alone.
LEMMA SchedulingQueue ==
    ASSUME TypeOK, QueueInv, NEW c \in Co, Scheduling(c)
    PROVE  QueueInv'
  <1>1. UNCHANGED <<producer_queue, consumer_queue>>
    BY Zenon DEF Scheduling, chanVars, waitVars
  <1>2. /\ NoRepeats(producer_queue)' /\ NoRepeats(consumer_queue)'
        /\ Queued(producer_queue)' = Queued(producer_queue)
        /\ Queued(consumer_queue)' = Queued(consumer_queue)
    BY Zenon, <1>1 DEF QueueInv, QueuedAreWaiting
  <1>3. current \in Co /\ pc[current] \notin Suspending
            => ~timer[current] /\ cancel_fn[current] = "none"
    BY Zenon DEF TypeOK, QueueInv, WaitInv, Suspending, Waits
  <1>4. CASE Create(c)
    <2>1. current # NoCo => current \in Co /\ pc[current] = "user"
      BY Zenon, <1>4 DEF Create, CanCall
    <2>2. resume(c) /\ state[c] = "INIT" /\ c \notin Queued(producer_queue)
          /\ c \notin Queued(consumer_queue)
      BY Zenon, <1>4 DEF Create, resume, QueueInv, QueuedAreWaiting, TypeOK
    <2>3. Bookkeeping
      BY <1>3, <1>4, <2>1, NoCoAssumption
      DEF Bookkeeping, Create, TypeOK, Suspending, Waits
    <2>4. QED
      BY Zenon, <1>2, <2>2, <2>3, ResumeStep DEF TypeOK
  <1>5. CASE ReturnFromResume(c) \/ AfterYieldEx(c)
    <2>1. Bookkeeping
      BY <1>3, <1>5
      DEF Bookkeeping, ReturnFromResume, AfterYieldEx, TypeOK, Suspending, Waits
    <2>2. QED
      BY Zenon, <1>1, <1>5, <2>1, StayStep DEF ReturnFromResume, AfterYieldEx
  <1>6. CASE YieldEx(c, TRUE)
    <2>1. /\ \A d \in Co : d # c => /\ pc'[d] = pc[d] /\ timer'[d] = timer[d]
                                    /\ cancel_fn'[d] = cancel_fn[d]
          /\ pc'[c] = "yield_ex" /\ cancel_fn'[c] = "yield_ex" /\ yield(c) /\ current = c
      BY Zenon, <1>6 DEF YieldEx, TypeOK
    <2>2. QED
      BY Zenon, <1>2, <2>1, SuspendStep DEF Suspending
  <1>7. CASE YieldExTimeout(c)
    <2>1. current = NoCo /\ state[c] = "WAITING" /\ pc[c] = "yield_ex"
      BY Zenon, <1>7, NoCoAssumption DEF YieldExTimeout, QueueInv, WaitInv, Suspending
    <2>2. c \notin Queued(producer_queue) /\ c \notin Queued(consumer_queue)
      BY Zenon, <2>1 DEF QueueInv, QueuedAreWaiting
    <2>3. Bookkeeping
      BY <1>7, <2>1, NoCoAssumption DEF Bookkeeping, YieldExTimeout, TypeOK
    <2>4. QED
      BY ZenonT(30), <1>2, <1>7, <2>1, <2>2, <2>3, ResumeStep DEF YieldExTimeout, TypeOK
  <1>8. CASE End(c)
    <2>1. Switch'
      BY Zenon, <1>8, EndKeepsSwitch DEF QueueInv
    <2>2. /\ current = c /\ state[c] = "RUNNING" /\ state'[c] = "END"
          /\ \A d \in Co : d # c => state'[d] = state[d]
          /\ UNCHANGED <<pc, timer, cancel_fn>> /\ pc[c] = "user"
      BY Zenon, <1>8, NoCoAssumption DEF End, QueueInv, Switch, Chain, TypeOK
    <2>3. WaitInv'
      BY Zenon, <2>2 DEF QueueInv, WaitInv, Suspending, Waits
    <2>4. QueuedAreWaiting'
      BY ZenonT(30), <1>2, <2>2 DEF QueueInv, QueuedAreWaiting
    <2>5. QED
      BY Zenon, <2>1, <2>3, <2>4 DEF QueueInv
  <1>9. QED
    BY Zenon, <1>4, <1>5, <1>6, <1>7, <1>8 DEF Scheduling

-----------------------------------------------------------------------------
\* A new channel has the invariant.
LEMMA InitQueue == Init => TypeOK /\ QueueInv
  <1> SUFFICES ASSUME Init PROVE TypeOK /\ QueueInv
    BY Zenon
  <1>1. TypeOK
    <2>1. SwitchPart
      BY DEF Init, CoInit, SwitchPart, SwitchTypeOK, CoStates
    <2>2. 0 \in Slots /\ 0 \in Numbers /\ 0 \in 0 .. Capacity
      BY CapacityAssumption, MaxCallsAssumption DEF Slots, Numbers
    <2>3. RingPart
      BY <2>2 DEF Init, RingPart
    <2>4. WaitPart
      BY Zenon, <2>2 DEF Init, CoInit, WaitPart
    <2>5. QED
      BY Zenon, <2>1, <2>3, <2>4, TypeParts
  <1>2. Switch
    BY Zenon, <1>1 DEF Init, CoInit, Switch, SwitchTypeOK, Chain, NoReferenceToEnded, TypeOK
  <1>3. WaitInv
    BY Zenon DEF Init, CoInit, WaitInv, Suspending, Waits
  <1>4. QueuedAreWaiting
    BY DEF Init, CoInit, QueuedAreWaiting, NoRepeats, Queued
  <1>5. QED
    BY Zenon, <1>1, <1>2, <1>3, <1>4 DEF QueueInv

\* Every step of the channel keeps types and QueueInv.
LEMMA QueueNext == TypeOK /\ QueueInv /\ [Next]_vars => TypeOK' /\ QueueInv'
  <1> SUFFICES ASSUME TypeOK, QueueInv, [Next]_vars PROVE TypeOK' /\ QueueInv'
    BY Zenon
  <1>1. ASSUME NEW c \in Co, Scheduling(c) PROVE TypeOK' /\ QueueInv'
    BY Zenon, <1>1, SchedulingTypes, SchedulingQueue
  <1>2. ASSUME NEW c \in Co, NEW timed \in BOOLEAN, Push(c, timed)
        PROVE  TypeOK' /\ QueueInv'
    BY Zenon, <1>2, PushTypes, CallQueue
  <1>3. ASSUME NEW c \in Co, NEW timed \in BOOLEAN, Pop(c, timed)
        PROVE  TypeOK' /\ QueueInv'
    BY Zenon, <1>3, PopTypes, CallQueue
  <1>4. ASSUME NEW c \in Co, PushWake(c) \/ PopWake(c) PROVE TypeOK' /\ QueueInv'
    BY Zenon, <1>4, WakeTypes, WakeQueue
  <1>5. ASSUME NEW c \in Co, Close(c) \/ CloseProducers(c) \/ CloseConsumers(c)
        PROVE  TypeOK' /\ QueueInv'
    BY Zenon, <1>5, CloseTypes, CloseQueue
  <1>6. ASSUME NEW c \in Co, TimerCallback(c) PROVE TypeOK' /\ QueueInv'
    BY Zenon, <1>6, TimerQueue
  <1>7. ASSUME NEW c \in Co, CancelWaiter(c) PROVE TypeOK' /\ QueueInv'
    BY Zenon, <1>7, CancelQueue
  <1>8. CASE UNCHANGED vars
    <2>1. UNCHANGED <<coVars, waitVars, dataVars, callVars, histVars>>
      BY Zenon, <1>8 DEF vars, chanVars
    <2>2. TypeOK'
      BY <2>1, Zenon DEF coVars, waitVars, dataVars, callVars, histVars, TypeOK
    <2>3. Switch'
      BY Zenon, <2>1 DEF coVars, QueueInv, Switch, SwitchTypeOK, Chain, NoReferenceToEnded
    <2>4. WaitInv'
      BY Zenon, <2>1 DEF coVars, QueueInv, WaitInv
    <2>5. QueuedAreWaiting'
      BY <2>1 DEF coVars, waitVars, QueueInv, QueuedAreWaiting, NoRepeats, Queued
    <2>6. QED
      BY Zenon, <2>2, <2>3, <2>4, <2>5 DEF QueueInv
  <1>9. QED
    BY Zenon, <1>1, <1>2, <1>3, <1>4, <1>5, <1>6, <1>7, <1>8 DEF Next

\* Types and QueueInv hold in every state of the channel.
LEMMA QueueInvariant == Spec => [](TypeOK /\ QueueInv)
  BY InitQueue, QueueNext, PTL DEF Spec

\* Every reachable state is type correct: in particular the offsets stay inside
\* the ring and pop() never sees more data than the capacity.
THEOREM TypeCorrect == Spec => []TypeOK
  BY QueueInvariant, PTL

\* The wait queues hold exactly the suspended producers and consumers.
THEOREM QueuesAreExact == Spec => []QueuedAreWaiting
  <1>1. QueueInv => QueuedAreWaiting
    BY Zenon DEF QueueInv
  <1>2. QED
    BY QueueInvariant, <1>1, PTL

\* No timer outlives the wait that holds its TimeoutMessage.
THEOREM TimersInFrame == Spec => []TimeoutMessageAlive
  <1>1. QueueInv => TimeoutMessageAlive
    BY Zenon DEF QueueInv, WaitInv, TimeoutMessageAlive, Suspending
  <1>2. QED
    BY QueueInvariant, <1>1, PTL

\* For any coroutines and capacity: queues, timers and their messages belong to
\* waits that are under way.
THEOREM WaitersStayInFrame == Spec => []WaitersInFrame
  BY QueuesAreExact, TimersInFrame, PTL DEF WaitersInFrame

-----------------------------------------------------------------------------
(***************************************************************************)
(* The ring holds the data pushed and not yet popped, oldest at head_.     *)
(***************************************************************************)
Pos(h, i) == IF h + i < Capacity THEN h + i ELSE h + i - Capacity

RingInv ==
    /\ Len(pushed) = Len(popped) + count_
    /\ tail_ = Pos(head_, count_)
    /\ \A i \in 0 .. count_ - 1 : data_queue[Pos(head_, i)] = pushed[Len(popped) + i + 1]

DataUnchanged == UNCHANGED <<data_queue, head_, tail_, count_, pushed, popped>>

\* A datum that push_data() accepts.
PutStep(n) ==
    /\ count_ < Capacity
    /\ data_queue' = [data_queue EXCEPT ![tail_] = n]
    /\ tail_' = next(tail_) /\ count_' = count_ + 1
    /\ pushed' = Append(pushed, n)
    /\ UNCHANGED <<head_, popped>>

\* A datum that pop_data() returns.
TakeStep ==
    /\ count_ > 0
    /\ popped' = Append(popped, data_queue[head_])
    /\ head_' = next(head_) /\ count_' = count_ - 1
    /\ UNCHANGED <<data_queue, tail_, pushed>>

\* A datum written at tail_ becomes the last of the ring, which keeps RingInv.
LEMMA RingPut ==
    ASSUME TypeOK, RingInv, NEW n \in Numbers, PutStep(n)
    PROVE  RingInv'
  <1>1. /\ count_ \in Nat /\ count_ < Capacity /\ Capacity \in Nat
        /\ head_ \in 0 .. Capacity - 1 /\ tail_ \in 0 .. Capacity - 1
    BY CapacityAssumption DEF TypeOK, PutStep, Slots
  <1>2. tail_' = IF tail_ + 1 = Capacity THEN 0 ELSE tail_ + 1
    BY Zenon, NextOffset DEF PutStep, TypeOK
  <1>3. /\ Len(pushed) \in Nat /\ Len(popped) \in Nat
        /\ Len(pushed') = Len(pushed) + 1 /\ pushed'[Len(pushed) + 1] = n
        /\ \A j \in 1 .. Len(pushed) : pushed'[j] = pushed[j]
    <2>1. pushed \in Seq(Numbers) /\ popped \in Seq(Numbers) /\ pushed' = Append(pushed, n)
      BY Zenon DEF PutStep, TypeOK
    <2>2. QED
      BY <2>1
  <1>4. Len(pushed') = Len(popped') + count_'
    <2>1. popped' = popped /\ count_' = count_ + 1
      BY Zenon DEF PutStep
    <2>2. Len(pushed) = Len(popped) + count_
      BY Zenon DEF RingInv
    <2>3. QED
      BY <1>1, <1>3, <2>1, <2>2
  <1>5. tail_' = Pos(head_', count_')
    <2>1. /\ tail_ = IF head_ + count_ < Capacity THEN head_ + count_
                     ELSE head_ + count_ - Capacity
          /\ head_' = head_ /\ count_' = count_ + 1
      BY Zenon DEF RingInv, PutStep, Pos
    <2>2. QED
      BY <1>1, <1>2, <2>1 DEF Pos
  <1>6. ASSUME NEW i \in 0 .. count_' - 1
        PROVE  data_queue'[Pos(head_', i)] = pushed'[Len(popped') + i + 1]
    <2>1. Pos(head_', i) = Pos(head_, i) /\ Len(popped') = Len(popped)
      BY Zenon DEF Pos, PutStep
    <2>2. CASE i = count_
      BY <1>1, <1>3, <2>1, <2>2 DEF RingInv, PutStep, TypeOK, Slots
    <2>3. CASE i < count_
      <3>1. i \in 0 .. count_ - 1 /\ Pos(head_, i) # tail_ /\ Pos(head_, i) \in Slots
        <4>1. tail_ = Pos(head_, count_) /\ count_' = count_ + 1
          BY Zenon DEF RingInv, PutStep
        <4>2. QED
          BY <1>1, <2>3, <4>1 DEF Pos, Slots
      <3>2. data_queue'[Pos(head_, i)] = data_queue[Pos(head_, i)]
        BY Zenon, <3>1 DEF PutStep, TypeOK
      <3>3. Len(popped) + i + 1 \in 1 .. Len(pushed)
        <4>1. Len(pushed) = Len(popped) + count_
          BY Zenon DEF RingInv
        <4>2. QED
          BY <1>1, <1>3, <3>1, <4>1
      <3>4. QED
        BY Zenon, <1>3, <2>1, <3>1, <3>2, <3>3 DEF RingInv
    <2>4. i = count_ \/ i < count_
      <3>1. count_' = count_ + 1
        BY Zenon DEF PutStep
      <3>2. QED
        BY <1>1, <3>1
    <2>5. QED
      BY Zenon, <2>2, <2>3, <2>4
  <1>7. QED
    BY Zenon, <1>4, <1>5, <1>6 DEF RingInv

\* The datum at head_ is the oldest, and taking it keeps RingInv.
LEMMA RingTake ==
    ASSUME TypeOK, RingInv, TakeStep
    PROVE  /\ RingInv'
           /\ Len(popped) < Len(pushed)
           /\ data_queue[head_] = pushed[Len(popped) + 1]
  <1>1. /\ count_ \in Nat /\ count_ > 0 /\ count_ <= Capacity /\ Capacity \in Nat
        /\ head_ \in 0 .. Capacity - 1 /\ tail_ \in 0 .. Capacity - 1
    BY CapacityAssumption DEF TypeOK, TakeStep, Slots
  <1>2. head_' = IF head_ + 1 = Capacity THEN 0 ELSE head_ + 1
    BY Zenon, NextOffset DEF TakeStep, TypeOK
  <1>3. Len(pushed) \in Nat /\ Len(popped) \in Nat /\ Len(popped') = Len(popped) + 1
    <2>1. data_queue[head_] \in Numbers /\ popped \in Seq(Numbers)
      BY Zenon DEF TypeOK
    <2>2. pushed \in Seq(Numbers) /\ popped' = Append(popped, data_queue[head_])
      BY Zenon DEF TakeStep, TypeOK
    <2>3. QED
      BY <2>1, <2>2
  <1>4. Pos(head_, 0) = head_
    BY <1>1 DEF Pos
  <1>5. Len(popped) < Len(pushed) /\ data_queue[head_] = pushed[Len(popped) + 1]
    <2>1. 0 \in 0 .. count_ - 1
      BY <1>1
    <2>2. data_queue[Pos(head_, 0)] = pushed[Len(popped) + 0 + 1]
      BY Zenon, <2>1 DEF RingInv
    <2>3. Len(pushed) = Len(popped) + count_
      BY Zenon DEF RingInv
    <2>4. QED
      BY <1>1, <1>3, <1>4, <2>2, <2>3
  <1>6. Len(pushed') = Len(popped') + count_'
    <2>1. pushed' = pushed /\ count_' = count_ - 1
      BY Zenon DEF TakeStep
    <2>2. Len(pushed) = Len(popped) + count_
      BY Zenon DEF RingInv
    <2>3. QED
      BY <1>1, <1>3, <2>1, <2>2
  <1>7. tail_' = Pos(head_', count_')
    <2>1. /\ tail_ = IF head_ + count_ < Capacity THEN head_ + count_
                     ELSE head_ + count_ - Capacity
          /\ tail_' = tail_ /\ count_' = count_ - 1
      BY Zenon DEF RingInv, TakeStep, Pos
    <2>2. QED
      BY <1>1, <1>2, <2>1 DEF Pos
  <1>8. ASSUME NEW i \in 0 .. count_' - 1
        PROVE  data_queue'[Pos(head_', i)] = pushed'[Len(popped') + i + 1]
    <2>1. i + 1 \in 0 .. count_ - 1 /\ Pos(head_', i) = Pos(head_, i + 1)
      BY <1>1, <1>2 DEF TakeStep, Pos
    <2>2. data_queue[Pos(head_, i + 1)] = pushed[Len(popped) + (i + 1) + 1]
      BY Zenon, <2>1 DEF RingInv
    <2>3. Len(popped') + i + 1 = Len(popped) + (i + 1) + 1
      BY <1>1, <1>3
    <2>4. QED
      BY Zenon, <2>1, <2>2, <2>3 DEF TakeStep
  <1>9. QED
    BY Zenon, <1>5, <1>6, <1>7, <1>8 DEF RingInv

\* What any step does to the ring and to the abstract queue.
LEMMA RingStep ==
    ASSUME TypeOK, [Next]_vars
    PROVE  \/ DataUnchanged /\ closed' = closed
           \/ DataUnchanged /\ ~closed /\ closed' = TRUE
           \/ ~closed /\ closed' = closed /\ \E n \in Numbers : PutStep(n)
           \/ closed' = closed /\ TakeStep
  <1> DEFINE Goal == \/ DataUnchanged /\ closed' = closed
                     \/ DataUnchanged /\ ~closed /\ closed' = TRUE
                     \/ ~closed /\ closed' = closed /\ \E n \in Numbers : PutStep(n)
                     \/ closed' = closed /\ TakeStep
  <1>a. ASSUME NEW c, NEW e, Fail(c, e) PROVE DataUnchanged
    BY Zenon, <1>a DEF Fail, dataVars, histVars, DataUnchanged
  <1>b. ASSUME NEW c, NEW n \in Numbers, push_data(c, n)
        PROVE  DataUnchanged \/ PutStep(n)
    BY SMTT(30), <1>a, <1>b, CapacityAssumption DEF push_data, PutStep, is_full, TypeOK
  <1>c. ASSUME NEW c, NEW n, pop_data(c, n) PROVE DataUnchanged \/ TakeStep
    BY <1>a, <1>c DEF pop_data, TakeStep, is_empty, TypeOK
  <1>1. ASSUME NEW c \in Co, Scheduling(c) PROVE Goal
    BY Zenon, <1>1 DEF Scheduling, chanVars, waitVars, dataVars, histVars, DataUnchanged
  <1>2. ASSUME NEW c \in Co, NEW timed \in BOOLEAN, Push(c, timed) PROVE Goal
    <2>1. calls + 1 \in Numbers /\ closed' = closed
      BY Zenon, <1>2, CalledTypes DEF Push, Called
    <2>2. Suspend(c, timed, "wait_push") => DataUnchanged
      BY Zenon DEF Suspend, dataVars, histVars, DataUnchanged
    <2>3. QED
      BY Zenon, <1>2, <1>a, <1>b, <2>1, <2>2 DEF Push
  <1>3. ASSUME NEW c \in Co, NEW timed \in BOOLEAN, Pop(c, timed) PROVE Goal
    <2>1. closed' = closed
      BY Zenon, <1>3 DEF Pop, Called
    <2>2. Suspend(c, timed, "wait_pop") => DataUnchanged
      BY Zenon DEF Suspend, dataVars, histVars, DataUnchanged
    <2>3. QED
      BY <1>3, <1>a, <1>c, <2>1, <2>2 DEF Pop
  <1>4. ASSUME NEW c \in Co, PushWake(c) PROVE Goal
    <2>1. call[c] \in Numbers /\ closed' = closed
      BY Zenon, <1>4 DEF PushWake, Resumed, TypeOK
    <2>2. QED
      BY Zenon, <1>4, <1>a, <1>b, <2>1 DEF PushWake
  <1>5. ASSUME NEW c \in Co, PopWake(c) PROVE Goal
    BY Zenon, <1>5, <1>a, <1>c DEF PopWake, Resumed
  <1>6. ASSUME NEW c \in Co, Close(c) \/ CloseProducers(c) \/ CloseConsumers(c) PROVE Goal
    BY Zenon, <1>6 DEF Close, CloseProducers, CloseConsumers, dataVars, histVars, DataUnchanged
  <1>7. ASSUME NEW c \in Co, TimerCallback(c) \/ CancelWaiter(c) PROVE Goal
    BY Zenon, <1>7 DEF TimerCallback, CancelWaiter, dataVars, histVars, DataUnchanged
  <1>8. CASE UNCHANGED vars
    BY Zenon, <1>8 DEF vars, chanVars, waitVars, dataVars, histVars, DataUnchanged
  <1>9. QED
    BY Zenon, <1>1, <1>2, <1>3, <1>4, <1>5, <1>6, <1>7, <1>8 DEF Next

\* The channel implements a bounded FIFO queue: every datum accepted comes out
\* once, in order, at most Capacity are inside, and none is accepted once closed.
THEOREM ChannelIsFifo == Spec => RefinesFifo
  <1>1. Init => RingInv
    BY CapacityAssumption DEF Init, RingInv, Pos
  <1>2. TypeOK /\ RingInv /\ [Next]_vars => RingInv'
    <2> SUFFICES ASSUME TypeOK, RingInv, [Next]_vars PROVE RingInv'
      BY Zenon
    <2>1. DataUnchanged => RingInv'
      BY Zenon DEF DataUnchanged, RingInv
    <2>2. QED
      BY Zenon, <2>1, RingStep, RingPut, RingTake
  <1>3. Init => Fifo!FifoInit
    BY Zenon DEF Init, Fifo!FifoInit
  <1>4. TypeOK /\ RingInv /\ [Next]_vars => [Fifo!FifoNext]_(Fifo!fifoVars)
    <2> SUFFICES ASSUME TypeOK, RingInv, [Next]_vars
                 PROVE  [Fifo!FifoNext]_(Fifo!fifoVars)
      BY Zenon
    <2>1. CASE DataUnchanged /\ closed' = closed
      BY Zenon, <2>1 DEF DataUnchanged, Fifo!fifoVars
    <2>2. CASE DataUnchanged /\ ~closed /\ closed' = TRUE
      BY Zenon, <2>2 DEF DataUnchanged, Fifo!FifoNext, Fifo!Shut
    <2>3. ASSUME NEW n \in Numbers, PutStep(n), ~closed, closed' = closed
          PROVE  Fifo!PutSome
      <3>1. Len(pushed) < Len(popped) + Capacity
        <4>1. /\ Len(popped) \in Nat /\ count_ \in Nat /\ count_ < Capacity
              /\ Len(pushed) = Len(popped) + count_
          BY <2>3 DEF PutStep, RingInv, TypeOK
        <4>2. QED
          BY <4>1, CapacityAssumption
      <3>2. pushed' # pushed
        <4>1. pushed \in Seq(Numbers) /\ pushed' = Append(pushed, n)
          BY Zenon, <2>3 DEF PutStep, TypeOK
        <4>2. Len(pushed') = Len(pushed) + 1 /\ Len(pushed) \in Nat
          BY <4>1
        <4>3. QED
          BY <4>2
      <3>3. QED
        BY Zenon, <2>3, <3>1, <3>2 DEF PutStep, Fifo!PutSome, Fifo!Put
    <2>4. CASE closed' = closed /\ TakeStep
      BY Zenon, <2>4, RingTake DEF TakeStep, Fifo!FifoNext, Fifo!Take
    <2>5. QED
      BY Zenon, <2>1, <2>2, <2>3, <2>4, RingStep DEF Fifo!FifoNext
  <1>5. QED
    BY <1>1, <1>2, <1>3, <1>4, QueueInvariant, PTL DEF Spec, RefinesFifo, Fifo!FifoSpec

-----------------------------------------------------------------------------
(***************************************************************************)
(* Proofs that no wake-up of the channel is lost, that close() leaves      *)
(* nobody waiting, that a call never fails without a reason and that calls *)
(* are served in the order they were made.                                 *)
(*                                                                         *)
(* The point of the induction is the moment between a notification and the *)
(* next step of the notified coroutine: there a consumer may wait although *)
(* the ring is not empty, but then exactly one datum is in it and it is    *)
(* for the coroutine that was just resumed; dually for producers.          *)
(***************************************************************************)

\* The wait ended, or will end, neither by cancel() nor by the timer.
Ready(c) == resume_code[c] # "CANCELED" /\ ~msg_error[c]

WaitersReady ==
    \A c \in Co : state[c] = "WAITING" /\ pc[c] \in Waits => Ready(c)

ConsumersWait ==
    consumer_queue # <<>> =>
        \/ count_ = 0
        \/ JustResumed("wait_pop") /\ Ready(current) /\ count_ = 1

ProducersWait ==
    producer_queue # <<>> =>
        \/ count_ = Capacity
        \/ closed
        \/ JustResumed("wait_push") /\ Ready(current) /\ count_ = Capacity - 1

NotifiedHasWork ==
    /\ JustResumed("wait_pop") /\ Ready(current) => closed \/ count_ > 0
    /\ JustResumed("wait_push") /\ Ready(current) => closed \/ count_ < Capacity

Closing ==
    /\ \A c \in Co : pc[c] \in Loops => closed
    /\ closed => producer_queue = <<>> \/ \E c \in Co : pc[c] = "close_producers"
    /\ closed => consumer_queue = <<>> \/ \E c \in Co : pc[c] \in Loops

WakeInv ==
    /\ WaitersReady /\ ConsumersWait /\ ProducersWait
    /\ NotifiedHasWork /\ Closing /\ FailureIsExplained

-----------------------------------------------------------------------------
\* A coroutine that runs and is not current is inside a resume() it made.
LEMMA OnlyCurrentWaits ==
    ASSUME QueueInv, NEW c \in Co, current = c,
           origin[c] # NoCo
    PROVE  origin[c] \in Co /\ pc[origin[c]] \notin Waits
  BY NoCoAssumption DEF QueueInv, Switch, SwitchTypeOK, Chain, WaitInv, Suspending

\* The coroutine that yield() or the end of c goes back to is inside a resume().
LEMMA BackInResume ==
    ASSUME TypeOK, QueueInv, NEW c \in Co, current = c, current' = origin[c],
           \A d \in Co : d # c => pc'[d] = pc[d]
    PROVE  ~JustResumed("wait_push")' /\ ~JustResumed("wait_pop")'
  <1>1. origin[c] # NoCo => /\ origin[c] \in Co /\ origin[c] # c
                            /\ pc[origin[c]] \notin Waits
    BY Zenon, OnlyCurrentWaits, NoCoAssumption DEF QueueInv, Switch, Chain
  <1>2. QED
    BY Zenon, <1>1 DEF JustResumed, Waits

\* A step of the scheduler ends outside the channel's waits: it goes back into a
\* resume(), or to a coroutine that is new or sleeps.
LEMMA SchedulingEndsOutside ==
    ASSUME TypeOK, QueueInv, NEW c \in Co, Scheduling(c)
    PROVE  ~JustResumed("wait_push")' /\ ~JustResumed("wait_pop")'
  <1>1. CASE Create(c)
    <2>1. pc[c] \notin Waits
      <3>1. state[c] = "INIT"
        BY Zenon, <1>1 DEF Create
      <3>2. current # c
        BY Zenon, <3>1, NoCoAssumption DEF QueueInv, Switch, Chain
      <3>3. pc[c] \in Suspending => state[c] = "WAITING" \/ current = c
        BY Zenon DEF QueueInv, WaitInv
      <3>4. QED
        BY Zenon, <3>1, <3>2, <3>3 DEF Suspending
    <2>2. current' = c /\ current # c
      BY Zenon, <1>1, NoCoAssumption DEF Create, QueueInv, Switch, Chain
    <2>3. pc'[c] = pc[c]
      BY SMTT(30), <1>1, <2>2 DEF Create, TypeOK
    <2>4. QED
      BY Zenon, <2>1, <2>2, <2>3 DEF JustResumed, Waits
  <1>2. CASE ReturnFromResume(c) \/ AfterYieldEx(c)
    BY <1>2 DEF ReturnFromResume, AfterYieldEx, JustResumed, TypeOK
  <1>3. CASE YieldEx(c, TRUE) \/ End(c)
    <2>1. current = c /\ current' = origin[c]
      BY Zenon, <1>3 DEF YieldEx, End, yield
    <2>2. \A d \in Co : d # c => pc'[d] = pc[d]
      BY <1>3 DEF YieldEx, End, TypeOK
    <2>3. QED
      BY Zenon, <2>1, <2>2, BackInResume
  <1>4. CASE YieldExTimeout(c)
    <2>1. current' = c /\ pc' = pc /\ pc[c] = "yield_ex"
      BY Zenon, <1>4 DEF YieldExTimeout, resume, TypeOK
    <2>2. QED
      BY Zenon, <2>1 DEF JustResumed
  <1>5. QED
    BY Zenon, <1>1, <1>2, <1>3, <1>4 DEF Scheduling

\* A call that fails keeps WakeInv.
LEMMA FailWake ==
    ASSUME TypeOK, QueueInv, WakeInv, NEW c \in Co, current = c, pc[c] \notin Loops,
           NEW e, Fail(c, e), UNCHANGED <<resume_code, msg_error, closed>>,
           pc[c] = "wait_pop" /\ Ready(c) => count_ = 0,
           pc[c] = "wait_push" /\ Ready(c) => closed \/ count_ = Capacity,
           e # "EMPTY", e = "TIMEOUT" => msg_error[c], e = "CLOSED" => closed
    PROVE  WakeInv'
  <1>1. /\ UNCHANGED <<current, origin, state, producer_queue, consumer_queue, count_>>
        /\ pc' = [pc EXCEPT ![c] = "user"] /\ ret' = [ret EXCEPT ![c] = e]
    BY Zenon DEF Fail, dataVars
  <1>2. WaitersReady'
    BY SMTT(30), <1>1, NoCoAssumption DEF WakeInv, WaitersReady, Ready, TypeOK, Waits
  <1>3. ConsumersWait' /\ ProducersWait' /\ NotifiedHasWork'
    BY SMTT(30), <1>1, NoCoAssumption, CapacityAssumption
    DEF WakeInv, ConsumersWait, ProducersWait, NotifiedHasWork, JustResumed, TypeOK, Ready
  <1>4. Closing'
    BY ZenonT(30), <1>1 DEF WakeInv, Closing, TypeOK, Loops
  <1>5. FailureIsExplained'
    BY <1>1 DEF WakeInv, FailureIsExplained, TypeOK
  <1>6. QED
    BY Zenon, <1>2, <1>3, <1>4, <1>5 DEF WakeInv

\* push_data() with its notification keeps WakeInv.
LEMMA PushDataWake ==
    ASSUME TypeOK, QueueInv, WakeInv, NEW c \in Co, current = c, ~closed, ~is_full,
           pc[c] = "user" \/ (pc[c] = "wait_push" /\ Ready(c)),
           NEW n, push_data(c, n), UNCHANGED <<resume_code, msg_error, closed>>
    PROVE  WakeInv'
  <1>1. /\ count_ \in Nat /\ Capacity \in Nat /\ count_ # Capacity
        /\ count_' = count_ + 1 /\ producer_queue' = producer_queue
        /\ ret' = [ret EXCEPT ![c] = "OK"] /\ notify_consumer(c)
    BY CapacityAssumption DEF push_data, is_full, TypeOK
  <1>2. consumer_queue # <<>> => count_ = 0
    BY Zenon, NoCoAssumption DEF WakeInv, ConsumersWait, JustResumed
  <1>3. producer_queue # <<>> => count_' = Capacity
    BY <1>1 DEF WakeInv, ProducersWait
  <1>4. FailureIsExplained'
    BY Zenon, <1>1 DEF WakeInv, FailureIsExplained, TypeOK
  <1>5. CASE consumer_queue = <<>>
    <2>1. /\ pc' = [pc EXCEPT ![c] = "user"] /\ consumer_queue' = <<>>
          /\ UNCHANGED <<current, state>>
      BY Zenon, <1>1, <1>5 DEF notify_consumer
    <2>2. WaitersReady'
      BY Zenon, <2>1 DEF WakeInv, WaitersReady, Ready, TypeOK, Waits
    <2>3. ConsumersWait' /\ ProducersWait' /\ NotifiedHasWork'
      BY ZenonT(30), <1>1, <1>3, <2>1
      DEF ConsumersWait, ProducersWait, NotifiedHasWork, JustResumed, TypeOK
    <2>4. Closing'
      BY <2>1 DEF WakeInv, Closing, TypeOK, Loops
    <2>5. QED
      BY Zenon, <1>4, <2>2, <2>3, <2>4 DEF WakeInv
  <1>6. CASE consumer_queue # <<>>
    <2> DEFINE h == Head(consumer_queue)
    <2>1. h \in Co /\ state[h] = "WAITING" /\ pc[h] = "wait_pop"
      <3>1. h \in Queued(consumer_queue)
        BY <1>6, TailQueued DEF TypeOK, QueueInv, QueuedAreWaiting
      <3>2. QED
        BY Zenon, <3>1 DEF QueueInv, QueuedAreWaiting
    <2>2. /\ pc' = [pc EXCEPT ![c] = "in_resume"] /\ current' = h
          /\ state' = [state EXCEPT ![h] = "RUNNING"]
      BY Zenon, <1>1, <1>6 DEF notify_consumer, resume, TypeOK
    <2>3. h # c
      BY Zenon, <2>1, NoCoAssumption DEF QueueInv, Switch, Chain
    <2> HIDE DEF h
    <2>4. pc'[h] = "wait_pop" /\ Ready(h)
      BY SMTT(30), <2>1, <2>2, <2>3 DEF WakeInv, WaitersReady, Ready, TypeOK, Waits
    <2>5. WaitersReady'
      BY ZenonT(30), <2>1, <2>2 DEF WakeInv, WaitersReady, Ready, TypeOK, Waits
    <2>6. Ready(current)'
      BY Zenon, <2>2, <2>4 DEF Ready
    <2>7. ConsumersWait' /\ ProducersWait' /\ NotifiedHasWork'
      BY <1>1, <1>2, <1>3, <1>6, <2>1, <2>2, <2>4, <2>6, NoCoAssumption
      DEF ConsumersWait, ProducersWait, NotifiedHasWork, JustResumed
    <2>8. Closing'
      BY Zenon, <2>2 DEF WakeInv, Closing, TypeOK, Loops
    <2>9. QED
      BY Zenon, <1>4, <2>5, <2>7, <2>8 DEF WakeInv
  <1>7. QED
    BY Zenon, <1>5, <1>6

\* pop_data() with its notification keeps WakeInv.
LEMMA PopDataWake ==
    ASSUME TypeOK, QueueInv, WakeInv, NEW c \in Co, current = c, ~is_empty,
           pc[c] = "user" \/ (pc[c] = "wait_pop" /\ Ready(c)),
           NEW n, pop_data(c, n), UNCHANGED <<resume_code, msg_error, closed>>
    PROVE  WakeInv'
  <1>1. /\ count_ \in Nat /\ Capacity \in Nat /\ count_ # 0 /\ count_ <= Capacity
        /\ count_' = count_ - 1 /\ consumer_queue' = consumer_queue
        /\ ret' = [ret EXCEPT ![c] = "OK"] /\ notify_producer(c)
    BY CapacityAssumption DEF pop_data, is_empty, TypeOK
  <1>2. producer_queue # <<>> => count_ = Capacity \/ closed
    BY Zenon, NoCoAssumption DEF WakeInv, ProducersWait, JustResumed
  <1>3. consumer_queue # <<>> => count_' = 0
    BY <1>1 DEF WakeInv, ConsumersWait
  <1>4. FailureIsExplained'
    BY Zenon, <1>1 DEF WakeInv, FailureIsExplained, TypeOK
  <1>5. CASE producer_queue = <<>>
    <2>1. /\ pc' = [pc EXCEPT ![c] = "user"] /\ producer_queue' = <<>>
          /\ UNCHANGED <<current, state>>
      BY Zenon, <1>1, <1>5 DEF notify_producer
    <2>2. WaitersReady'
      BY Zenon, <2>1 DEF WakeInv, WaitersReady, Ready, TypeOK, Waits
    <2>3. ConsumersWait' /\ ProducersWait' /\ NotifiedHasWork'
      BY ZenonT(30), <1>1, <1>3, <2>1
      DEF ConsumersWait, ProducersWait, NotifiedHasWork, JustResumed, TypeOK
    <2>4. Closing'
      BY SMTT(30), <1>1, <2>1 DEF WakeInv, Closing, TypeOK, Loops
    <2>5. QED
      BY Zenon, <1>4, <2>2, <2>3, <2>4 DEF WakeInv
  <1>6. CASE producer_queue # <<>>
    <2> DEFINE h == Head(producer_queue)
    <2>1. h \in Co /\ state[h] = "WAITING" /\ pc[h] = "wait_push"
      <3>1. h \in Queued(producer_queue)
        BY <1>6, TailQueued DEF TypeOK, QueueInv, QueuedAreWaiting
      <3>2. QED
        BY Zenon, <3>1 DEF QueueInv, QueuedAreWaiting
    <2>2. /\ pc' = [pc EXCEPT ![c] = "in_resume"] /\ current' = h
          /\ state' = [state EXCEPT ![h] = "RUNNING"]
          /\ producer_queue' = Tail(producer_queue)
      BY Zenon, <1>1, <1>6 DEF notify_producer, resume, TypeOK
    <2>3. h # c
      BY Zenon, <2>1, NoCoAssumption DEF QueueInv, Switch, Chain
    <2> HIDE DEF h
    <2>4. pc'[h] = "wait_push" /\ Ready(h)
      BY SMTT(30), <2>1, <2>2, <2>3 DEF WakeInv, WaitersReady, Ready, TypeOK, Waits
    <2>5. WaitersReady'
      BY <2>1, <2>2 DEF WakeInv, WaitersReady, Ready, TypeOK, Waits
    <2>6. Ready(current)'
      BY Zenon, <2>2, <2>4 DEF Ready
    <2>7. ConsumersWait' /\ ProducersWait' /\ NotifiedHasWork'
      BY SMTT(30), <1>1, <1>2, <1>3, <1>6, <2>1, <2>2, <2>4, <2>6, NoCoAssumption
      DEF ConsumersWait, ProducersWait, NotifiedHasWork, JustResumed
    <2>8. Closing'
      BY SMTT(30), <1>1, <1>6, <2>2 DEF WakeInv, Closing, TypeOK, Loops
    <2>9. QED
      BY Zenon, <1>4, <2>5, <2>7, <2>8 DEF WakeInv
  <1>7. QED
    BY Zenon, <1>5, <1>6

\* A call that suspends its caller.
LEMMA SuspendWake ==
    ASSUME TypeOK, QueueInv, WakeInv, NEW c \in Co, current = c, pc[c] = "user",
           NEW timed \in BOOLEAN, NEW w \in Waits, Suspend(c, timed, w), ~closed,
           UNCHANGED closed,
           IF w = "wait_push"
           THEN /\ count_ = Capacity \/ producer_queue # <<>>
                /\ UNCHANGED consumer_queue
           ELSE /\ count_ = 0 \/ consumer_queue # <<>>
                /\ UNCHANGED producer_queue
    PROVE  WakeInv'
  <1>1. /\ pc' = [pc EXCEPT ![c] = w] /\ current' = origin[c]
        /\ state' = [state EXCEPT ![c] = "WAITING"]
        /\ resume_code' = [resume_code EXCEPT ![c] = "OK"]
        /\ msg_error' = [msg_error EXCEPT ![c] = FALSE]
        /\ ret' = [ret EXCEPT ![c] = "PENDING"] /\ count_' = count_
    BY Zenon DEF Suspend, yield, dataVars
  <1>2. /\ consumer_queue # <<>> => count_ = 0
        /\ producer_queue # <<>> => count_ = Capacity
    BY Zenon, NoCoAssumption DEF WakeInv, ConsumersWait, ProducersWait, JustResumed
  <1>3. ~JustResumed("wait_pop")' /\ ~JustResumed("wait_push")'
    <2>1. \A d \in Co : d # c => pc'[d] = pc[d]
      BY SMTT(30), <1>1 DEF TypeOK
    <2>2. QED
      BY ZenonT(30), <1>1, <2>1, BackInResume
  <1>4. WaitersReady'
    BY <1>1 DEF WakeInv, WaitersReady, Ready, TypeOK, Waits
  <1>5. ConsumersWait' /\ ProducersWait' /\ NotifiedHasWork'
    BY ZenonT(30), <1>1, <1>2, <1>3 DEF ConsumersWait, ProducersWait, NotifiedHasWork, Waits
  <1>6. Closing'
    BY SMTT(30), <1>1 DEF WakeInv, Closing, TypeOK, Loops, Waits
  <1>7. FailureIsExplained'
    BY <1>1 DEF WakeInv, FailureIsExplained, TypeOK
  <1>8. QED
    BY Zenon, <1>4, <1>5, <1>6, <1>7 DEF WakeInv

\* push() up to its first switch keeps WakeInv.
LEMMA PushWakes ==
    ASSUME TypeOK, QueueInv, WakeInv, NEW c \in Co, NEW timed \in BOOLEAN, Push(c, timed)
    PROVE  WakeInv'
  <1>1. current = c /\ pc[c] = "user" /\ pc[c] \notin Loops /\ UNCHANGED closed
    BY Zenon DEF Push, Called, Loops
  <1>2. CASE closed /\ Fail(c, "CLOSED") /\ NoWait
    BY Zenon, <1>1, <1>2, FailWake DEF NoWait
  <1>3. CASE /\ ~closed /\ (is_full \/ producer_queue # <<>>)
             /\ Suspend(c, timed, "wait_push") /\ UNCHANGED consumer_queue
    BY Zenon, <1>1, <1>3, SuspendWake DEF is_full, Waits
  <1>4. CASE ~closed /\ ~is_full /\ push_data(c, calls + 1) /\ NoWait
    BY Zenon, <1>1, <1>4, PushDataWake DEF NoWait
  <1>5. QED
    BY Zenon, <1>2, <1>3, <1>4 DEF Push

\* pop() up to its first switch keeps WakeInv.
LEMMA PopWakes ==
    ASSUME TypeOK, QueueInv, WakeInv, NEW c \in Co, NEW timed \in BOOLEAN, Pop(c, timed)
    PROVE  WakeInv'
  <1>1. current = c /\ pc[c] = "user" /\ pc[c] \notin Loops /\ UNCHANGED closed
    BY Zenon DEF Pop, Called, Loops
  <1>2. CASE closed /\ Fail(c, "CLOSED") /\ NoWait
    BY Zenon, <1>1, <1>2, FailWake DEF NoWait
  <1>3. CASE /\ ~(closed /\ is_empty) /\ (is_empty \/ consumer_queue # <<>>)
             /\ Suspend(c, timed, "wait_pop") /\ UNCHANGED producer_queue
    <2>1. is_empty
      BY Zenon, <1>1, <1>3, NoCoAssumption DEF WakeInv, ConsumersWait, JustResumed, is_empty
    <2>2. QED
      BY Zenon, <1>1, <1>3, <2>1, SuspendWake DEF is_empty, Waits
  <1>4. CASE ~is_empty /\ pop_data(c, calls + 1) /\ NoWait
    BY Zenon, <1>1, <1>4, PopDataWake DEF NoWait
  <1>5. QED
    BY Zenon, <1>2, <1>3, <1>4 DEF Pop

\* push() and pop() after the wait: a notified coroutine finds what it waited for.
LEMMA WakeWakes ==
    ASSUME TypeOK, QueueInv, WakeInv, NEW c \in Co, PushWake(c) \/ PopWake(c)
    PROVE  WakeInv'
  <1>1. current = c /\ current # NoCo /\ UNCHANGED <<resume_code, msg_error, closed>>
    BY Zenon, NoCoAssumption DEF PushWake, PopWake, Resumed
  <1>2. CASE PushWake(c)
    <2>1. pc[c] = "wait_push" /\ pc[c] \notin Loops
      BY ZenonT(30), <1>2 DEF PushWake, Resumed, Loops
    <2>2. CASE resume_code[c] = "CANCELED"
      BY SMTT(30), <1>1, <1>2, <2>1, <2>2, FailWake DEF PushWake, Ready
    <2>3. CASE resume_code[c] # "CANCELED" /\ msg_error[c]
      BY SMTT(30), <1>1, <1>2, <2>1, <2>3, FailWake DEF PushWake, Ready
    <2>4. CASE resume_code[c] # "CANCELED" /\ ~msg_error[c] /\ closed
      BY SMTT(30), <1>1, <1>2, <2>1, <2>4, FailWake DEF PushWake
    <2>5. CASE resume_code[c] # "CANCELED" /\ ~msg_error[c] /\ ~closed
      <3>1. Ready(c)
        BY Zenon, <2>5 DEF Ready
      <3>2. ~is_full
        BY SMTT(30), <1>1, <2>1, <2>5, <3>1, CapacityAssumption
        DEF WakeInv, NotifiedHasWork, JustResumed, is_full, TypeOK
      <3>3. QED
        BY <1>1, <1>2, <2>1, <2>5, <3>1, <3>2, PushDataWake DEF PushWake
    <2>6. QED
      BY Zenon, <2>2, <2>3, <2>4, <2>5
  <1>3. CASE PopWake(c)
    <2>1. pc[c] = "wait_pop" /\ pc[c] \notin Loops
      BY Zenon, <1>3 DEF PopWake, Resumed, Loops
    <2>2. CASE resume_code[c] = "CANCELED"
      BY Zenon, <1>1, <1>3, <2>1, <2>2, FailWake DEF PopWake, Ready
    <2>3. CASE resume_code[c] # "CANCELED" /\ msg_error[c]
      BY Zenon, <1>1, <1>3, <2>1, <2>3, FailWake DEF PopWake, Ready
    <2>4. CASE Ready(c) /\ is_empty
      <3>1. closed /\ Fail(c, "CLOSED")
        <4>1. current = c /\ c # NoCo /\ count_ = 0
          BY <1>3, <2>4, NoCoAssumption DEF PopWake, Resumed, is_empty
        <4>2. closed
          BY <2>1, <2>4, <4>1 DEF WakeInv, NotifiedHasWork, JustResumed
        <4>3. Fail(c, IF closed THEN "CLOSED" ELSE "EMPTY")
          BY Zenon, <1>3, <2>4 DEF PopWake, pop_data, Ready
        <4>4. QED
          BY ZenonT(30), <4>2, <4>3
      <3>2. QED
        BY Zenon, <1>1, <2>1, <2>4, <3>1, FailWake DEF is_empty
    <2>5. CASE Ready(c) /\ ~is_empty
      BY <1>1, <1>3, <2>1, <2>5, PopDataWake DEF PopWake, Ready
    <2>6. QED
      BY Zenon, <2>2, <2>3, <2>4, <2>5 DEF Ready
  <1>4. QED
    BY Zenon, <1>2, <1>3

\* close()
LEMMA CloseWakes ==
    ASSUME TypeOK, QueueInv, WakeInv, NEW c \in Co,
           Close(c) \/ CloseProducers(c) \/ CloseConsumers(c)
    PROVE  WakeInv'
  <1>1. /\ current = c /\ current # NoCo /\ pc[c] \in {"user"} \cup Loops
        /\ UNCHANGED <<resume_code, msg_error, count_, ret>>
        /\ closed' = TRUE /\ (pc[c] \in Loops => closed)
    BY Zenon, NoCoAssumption
    DEF Close, CloseProducers, CloseConsumers, Loops, dataVars, callVars,
        WakeInv, Closing
  <1>2. consumer_queue # <<>> => count_ = 0
    BY Zenon, <1>1 DEF WakeInv, ConsumersWait, JustResumed, Loops
  <1>3. FailureIsExplained'
    BY Zenon, <1>1 DEF WakeInv, FailureIsExplained
  <1>4. CASE UNCHANGED <<current, state, producer_queue, consumer_queue>>
    <2>1. pc'[c] \in {"user"} \cup Loops /\ \A d \in Co : d # c => pc'[d] = pc[d]
      BY DEF Close, CloseProducers, CloseConsumers, TypeOK, Loops
    <2>2. WaitersReady' /\ ConsumersWait' /\ ProducersWait' /\ NotifiedHasWork'
      BY Zenon, <1>1, <1>2, <1>4, <2>1
      DEF WakeInv, WaitersReady, Ready, ConsumersWait, ProducersWait, NotifiedHasWork,
          JustResumed, Loops, Waits
    <2>3. Closing'
      <3>1. CASE Close(c)
        BY ZenonT(30), <1>1, <2>1, <3>1 DEF Close, Closing, Loops, TypeOK
      <3>2. CASE CloseProducers(c)
        BY SMTT(30), <1>1, <1>4, <2>1, <3>2
        DEF CloseProducers, WakeInv, Closing, Loops, TypeOK, resume, QueueInv, Switch, Chain
      <3>3. CASE CloseConsumers(c)
        BY SMTT(30), <1>1, <1>4, <2>1, <3>3
        DEF CloseConsumers, WakeInv, Closing, Loops, TypeOK, resume
      <3>4. QED
        BY Zenon, <3>1, <3>2, <3>3
    <2>4. QED
      BY ZenonT(30), <1>3, <2>2, <2>3 DEF WakeInv
  <1>5. ASSUME NEW h \in Co, state[h] = "WAITING", resume(h), pc' = pc,
               CloseProducers(c) \/ CloseConsumers(c),
               producer_queue' = <<>> \/ producer_queue # <<>>,
               consumer_queue' = <<>> \/ consumer_queue # <<>>
        PROVE  WakeInv'
    <2>1. current' = h /\ state' = [state EXCEPT ![h] = "RUNNING"]
      BY SMTT(30), <1>5 DEF resume, TypeOK
    <2>2. WaitersReady' /\ ConsumersWait' /\ ProducersWait' /\ NotifiedHasWork'
      BY SMTT(30), <1>1, <1>2, <1>5, <2>1
      DEF WakeInv, WaitersReady, Ready, ConsumersWait, ProducersWait, NotifiedHasWork, TypeOK
    <2>3. closed /\ Closing'
      BY Zenon, <1>1, <1>5 DEF WakeInv, Closing, CloseProducers, CloseConsumers, Loops
    <2>4. QED
      BY ZenonT(30), <1>3, <2>2, <2>3 DEF WakeInv
  <1>6. CASE /\ CloseProducers(c) /\ producer_queue # <<>>
             /\ resume(Head(producer_queue)) /\ pc' = pc /\ UNCHANGED consumer_queue
    BY Zenon, <1>5, <1>6, FirstWaiter
  <1>7. CASE /\ CloseConsumers(c) /\ consumer_queue # <<>>
             /\ resume(Head(consumer_queue)) /\ pc' = pc /\ UNCHANGED producer_queue
    BY Zenon, <1>5, <1>7, FirstWaiter
  <1>8. QED
    BY Zenon, <1>4, <1>6, <1>7 DEF Close, CloseProducers, CloseConsumers

\* The timer callback and the cancel function: the waiter they resume is not
\* Ready, and the others go on waiting for the same reason as before.
LEMMA RemoveWakes ==
    ASSUME TypeOK, QueueInv, WakeInv, NEW c \in Co, TimerCallback(c) \/ CancelWaiter(c)
    PROVE  WakeInv'
  <1>1. /\ pc[c] \in Waits /\ state[c] = "WAITING" /\ RemoveWaiter(c) /\ resume(c)
        /\ current # NoCo => current \in Co /\ pc[current] = "user" /\ current # c
    BY Zenon, NoCoAssumption
    DEF TimerCallback, CancelWaiter, CanCall, QueueInv, WaitInv, Suspending, Waits
  <1>2. /\ current' = c /\ state' = [state EXCEPT ![c] = "RUNNING"]
        /\ UNCHANGED <<closed, count_, ret>>
        /\ \A d \in Co : d # current => pc'[d] = pc[d]
        /\ current # NoCo => pc'[current] \in {"user", "in_resume"}
    <2>1. current' = c /\ state' = [state EXCEPT ![c] = "RUNNING"]
      BY <1>1 DEF resume, TypeOK
    <2>2. UNCHANGED <<closed, count_, ret>>
      BY Zenon DEF TimerCallback, CancelWaiter, dataVars, callVars
    <2>3. pc' = pc \/ pc' = [pc EXCEPT ![current] = "in_resume"]
      BY Zenon DEF TimerCallback, CancelWaiter, InCaller
    <2>4. pc = [d \in Co |-> pc[d]]
      BY Zenon DEF TypeOK
    <2>5. QED
      BY SMTT(30), <1>1, <2>1, <2>2, <2>3, <2>4
  <1>3. /\ producer_queue' = <<>> \/ producer_queue # <<>>
        /\ consumer_queue' = <<>> \/ consumer_queue # <<>>
    <2>1. /\ Queued(producer_queue)' = Queued(producer_queue) \ {c}
          /\ Queued(consumer_queue)' = Queued(consumer_queue) \ {c}
          /\ producer_queue' \in Seq(Co) /\ consumer_queue' \in Seq(Co)
      BY Zenon, <1>1, RemoveQueue
    <2>2. producer_queue \in Seq(Co) /\ consumer_queue \in Seq(Co)
      BY Zenon DEF TypeOK
    <2>3. \A q \in Seq(Co) : q # <<>> => q[1] \in Queued(q)
      BY DEF Queued
    <2>4. Queued(<<>>) = {}
      BY DEF Queued
    <2>5. /\ producer_queue' # <<>> => producer_queue'[1] \in Queued(producer_queue)
          /\ consumer_queue' # <<>> => consumer_queue'[1] \in Queued(consumer_queue)
      BY Zenon, <2>1, <2>3 DEF Queued
    <2>6. QED
      BY Zenon, <2>4, <2>5
  <1>4. /\ consumer_queue # <<>> => count_ = 0
        /\ producer_queue # <<>> => count_ = Capacity \/ closed
    BY Zenon, <1>1 DEF WakeInv, ConsumersWait, ProducersWait, JustResumed
  <1>5. /\ ~Ready(current)'
        /\ \A d \in Co : d # c => Ready(d)' = Ready(d)
        /\ \A d \in Co : msg_error[d] => msg_error'[d]
    <2>1. resume_code \in [Co -> {"OK", "TIMEDOUT", "CANCELED"}]
          /\ msg_error \in [Co -> BOOLEAN]
      BY Zenon DEF TypeOK
    <2>2. \/ UNCHANGED resume_code /\ msg_error' = [msg_error EXCEPT ![c] = TRUE]
          \/ UNCHANGED msg_error /\ resume_code' = [resume_code EXCEPT ![c] = "CANCELED"]
      BY Zenon DEF TimerCallback, CancelWaiter
    <2>3. QED
      BY <1>2, <2>1, <2>2 DEF Ready
  <1>6. WaitersReady'
    <2>1. state'[c] = "RUNNING" /\ \A d \in Co : d # c => state'[d] = state[d]
      BY <1>2 DEF TypeOK
    <2>2. current # NoCo => pc'[current] \notin Waits
      BY Zenon, <1>2 DEF Waits
    <2>3. QED
      BY SMTT(30), <1>2, <1>5, <2>1, <2>2, NoCoAssumption DEF WakeInv, WaitersReady
  <1>7. ConsumersWait' /\ ProducersWait' /\ NotifiedHasWork'
    BY Zenon, <1>2, <1>3, <1>4, <1>5 DEF ConsumersWait, ProducersWait, NotifiedHasWork
  <1>8. Closing'
    <2>1. \A d \in Co : \/ pc'[d] = pc[d]
                        \/ pc[d] \notin Loops /\ pc'[d] \notin Loops
      BY Zenon, <1>1, <1>2, NoCoAssumption DEF Loops
    <2>2. QED
      BY Zenon, <1>2, <1>3, <2>1 DEF WakeInv, Closing, Loops
  <1>9. FailureIsExplained'
    BY Zenon, <1>2, <1>5 DEF WakeInv, FailureIsExplained
  <1>10. QED
    BY Zenon, <1>6, <1>7, <1>8, <1>9 DEF WakeInv

\* The scheduler's own steps.
LEMMA SchedulingWakes ==
    ASSUME TypeOK, QueueInv, WakeInv, NEW c \in Co, Scheduling(c)
    PROVE  WakeInv'
  <1>1. UNCHANGED <<producer_queue, consumer_queue, closed, msg_error, count_, ret>>
    BY Zenon DEF Scheduling, chanVars, waitVars, dataVars, callVars
  <1>2. FailureIsExplained'
    BY Zenon, <1>1 DEF WakeInv, FailureIsExplained
  \* It suffices that the step starts outside the channel's waits and loops, and
  \* leaves the coroutines inside them alone.
  <1>3. ASSUME ~JustResumed("wait_pop"), ~JustResumed("wait_push"),
               \A d \in Co :
                    \/ pc'[d] = pc[d] /\ resume_code'[d] = resume_code[d]
                       /\ (state'[d] = state[d] \/ state'[d] # "WAITING")
                    \/ pc[d] \notin Waits \cup Loops /\ pc'[d] \notin Waits \cup Loops
        PROVE  WakeInv'
    <2>1. WaitersReady'
      BY Zenon, <1>1, <1>3 DEF WakeInv, WaitersReady, Ready
    <2>2. ConsumersWait' /\ ProducersWait' /\ NotifiedHasWork'
      BY Zenon, <1>1, <1>3, SchedulingEndsOutside
      DEF WakeInv, ConsumersWait, ProducersWait, NotifiedHasWork
    <2>3. Closing'
      BY Zenon, <1>1, <1>3 DEF WakeInv, Closing, Loops
    <2>4. QED
      BY Zenon, <1>2, <2>1, <2>2, <2>3 DEF WakeInv
  <1>4. ~JustResumed("wait_pop") /\ ~JustResumed("wait_push")
    BY Zenon, NoCoAssumption
    DEF Scheduling, Create, ReturnFromResume, End, YieldEx, AfterYieldEx, YieldExTimeout,
        CanCall, JustResumed
  <1>5. CASE Create(c)
    <2>1. \A d \in Co : d # current => pc'[d] = pc[d] /\ resume_code'[d] = resume_code[d]
                                       /\ (state'[d] = state[d] \/ state'[d] # "WAITING")
      BY Zenon, <1>5 DEF Create, TypeOK
    <2>2. current \in Co => pc[current] = "user" /\ pc'[current] = "in_resume"
      BY ZenonT(30), <1>5, NoCoAssumption DEF Create, CanCall, TypeOK
    <2>3. QED
      BY Zenon, <1>3, <1>4, <2>1, <2>2 DEF Waits, Loops
  <1>6. CASE ReturnFromResume(c) \/ AfterYieldEx(c)
    BY <1>3, <1>4, <1>6
    DEF ReturnFromResume, AfterYieldEx, JustResumed, TypeOK, Waits, Loops
  <1>7. CASE YieldEx(c, TRUE) \/ End(c)
    <2>1. pc[c] = "user"
      BY Zenon, <1>7 DEF YieldEx, End
    <2>2. \A d \in Co : d # c => pc'[d] = pc[d] /\ resume_code'[d] = resume_code[d]
                                  /\ state'[d] = state[d]
      <3>1. CASE YieldEx(c, TRUE)
        BY SMTT(30), <3>1 DEF YieldEx, yield, TypeOK
      <3>2. CASE End(c)
        BY SMTT(30), <3>2 DEF End, TypeOK
      <3>3. QED
        BY ZenonT(30), <1>7, <3>1, <3>2
    <2>3. pc'[c] \in {"user", "yield_ex"}
      BY SMTT(30), <1>7 DEF YieldEx, End, TypeOK
    <2>4. QED
      BY Zenon, <1>3, <1>4, <2>1, <2>2, <2>3 DEF Waits, Loops
  <1>8. CASE YieldExTimeout(c)
    <2>1. current' = c /\ pc' = pc /\ pc[c] = "yield_ex"
      BY SMTT(30), <1>8 DEF YieldExTimeout, resume, TypeOK
    <2>2. \A d \in Co : d # c => resume_code'[d] = resume_code[d] /\ state'[d] = state[d]
      BY <1>8 DEF YieldExTimeout, resume, TypeOK
    <2>3. QED
      BY ZenonT(30), <1>3, <1>4, <2>1, <2>2 DEF JustResumed, Waits, Loops
  <1>9. QED
    BY Zenon, <1>5, <1>6, <1>7, <1>8 DEF Scheduling

-----------------------------------------------------------------------------
\* The invariant of this module holds in every state of the channel.
LEMMA WakeInvariant == Spec => [](TypeOK /\ QueueInv /\ WakeInv)
  <1>1. Init => WakeInv
    BY DEF Init, CoInit, WakeInv, WaitersReady, ConsumersWait, ProducersWait,
           NotifiedHasWork, Closing, FailureIsExplained, JustResumed, Loops
  <1>2. TypeOK /\ QueueInv /\ WakeInv /\ [Next]_vars => WakeInv'
    <2> SUFFICES ASSUME TypeOK, QueueInv, WakeInv, [Next]_vars PROVE WakeInv'
      BY Zenon
    <2>1. CASE UNCHANGED vars
      BY Zenon, <2>1 DEF vars, coVars, chanVars, waitVars, dataVars, callVars, WakeInv,
                  WaitersReady, ConsumersWait, ProducersWait, NotifiedHasWork, Closing,
                  FailureIsExplained, JustResumed, Ready
    <2>2. CASE Next
      BY <2>2, SchedulingWakes, PushWakes, PopWakes, WakeWakes, CloseWakes, RemoveWakes
      DEF Next
    <2>3. QED
      BY Zenon, <2>1, <2>2
  <1>3. QED
    BY <1>1, <1>2, QueueInvariant, PTL DEF Spec

\* A consumer never sleeps on data, nor a producer on room, that nobody else has
\* been woken for.
THEOREM WakeupsAreNotLost == Spec => []NoLostWakeup
  <1>1. WakeInv => NoLostWakeup
    BY Zenon DEF WakeInv, ConsumersWait, ProducersWait, NoLostWakeup, is_empty, is_full
  <1>2. QED
    BY WakeInvariant, <1>1, PTL

\* close() has resumed every waiter by the time it returns.
THEOREM CloseIsComplete == Spec => []ClosedLeavesNoWaiter
  <1>1. WakeInv => ClosedLeavesNoWaiter
    BY DEF WakeInv, Closing, ClosedLeavesNoWaiter, Loops
  <1>2. QED
    BY WakeInvariant, <1>1, PTL

\* No call fails because the ring changed between the notification and the wake.
THEOREM FailuresAreExplained == Spec => []FailureIsExplained
  <1>1. WakeInv => FailureIsExplained
    BY Zenon DEF WakeInv
  <1>2. QED
    BY WakeInvariant, <1>1, PTL

-----------------------------------------------------------------------------
(***************************************************************************)
(* Calls are served in the order they were made.  The calls in a queue are *)
(* numbered in the order of the queue, and all above the calls that were   *)
(* served; a coroutine that was notified, and has not run yet, has left    *)
(* the queue and stands between the two.                                   *)
(***************************************************************************)
InTurn(done, q, f) ==
    /\ Increasing(done)
    /\ \A i, j \in 1 .. Len(q) : i < j => f[q[i]] < f[q[j]]
    /\ \A k \in 1 .. Len(done), i \in 1 .. Len(q) : done[k] < f[q[i]]

NextInTurn(n, done, q, f) ==
    /\ \A k \in 1 .. Len(done) : done[k] < n
    /\ \A i \in 1 .. Len(q) : n < f[q[i]]

CallsMade(f, n) ==
    /\ \A c \in Co : f[c] <= n
    /\ \A k \in 1 .. Len(pushed) : pushed[k] <= n
    /\ \A k \in 1 .. Len(served) : served[k] <= n

Turns(f) == InTurn(pushed, producer_queue, f) /\ InTurn(served, consumer_queue, f)

NotifiedInTurn ==
    /\ JustResumed("wait_push") /\ Ready(current)
          => NextInTurn(call[current], pushed, producer_queue, call)
    /\ JustResumed("wait_pop") /\ Ready(current)
          => NextInTurn(call[current], served, consumer_queue, call)

OrderInv == CallsMade(call, calls) /\ Turns(call) /\ NotifiedInTurn

\* The call whose turn it is is served.
LEMMA ServedNext ==
    ASSUME NEW done \in Seq(Numbers), NEW q \in Seq(Co), NEW f \in [Co -> Numbers],
           NEW n \in Numbers, InTurn(done, q, f), NextInTurn(n, done, q, f)
    PROVE  InTurn(Append(done, n), q, f)
  <1>1. /\ Len(Append(done, n)) = Len(done) + 1 /\ Len(done) \in Nat
        /\ Append(done, n)[Len(done) + 1] = n
        /\ \A k \in 1 .. Len(done) : Append(done, n)[k] = done[k]
    OBVIOUS
  <1>2. Increasing(Append(done, n))
    BY SMTT(30), <1>1 DEF InTurn, NextInTurn, Increasing
  <1>3. \A k \in 1 .. Len(Append(done, n)), i \in 1 .. Len(q) : Append(done, n)[k] < f[q[i]]
    BY <1>1 DEF InTurn, NextInTurn
  <1>4. QED
    BY Zenon, <1>2, <1>3 DEF InTurn

\* The first of a queue is the next in turn once it has left the queue.
LEMMA FirstIsNext ==
    ASSUME NEW done \in Seq(Numbers), NEW q \in Seq(Co), NEW f \in [Co -> Numbers],
           q # <<>>, InTurn(done, q, f)
    PROVE  InTurn(done, Tail(q), f) /\ NextInTurn(f[Head(q)], done, Tail(q), f)
  <1>1. /\ Len(q) \in Nat \ {0} /\ Head(q) = q[1] /\ Len(Tail(q)) = Len(q) - 1
        /\ \A i \in 1 .. Len(q) - 1 : Tail(q)[i] = q[i + 1]
    OBVIOUS
  <1>2. \A i, j \in 1 .. Len(Tail(q)) : i < j => f[Tail(q)[i]] < f[Tail(q)[j]]
    BY <1>1 DEF InTurn
  <1>3. \A k \in 1 .. Len(done), i \in 1 .. Len(Tail(q)) : done[k] < f[Tail(q)[i]]
    BY <1>1 DEF InTurn
  <1>4. NextInTurn(f[Head(q)], done, Tail(q), f)
    BY <1>1 DEF InTurn, NextInTurn
  <1>5. QED
    BY Zenon, <1>2, <1>3, <1>4 DEF InTurn

\* A call with a number above all others joins the end of a queue.
LEMMA JoinsTheEnd ==
    ASSUME NEW done \in Seq(Numbers), NEW q \in Seq(Co), NEW f \in [Co -> Numbers],
           NEW c \in Co, InTurn(done, q, f),
           \A k \in 1 .. Len(done) : done[k] < f[c],
           \A i \in 1 .. Len(q) : f[q[i]] < f[c]
    PROVE  InTurn(done, Append(q, c), f)
  <1>1. /\ Len(Append(q, c)) = Len(q) + 1 /\ Len(q) \in Nat
        /\ Append(q, c)[Len(q) + 1] = c
        /\ \A i \in 1 .. Len(q) : Append(q, c)[i] = q[i]
    OBVIOUS
  <1>2. \A i, j \in 1 .. Len(Append(q, c)) : i < j => f[Append(q, c)[i]] < f[Append(q, c)[j]]
    BY SMTT(30), <1>1 DEF InTurn
  <1>3. \A k \in 1 .. Len(done), i \in 1 .. Len(Append(q, c)) : done[k] < f[Append(q, c)[i]]
    BY <1>1 DEF InTurn
  <1>4. QED
    BY Zenon, <1>2, <1>3 DEF InTurn

\* A coroutine taken out of a queue does not disturb the turn of the others.
LEMMA LeavesTheQueue ==
    ASSUME NEW done, NEW q \in Seq(Co), NEW f, NEW c \in Co,
           NoRepeats(q), InTurn(done, q, f)
    PROVE  InTurn(done, Without(q, c), f)
  <1>1. SameOrder(Without(q, c), q) /\ Queued(Without(q, c)) = Queued(q) \ {c}
    BY Zenon, WithoutQueued
  <1>2. \A i \in 1 .. Len(Without(q, c)) :
            \E m \in 1 .. Len(q) : q[m] = Without(q, c)[i]
    BY Zenon, <1>1 DEF Queued
  <1> DEFINE w == Without(q, c)
  <1> HIDE DEF w
  <1>3. \A k \in 1 .. Len(done), i \in 1 .. Len(w) : done[k] < f[w[i]]
    BY Zenon, <1>2 DEF InTurn, w
  <1>4. ASSUME NEW i \in 1 .. Len(w), NEW j \in 1 .. Len(w), i < j
        PROVE  f[w[i]] < f[w[j]]
    <2>1. PICK a, b \in 1 .. Len(q) : a < b /\ q[a] = w[i] /\ q[b] = w[j]
      BY Zenon, <1>1, <1>4 DEF SameOrder, w
    <2>2. f[q[a]] < f[q[b]]
      BY Zenon, <2>1 DEF InTurn
    <2>3. QED
      BY Zenon, <2>1, <2>2
  <1>5. QED
    BY Zenon, <1>3, <1>4 DEF InTurn, w

\* A new call of a coroutine that is not queued.
LEMMA NotInTheQueue ==
    ASSUME NEW done, NEW q \in Seq(Co), NEW f \in [Co -> Numbers],
           NEW c \in Co, NEW n, c \notin Queued(q), InTurn(done, q, f)
    PROVE  InTurn(done, q, [f EXCEPT ![c] = n])
  <1>1. \A i \in 1 .. Len(q) : [f EXCEPT ![c] = n][q[i]] = f[q[i]]
    BY DEF Queued
  <1>2. QED
    BY Zenon, <1>1 DEF InTurn

-----------------------------------------------------------------------------
\* The coroutine that makes a call is in neither queue.
LEMMA CallerNotQueued ==
    ASSUME QueueInv, NEW c \in Co, current = c
    PROVE  c \notin Queued(producer_queue) /\ c \notin Queued(consumer_queue)
  BY Zenon, NoCoAssumption DEF QueueInv, QueuedAreWaiting, Switch, Chain

\* A call takes a number above all those in use.
LEMMA CalledInTurn ==
    ASSUME TypeOK, QueueInv, OrderInv, NEW c \in Co, Called(c)
    PROVE  /\ CallsMade(call', calls') /\ Turns(call')
           /\ call' \in [Co -> Numbers] /\ calls' \in Numbers /\ call'[c] = calls + 1
           /\ \A k \in 1 .. Len(pushed) : pushed[k] < calls + 1
           /\ \A k \in 1 .. Len(served) : served[k] < calls + 1
           /\ \A d \in Co : d # c => call'[d] < calls + 1
  <1>1. /\ current = c /\ calls' = calls + 1 /\ call' = [call EXCEPT ![c] = calls + 1]
        /\ call \in [Co -> Numbers] /\ calls \in Numbers /\ calls < MaxCalls
        /\ pushed \in Seq(Numbers) /\ served \in Seq(Numbers)
        /\ producer_queue \in Seq(Co) /\ consumer_queue \in Seq(Co)
    BY Zenon DEF Called, TypeOK
  <1>2. calls + 1 \in Numbers
    BY <1>1, MaxCallsAssumption DEF Numbers
  <1>3. call' \in [Co -> Numbers] /\ calls' \in Numbers /\ call'[c] = calls + 1
    BY Zenon, <1>1, <1>2
  <1>4. /\ \A d \in Co : d # c => call'[d] = call[d]
        /\ \A d \in Co : call[d] <= calls
        /\ \A k \in 1 .. Len(pushed) : pushed[k] <= calls
        /\ \A k \in 1 .. Len(served) : served[k] <= calls
    BY Zenon, <1>1 DEF OrderInv, CallsMade
  <1>5. \A n \in Numbers : n <= calls => n < calls + 1 /\ n <= calls + 1
    BY <1>1, MaxCallsAssumption DEF Numbers
  <1>6. /\ \A k \in 1 .. Len(pushed) : pushed[k] \in Numbers
        /\ \A k \in 1 .. Len(served) : served[k] \in Numbers
        /\ \A d \in Co : call[d] \in Numbers
    BY <1>1
  <1>7. /\ \A k \in 1 .. Len(pushed) : pushed[k] < calls + 1 /\ pushed[k] <= calls + 1
        /\ \A k \in 1 .. Len(served) : served[k] < calls + 1 /\ served[k] <= calls + 1
        /\ \A d \in Co : d # c => call'[d] < calls + 1 /\ call'[d] <= calls + 1
    BY Zenon, <1>4, <1>5, <1>6
  <1>8. calls + 1 <= calls + 1
    BY <1>1 DEF Numbers
  <1>9. CallsMade(call', calls')
    BY Zenon, <1>1, <1>3, <1>7, <1>8 DEF CallsMade
  <1>10. Turns(call')
    BY Zenon, <1>1, CallerNotQueued, NotInTheQueue DEF OrderInv, Turns
  <1>11. QED
    BY Zenon, <1>3, <1>7, <1>9, <1>10

\* A call that fails leaves the order alone.
LEMMA FailInTurn ==
    ASSUME TypeOK, NEW c \in Co, current = c, NEW e, Fail(c, e),
           CallsMade(call', calls'), Turns(call')
    PROVE  OrderInv'
  <1>1. /\ UNCHANGED <<current, producer_queue, consumer_queue, pushed, served>>
        /\ pc' = [pc EXCEPT ![c] = "user"]
    BY Zenon DEF Fail, histVars
  <1>2. pc'[c] = "user"
    BY <1>1 DEF TypeOK
  <1>3. NotifiedInTurn'
    BY Zenon, <1>1, <1>2 DEF NotifiedInTurn, JustResumed
  <1>4. CallsMade(call, calls)' /\ Turns(call)'
    BY Zenon, <1>1 DEF CallsMade, Turns
  <1>5. QED
    BY Zenon, <1>3, <1>4 DEF OrderInv

\* push_data() by the call whose turn it is, and the consumer it notifies.
LEMMA PushDataInTurn ==
    ASSUME TypeOK, NEW c \in Co, current = c, NEW n \in Numbers, push_data(c, n), QueueInv,
           CallsMade(call', calls'), Turns(call'), call' \in [Co -> Numbers], n <= calls',
           NextInTurn(n, pushed, producer_queue, call')
    PROVE  OrderInv'
  <1>1. CASE is_full
    BY Zenon, <1>1, FailInTurn DEF push_data
  <1>2. CASE ~is_full
    <2>1. /\ pushed' = Append(pushed, n) /\ notify_consumer(c)
          /\ UNCHANGED <<producer_queue, served>>
      BY Zenon, <1>2 DEF push_data
    <2>2. /\ pushed \in Seq(Numbers) /\ served \in Seq(Numbers)
          /\ producer_queue \in Seq(Co) /\ consumer_queue \in Seq(Co)
      BY Zenon DEF TypeOK
    <2>3. InTurn(pushed', producer_queue', call')
      BY Zenon, <2>1, <2>2, ServedNext DEF Turns
    <2>4. \A k \in 1 .. Len(pushed') : pushed'[k] <= calls'
      BY <2>1, <2>2 DEF CallsMade
    <2>5. CallsMade(call, calls)'
      BY Zenon, <2>1, <2>4 DEF CallsMade
    <2>6. CASE consumer_queue = <<>>
      <3>1. /\ pc' = [pc EXCEPT ![c] = "user"] /\ UNCHANGED <<current, consumer_queue>>
        BY ZenonT(30), <2>1, <2>6 DEF notify_consumer
      <3>2. pc'[c] = "user"
        BY <3>1 DEF TypeOK
      <3>3. NotifiedInTurn'
        BY Zenon, <3>1, <3>2 DEF NotifiedInTurn, JustResumed
      <3>4. Turns(call)'
        BY Zenon, <2>1, <2>3, <3>1 DEF Turns
      <3>5. QED
        BY Zenon, <2>5, <3>3, <3>4 DEF OrderInv
    <2>7. CASE consumer_queue # <<>>
      <3> DEFINE h == Head(consumer_queue)
      <3>1. h \in Co /\ pc[h] = "wait_pop" /\ h # c
        <4>1. h \in Queued(consumer_queue)
          BY Zenon, <2>2, <2>7, TailQueued DEF QueueInv, QueuedAreWaiting
        <4>2. QED
          BY Zenon, <4>1, CallerNotQueued DEF QueueInv, QueuedAreWaiting
      <3>2. /\ current' = h /\ consumer_queue' = Tail(consumer_queue)
            /\ pc' = [pc EXCEPT ![c] = "in_resume"]
        BY ZenonT(30), <2>1, <2>7 DEF notify_consumer, resume, TypeOK
      <3>3. /\ InTurn(served', consumer_queue', call')
            /\ NextInTurn(call'[h], served', consumer_queue', call')
        BY ZenonT(30), <2>1, <2>2, <2>7, <3>2, FirstIsNext DEF Turns
      <3> HIDE DEF h
      <3>4. pc'[h] = "wait_pop"
        BY <3>1, <3>2 DEF TypeOK
      <3>5. NotifiedInTurn'
        BY Zenon, <3>2, <3>3, <3>4 DEF NotifiedInTurn, JustResumed
      <3>6. Turns(call)'
        BY Zenon, <2>3, <3>3 DEF Turns
      <3>7. QED
        BY Zenon, <2>5, <3>5, <3>6 DEF OrderInv
    <2>8. QED
      BY Zenon, <2>6, <2>7
  <1>3. QED
    BY Zenon, <1>1, <1>2

\* pop_data() by the call whose turn it is, and the producer it notifies.
LEMMA PopDataInTurn ==
    ASSUME TypeOK, NEW c \in Co, current = c, NEW n \in Numbers, pop_data(c, n), QueueInv,
           CallsMade(call', calls'), Turns(call'), call' \in [Co -> Numbers], n <= calls',
           NextInTurn(n, served, consumer_queue, call')
    PROVE  OrderInv'
  <1>1. CASE is_empty
    BY Zenon, <1>1, FailInTurn DEF pop_data
  <1>2. CASE ~is_empty
    <2>1. /\ served' = Append(served, n) /\ notify_producer(c)
          /\ UNCHANGED <<consumer_queue, pushed>>
      BY Zenon, <1>2 DEF pop_data
    <2>2. /\ pushed \in Seq(Numbers) /\ served \in Seq(Numbers)
          /\ producer_queue \in Seq(Co) /\ consumer_queue \in Seq(Co)
      BY Zenon DEF TypeOK
    <2>3. InTurn(served', consumer_queue', call')
      BY Zenon, <2>1, <2>2, ServedNext DEF Turns
    <2>4. \A k \in 1 .. Len(served') : served'[k] <= calls'
      BY <2>1, <2>2 DEF CallsMade
    <2>5. CallsMade(call, calls)'
      BY ZenonT(30), <2>1, <2>4 DEF CallsMade
    <2>6. CASE producer_queue = <<>>
      <3>1. /\ pc' = [pc EXCEPT ![c] = "user"] /\ UNCHANGED <<current, producer_queue>>
        BY Zenon, <2>1, <2>6 DEF notify_producer
      <3>2. pc'[c] = "user"
        BY <3>1 DEF TypeOK
      <3>3. NotifiedInTurn'
        BY Zenon, <3>1, <3>2 DEF NotifiedInTurn, JustResumed
      <3>4. Turns(call)'
        BY Zenon, <2>1, <2>3, <3>1 DEF Turns
      <3>5. QED
        BY Zenon, <2>5, <3>3, <3>4 DEF OrderInv
    <2>7. CASE producer_queue # <<>>
      <3> DEFINE h == Head(producer_queue)
      <3>1. h \in Co /\ pc[h] = "wait_push" /\ h # c
        <4>1. h \in Queued(producer_queue)
          BY Zenon, <2>2, <2>7, TailQueued DEF QueueInv, QueuedAreWaiting
        <4>2. QED
          BY Zenon, <4>1, CallerNotQueued DEF QueueInv, QueuedAreWaiting
      <3>2. /\ current' = h /\ producer_queue' = Tail(producer_queue)
            /\ pc' = [pc EXCEPT ![c] = "in_resume"]
        BY ZenonT(30), <2>1, <2>7 DEF notify_producer, resume, TypeOK
      <3>3. /\ InTurn(pushed', producer_queue', call')
            /\ NextInTurn(call'[h], pushed', producer_queue', call')
        BY ZenonT(30), <2>1, <2>2, <2>7, <3>2, FirstIsNext DEF Turns
      <3> HIDE DEF h
      <3>4. pc'[h] = "wait_push"
        BY <3>1, <3>2 DEF TypeOK
      <3>5. NotifiedInTurn'
        BY Zenon, <3>2, <3>3, <3>4 DEF NotifiedInTurn, JustResumed
      <3>6. Turns(call)'
        BY Zenon, <2>3, <3>3 DEF Turns
      <3>7. QED
        BY Zenon, <2>5, <3>5, <3>6 DEF OrderInv
    <2>8. QED
      BY Zenon, <2>6, <2>7
  <1>3. QED
    BY Zenon, <1>1, <1>2

\* A step that leaves the queues alone and ends outside the waits.
LEMMA SameTurns ==
    ASSUME OrderInv, ~JustResumed("wait_push")', ~JustResumed("wait_pop")',
           UNCHANGED <<producer_queue, consumer_queue, pushed, served, call, calls>>
    PROVE  OrderInv'
  <1>1. CallsMade(call, calls)' /\ Turns(call)'
    BY Zenon DEF OrderInv, CallsMade, Turns
  <1>2. NotifiedInTurn'
    BY Zenon DEF NotifiedInTurn
  <1>3. QED
    BY Zenon, <1>1, <1>2 DEF OrderInv

\* A call that has to wait joins the end of its queue.
LEMMA SuspendInTurn ==
    ASSUME TypeOK, QueueInv, OrderInv, NEW c \in Co, Called(c),
           NEW timed \in BOOLEAN, NEW w \in Waits, Suspend(c, timed, w),
           IF w = "wait_push"
           THEN producer_queue' = Append(producer_queue, c) /\ UNCHANGED consumer_queue
           ELSE consumer_queue' = Append(consumer_queue, c) /\ UNCHANGED producer_queue
    PROVE  OrderInv'
  <1>1. /\ current = c /\ current' = origin[c] /\ pc' = [pc EXCEPT ![c] = w]
        /\ UNCHANGED <<pushed, served>>
    BY ZenonT(30) DEF Called, Suspend, yield, histVars
  <1>2. \A d \in Co : d # c => pc'[d] = pc[d]
    BY <1>1 DEF TypeOK
  <1>3. ~JustResumed("wait_push")' /\ ~JustResumed("wait_pop")'
    BY Zenon, <1>1, <1>2, BackInResume
  <1>4. NotifiedInTurn'
    BY Zenon, <1>3 DEF NotifiedInTurn
  <1>5. /\ CallsMade(call', calls') /\ Turns(call')
        /\ call' \in [Co -> Numbers] /\ call'[c] = calls + 1
        /\ \A k \in 1 .. Len(pushed) : pushed[k] < call'[c]
        /\ \A k \in 1 .. Len(served) : served[k] < call'[c]
        /\ \A d \in Co : d # c => call'[d] < call'[c]
    BY Zenon, CalledInTurn
  <1>6. CallsMade(call, calls)'
    BY Zenon, <1>1, <1>5 DEF CallsMade
  <1>7. /\ pushed \in Seq(Numbers) /\ served \in Seq(Numbers)
        /\ producer_queue \in Seq(Co) /\ consumer_queue \in Seq(Co)
    BY Zenon DEF TypeOK
  <1>8. /\ \A i \in 1 .. Len(producer_queue) : producer_queue[i] \in Co /\ producer_queue[i] # c
        /\ \A i \in 1 .. Len(consumer_queue) : consumer_queue[i] \in Co /\ consumer_queue[i] # c
    <2>1. c \notin Queued(producer_queue) /\ c \notin Queued(consumer_queue)
      BY Zenon, <1>1, CallerNotQueued
    <2>2. /\ \A i \in 1 .. Len(producer_queue) : producer_queue[i] \in Co
          /\ \A i \in 1 .. Len(consumer_queue) : consumer_queue[i] \in Co
      BY <1>7
    <2>3. QED
      BY Zenon, <2>1, <2>2 DEF Queued
  <1>9. /\ InTurn(pushed, Append(producer_queue, c), call')
        /\ InTurn(served, Append(consumer_queue, c), call')
    BY Zenon, <1>5, <1>7, <1>8, JoinsTheEnd DEF Turns
  <1>10. Turns(call)'
    BY Zenon, <1>1, <1>5, <1>9 DEF Turns
  <1>11. QED
    BY Zenon, <1>4, <1>6, <1>10 DEF OrderInv

\* push() and pop() up to their first switch: a call that does not wait finds
\* nobody waiting before it.
LEMMA CallInTurn ==
    ASSUME TypeOK, QueueInv, OrderInv, NEW c \in Co, NEW timed \in BOOLEAN,
           Push(c, timed) \/ Pop(c, timed)
    PROVE  OrderInv'
  <1>1. Called(c) /\ current = c
    BY Zenon DEF Push, Pop, Called
  <1>2. /\ CallsMade(call', calls') /\ Turns(call')
        /\ call' \in [Co -> Numbers] /\ calls + 1 \in Numbers /\ calls' = calls + 1
        /\ \A k \in 1 .. Len(pushed) : pushed[k] < calls + 1
        /\ \A k \in 1 .. Len(served) : served[k] < calls + 1
    BY Zenon, <1>1, CalledInTurn DEF Called
  <1>3. calls + 1 <= calls'
    BY <1>2 DEF Numbers
  <1>4. \A e : Fail(c, e) => OrderInv'
    BY Zenon, <1>1, <1>2, FailInTurn
  <1>5. /\ producer_queue = <<>> => NextInTurn(calls + 1, pushed, producer_queue, call')
        /\ consumer_queue = <<>> => NextInTurn(calls + 1, served, consumer_queue, call')
    BY <1>2 DEF NextInTurn
  <1>6. CASE Push(c, timed)
    <2>1. CASE producer_queue' = Append(producer_queue, c)
               /\ Suspend(c, timed, "wait_push") /\ UNCHANGED consumer_queue
      BY Zenon, <1>1, <2>1, SuspendInTurn DEF Waits
    <2>2. CASE producer_queue = <<>> /\ push_data(c, calls + 1)
      BY Zenon, <1>1, <1>2, <1>3, <1>5, <2>2, PushDataInTurn
    <2>3. QED
      BY Zenon, <1>4, <1>6, <2>1, <2>2 DEF Push
  <1>7. CASE Pop(c, timed)
    <2>1. CASE consumer_queue' = Append(consumer_queue, c)
               /\ Suspend(c, timed, "wait_pop") /\ UNCHANGED producer_queue
      BY <1>1, <2>1, SuspendInTurn DEF Waits
    <2>2. CASE consumer_queue = <<>> /\ pop_data(c, calls + 1)
      BY Zenon, <1>1, <1>2, <1>3, <1>5, <2>2, PopDataInTurn
    <2>3. QED
      BY Zenon, <1>4, <1>7, <2>1, <2>2 DEF Pop
  <1>8. QED
    BY Zenon, <1>6, <1>7

\* push() and pop() after the wait.
LEMMA WakeInTurn ==
    ASSUME TypeOK, QueueInv, OrderInv, NEW c \in Co, PushWake(c) \/ PopWake(c)
    PROVE  OrderInv'
  <1>1. current = c /\ current # NoCo /\ UNCHANGED <<call, calls>>
    BY Zenon, NoCoAssumption DEF PushWake, PopWake, Resumed
  <1>2. /\ CallsMade(call', calls') /\ Turns(call') /\ call' \in [Co -> Numbers]
        /\ call[c] \in Numbers /\ call[c] <= calls'
    <2>1. call \in [Co -> Numbers]
      BY Zenon DEF TypeOK
    <2>2. CallsMade(call', calls') /\ Turns(call')
      BY Zenon, <1>1 DEF OrderInv
    <2>3. QED
      BY Zenon, <1>1, <2>1, <2>2 DEF CallsMade
  <1>3. \A e : Fail(c, e) => OrderInv'
    BY Zenon, <1>1, <1>2, FailInTurn
  <1>4. CASE PushWake(c) /\ Ready(c) /\ push_data(c, call[c])
    <2>1. NextInTurn(call[c], pushed, producer_queue, call')
      BY Zenon, <1>1, <1>4 DEF OrderInv, NotifiedInTurn, JustResumed, PushWake, Resumed
    <2>2. QED
      BY Zenon, <1>1, <1>2, <1>4, <2>1, PushDataInTurn
  <1>5. CASE PopWake(c) /\ Ready(c) /\ pop_data(c, call[c])
    <2>1. NextInTurn(call[c], served, consumer_queue, call')
      BY Zenon, <1>1, <1>5 DEF OrderInv, NotifiedInTurn, JustResumed, PopWake, Resumed
    <2>2. QED
      BY Zenon, <1>1, <1>2, <1>5, <2>1, PopDataInTurn
  <1>6. QED
    BY Zenon, <1>3, <1>4, <1>5 DEF PushWake, PopWake, Ready

\* close(): each loop resumes the first of its queue.
LEMMA CloseInTurn ==
    ASSUME TypeOK, QueueInv, OrderInv, NEW c \in Co,
           Close(c) \/ CloseProducers(c) \/ CloseConsumers(c)
    PROVE  OrderInv'
  <1>1. current = c /\ UNCHANGED <<pushed, served, call, calls>>
    BY Zenon DEF Close, CloseProducers, CloseConsumers, callVars, histVars
  <1>2. CASE /\ pc'[c] \in {"user"} \cup Loops
             /\ UNCHANGED <<current, producer_queue, consumer_queue>>
    BY <1>1, <1>2, SameTurns DEF JustResumed, Loops
  <1>3. CASE /\ CloseProducers(c) /\ producer_queue # <<>>
    <2>1. /\ current' = Head(producer_queue) /\ producer_queue' = Tail(producer_queue)
          /\ UNCHANGED <<consumer_queue, pc>>
      BY ZenonT(30), <1>3 DEF CloseProducers, resume, TypeOK
    <2>2. pc[Head(producer_queue)] = "wait_push"
      BY ZenonT(30), <1>3, TailQueued DEF TypeOK, QueueInv, QueuedAreWaiting
    <2>3. /\ InTurn(pushed, Tail(producer_queue), call)
          /\ NextInTurn(call[Head(producer_queue)], pushed, Tail(producer_queue), call)
      BY ZenonT(30), <1>3, FirstIsNext DEF TypeOK, OrderInv, Turns
    <2>4. Turns(call)' /\ CallsMade(call, calls)'
      BY Zenon, <1>1, <2>1, <2>3 DEF OrderInv, Turns, CallsMade
    <2>5. NotifiedInTurn'
      BY ZenonT(30), <1>1, <2>1, <2>2, <2>3 DEF NotifiedInTurn, JustResumed
    <2>6. QED
      BY Zenon, <2>4, <2>5 DEF OrderInv
  <1>4. CASE /\ CloseConsumers(c) /\ consumer_queue # <<>>
    <2>1. /\ current' = Head(consumer_queue) /\ consumer_queue' = Tail(consumer_queue)
          /\ UNCHANGED <<producer_queue, pc>>
      BY ZenonT(30), <1>4 DEF CloseConsumers, resume, TypeOK
    <2>2. pc[Head(consumer_queue)] = "wait_pop"
      BY ZenonT(30), <1>4, TailQueued DEF TypeOK, QueueInv, QueuedAreWaiting
    <2>3. /\ InTurn(served, Tail(consumer_queue), call)
          /\ NextInTurn(call[Head(consumer_queue)], served, Tail(consumer_queue), call)
      BY ZenonT(30), <1>4, FirstIsNext DEF TypeOK, OrderInv, Turns
    <2>4. Turns(call)' /\ CallsMade(call, calls)'
      BY ZenonT(30), <1>1, <2>1, <2>3 DEF OrderInv, Turns, CallsMade
    <2>5. NotifiedInTurn'
      BY <1>1, <2>1, <2>2, <2>3 DEF NotifiedInTurn, JustResumed
    <2>6. QED
      BY Zenon, <2>4, <2>5 DEF OrderInv
  <1>5. QED
    <2>1. \A l : pc' = [pc EXCEPT ![c] = l] => pc'[c] = l
      BY Zenon DEF TypeOK
    <2>2. QED
      BY ZenonT(30), <1>2, <1>3, <1>4, <2>1 DEF Close, CloseProducers, CloseConsumers, Loops

\* The timer callback and the cancel function: the waiter they take out of its
\* queue, wherever it stands there, is not served.
LEMMA RemoveInTurn ==
    ASSUME TypeOK, QueueInv, OrderInv, NEW c \in Co, TimerCallback(c) \/ CancelWaiter(c)
    PROVE  OrderInv'
  <1>1. RemoveWaiter(c) /\ resume(c) /\ UNCHANGED <<call, calls, pushed, served>>
    BY Zenon DEF TimerCallback, CancelWaiter, callVars, histVars
  <1>2. current' = c
    BY Zenon, <1>1 DEF resume, TypeOK
  <1>3. ~Ready(c)'
    <2>1. resume_code \in [Co -> {"OK", "TIMEDOUT", "CANCELED"}]
          /\ msg_error \in [Co -> BOOLEAN]
      BY Zenon DEF TypeOK
    <2>2. \/ msg_error' = [msg_error EXCEPT ![c] = TRUE]
          \/ resume_code' = [resume_code EXCEPT ![c] = "CANCELED"]
      BY ZenonT(30) DEF TimerCallback, CancelWaiter
    <2>3. QED
      BY <2>1, <2>2 DEF Ready
  <1>4. NotifiedInTurn'
    BY <1>2, <1>3 DEF NotifiedInTurn, Ready
  <1>5. /\ InTurn(pushed, Without(producer_queue, c), call)
        /\ InTurn(served, Without(consumer_queue, c), call)
    BY ZenonT(30), LeavesTheQueue DEF TypeOK, QueueInv, QueuedAreWaiting, OrderInv, Turns
  <1>6. Turns(call)'
    BY Zenon, <1>1, <1>5 DEF RemoveWaiter, OrderInv, Turns
  <1>7. CallsMade(call, calls)'
    BY Zenon, <1>1 DEF OrderInv, CallsMade
  <1>8. QED
    BY Zenon, <1>4, <1>6, <1>7 DEF OrderInv

\* The scheduler's own steps.
LEMMA SchedulingInTurn ==
    ASSUME TypeOK, QueueInv, OrderInv, NEW c \in Co, Scheduling(c)
    PROVE  OrderInv'
  <1>1. UNCHANGED <<producer_queue, consumer_queue, pushed, served, call, calls>>
    BY Zenon DEF Scheduling, chanVars, waitVars, callVars, histVars
  <1>2. ~JustResumed("wait_push")' /\ ~JustResumed("wait_pop")'
    BY ZenonT(30), SchedulingEndsOutside
  <1>3. QED
    BY Zenon, <1>1, <1>2, SameTurns

\* The calls in a queue and the calls served stand in the order they were made.
LEMMA OrderInvariant == Spec => [](TypeOK /\ QueueInv /\ OrderInv)
  <1>1. Init => OrderInv
    BY DEF Init, CoInit, OrderInv, CallsMade, Turns, InTurn, Increasing, NotifiedInTurn,
           JustResumed
  <1>2. TypeOK /\ QueueInv /\ OrderInv /\ [Next]_vars => OrderInv'
    <2> SUFFICES ASSUME TypeOK, QueueInv, OrderInv, [Next]_vars PROVE OrderInv'
      BY Zenon
    <2>1. CASE UNCHANGED vars
      BY Zenon, <2>1
      DEF vars, coVars, chanVars, waitVars, dataVars, callVars, histVars, OrderInv,
          CallsMade, Turns, NotifiedInTurn, JustResumed, Ready
    <2>2. CASE Next
      BY ZenonT(30), <2>2, SchedulingInTurn, CallInTurn, WakeInTurn, CloseInTurn, RemoveInTurn
      DEF Next
    <2>3. QED
      BY Zenon, <2>1, <2>2
  <1>3. QED
    BY <1>1, <1>2, QueueInvariant, PTL DEF Spec

\* push() and pop() succeed in the order they were called, on each side: neither
\* a later call nor a waiter further back overtakes a coroutine that waits.
THEOREM CallsServedInOrder == Spec => []ServedInOrder
  <1>1. OrderInv => ServedInOrder
    BY Zenon DEF OrderInv, Turns, InTurn, ServedInOrder
  <1>2. QED
    BY OrderInvariant, <1>1, PTL
=============================================================================
