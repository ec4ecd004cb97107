--------------------------------- MODULE Fdir ---------------------------------
(***************************************************************************)
(* Failure detection, isolation and recovery: the watchdog and the state   *)
(* machine composed with the tasks that feed them, under the fixed         *)
(* priorities of include/system_defs.h.  A task takes a step only when no  *)
(* task of higher priority is ready; tasks of one priority are time-sliced *)
(* and so interleave at every step.                                        *)
(*                                                                         *)
(* The contents of scrub_area are abstracted to the number of its bits     *)
(* that differ from golden_copy; the UART to keys pressed at any moment.   *)
(*                                                                         *)
(* HeartbeatPeriod, ScrubPeriod, InjectPeriod   the vTaskDelay arguments   *)
(* SeuThreshold       SEU_THRESHOLD_FOR_DEGRADED                           *)
(* CommandQueueLength the length given to xQueueCreate in command_init     *)
(* ScrubBits          how many bits scrub_area has                         *)
(* Keys               the state-changing keys the operator may press       *)
(* StallableTasks     monitored tasks that may hang, and come back         *)
(* MaxKeys            bound: keys pressed in a behaviour                   *)
(* MaxBusy            bound: ticks the processor is busy without a pause   *)
(***************************************************************************)
EXTENDS StateMachine, Watchdog

CONSTANTS HeartbeatPeriod, ScrubPeriod, InjectPeriod, SeuThreshold,
          CommandQueueLength, ScrubBits, Keys, StallableTasks, MaxKeys, MaxBusy

OperatorKeys == {"n", "d", "a", "f", "x", "r"}
PeriodicTasks == {"Heartbeat", "MemScrub", "FaultInject"}
ScrubbingTasks == {"MemScrub", "CommandHandler"}

ASSUME FdirAssumption ==
    /\ {HeartbeatPeriod, ScrubPeriod, InjectPeriod} \subseteq Nat \ {0}
    /\ SeuThreshold \in Nat \ {0}
    /\ CommandQueueLength \in Nat \ {0}
    /\ ScrubBits \in Nat
    /\ Keys \subseteq OperatorKeys
    /\ StallableTasks \subseteq PeriodicTasks
    /\ MaxKeys \in Nat
    /\ MaxBusy \in Nat
    /\ MaxBusy < WatchdogTimeout
    /\ StateQueueLength >= 2

VARIABLES
    delay,          \* ticks until vTaskDelay returns, by periodic task
    heartbeatPc,    \* vTaskHeartbeat: what it does next
    scrubPc,        \* vTaskMemoryScrub: what it does next
    injectPc,       \* vTaskFaultInject: what it does next
    handlerPc,      \* vTaskCommandHandler: where it is, or the key in hand
    xCommandQueue,  \* contents of the command queue
    seu_counter,    \* SEUs since the last escalation
    counted,        \* seu_counter as a task has read it, by scrubbing task
    flippedBits,    \* bits of scrub_area that differ from golden_copy
    stalled,        \* monitored tasks that hang
    keysPressed,    \* environment: keys so far
    busy,           \* ticks since the processor was last idle
    kicked,         \* history: bits kicked since the watchdog's cycle began
    operatorOn      \* history: "x" switched injection on in the present mode

periodicVars == <<delay, heartbeatPc, scrubPc, injectPc>>
seuVars == <<seu_counter, counted, flippedBits>>
envVars == <<stalled, keysPressed, busy>>
vars == <<smVars, wdVars, periodicVars, handlerPc, xCommandQueue, seuVars,
          envVars, kicked, operatorOn>>

(* Inside memory_scrub_record_seu, past its look at the state. *)
Counting == {"count", "store", "post", "reset"}

TypeOK ==
    /\ SmTypeOK
    /\ WdTypeOK
    /\ delay \in [PeriodicTasks -> Nat]
    /\ heartbeatPc \in {"kick", "delay"}
    /\ scrubPc \in {"scrub", "delay"} \cup Counting
    /\ injectPc \in {"delay", "check", "kick", "enabled", "inject"}
    /\ handlerPc \in {"receive", "inject", "switchOn", "switchOff", "scrub"}
                     \cup Counting \cup OperatorKeys
    /\ xCommandQueue \in Seq(Keys)
    /\ seu_counter \in Nat
    /\ counted \in [ScrubbingTasks -> Nat]
    /\ flippedBits \in 0 .. ScrubBits
    /\ stalled \in SUBSET StallableTasks
    /\ keysPressed \in 0 .. MaxKeys
    /\ busy \in 0 .. MaxBusy
    /\ kicked \in SUBSET WatchdogBits
    /\ operatorOn \in BOOLEAN

(* Every task is ready.  FaultInject is the only periodic one that begins  *)
(* with a delay: it starts when the task first gets the processor.         *)
Init ==
    /\ SmInit
    /\ WdInit
    /\ delay = [t \in PeriodicTasks |-> 0]
    /\ heartbeatPc = "kick"
    /\ scrubPc = "scrub"
    /\ injectPc = "delay"
    /\ handlerPc = "receive"
    /\ xCommandQueue = <<>>
    /\ seu_counter = 0
    /\ counted = [t \in ScrubbingTasks |-> 0]
    /\ flippedBits = 0
    /\ stalled = {}
    /\ keysPressed = 0
    /\ busy = 0
    /\ kicked = {}
    /\ operatorOn = FALSE

-----------------------------------------------------------------------------
(* The scheduler.  CommandInput is ready only when there is a key, which   *)
(* is the environment's choice, so it never keeps another task waiting.    *)
Tasks == {"Watchdog", "StateMachine", "CommandHandler"} \cup PeriodicTasks

PriorityOfLowStateMachine(t) == IF t = "Watchdog" THEN 4
                                ELSE IF t \in {"MemScrub", "CommandHandler"} THEN 2 ELSE 1
PriorityOfLowHandler(t) == IF t = "Watchdog" THEN 4
                           ELSE IF t = "StateMachine" THEN 3
                           ELSE IF t = "MemScrub" THEN 2 ELSE 1
Priority(t) == CASE t = "Watchdog" -> 4
                 [] t = "StateMachine" -> 3
                 [] t \in {"MemScrub", "CommandHandler"} -> 2
                 [] OTHER -> 1

Ready(t) ==
    CASE t = "Watchdog" -> wdPc # "blocked"
      [] t = "StateMachine" -> smPc # "receive" \/ xStateRequestQueue # <<>>
      [] t = "CommandHandler" -> handlerPc # "receive" \/ xCommandQueue # <<>>
      [] OTHER -> t \in PeriodicTasks /\ delay[t] = 0 /\ t \notin stalled

(* No ready task has a priority above p. *)
HighestReady(p) == \A t \in Tasks : Ready(t) => Priority(t) <= p
CanRun(t) == Ready(t) /\ HighestReady(Priority(t))

Idle == \A t \in Tasks : ~Ready(t)

-----------------------------------------------------------------------------
(* Watchdog and state machine. *)
WatchdogStep ==
    /\ CanRun("Watchdog")
    /\ \/ /\ WatchdogStart \/ LeaveLoop \/ NotifyWait \/ NotifyReturn
          /\ UNCHANGED <<xStateRequestQueue, kicked>>
       \/ /\ BeginCycle(gSystemState)
          /\ kicked' = {}
          /\ UNCHANGED xStateRequestQueue
       \/ /\ EvaluateCycle
          /\ IF EvaluateRequest = {}
             THEN UNCHANGED xStateRequestQueue
             ELSE \E r \in EvaluateRequest :
                     RequestChange(r.requested_state, r.reason_code)
          /\ UNCHANGED kicked
    /\ UNCHANGED <<gSystemState, smPc, inHand, fault_inject_enabled, imageOk,
                   periodicVars, handlerPc, xCommandQueue, seuVars, envVars, operatorOn>>

StateMachineStep ==
    /\ CanRun("StateMachine")
    /\ SmStep
    /\ operatorOn' = (operatorOn /\ gSystemState' = gSystemState)
    /\ UNCHANGED <<wdVars, periodicVars, handlerPc, xCommandQueue, seuVars, envVars, kicked>>

-----------------------------------------------------------------------------
(* What the other tasks call. *)
Kick(bit) == NotifyBit(bit) /\ kicked' = kicked \cup {bit}
NoKick    == UNCHANGED <<wdVars, kicked>>

Post(state, reason) ==
    /\ RequestChange(state, reason)
    /\ UNCHANGED <<gSystemState, smPc, inHand, fault_inject_enabled, imageOk>>

(* vTaskDelay: one delay for each loop, measured from the call. *)
Delay(t, ticks) == delay' = [delay EXCEPT ![t] = ticks]

(* inject_random_fault: one bit is inverted, and so may be put right again. *)
InjectRandomFault ==
    flippedBits' \in {flippedBits - 1, flippedBits + 1} \cap (0 .. ScrubBits)

(* memory_scrub_record_seu comes after at least one bit has been put right. *)
(* It looks at the state, and then counts: seu_counter is read, written,    *)
(* and reset only after the request has been posted.  The task that counts  *)
(* may be interrupted by the other one at every point.                      *)
CorrectByte(pc) ==
    /\ \E n \in 0 .. ScrubBits : n < flippedBits /\ flippedBits' = n
    /\ pc = (IF AllowsSeuEscalation(gSystemState) THEN "count" ELSE "scrub")

CountRead(t, pc, next) ==
    /\ pc = "count"
    /\ next = "store"
    /\ counted' = [counted EXCEPT ![t] = seu_counter]
    /\ UNCHANGED <<smVars, seu_counter>>

CountStore(t, pc, next) ==
    /\ pc = "store"
    /\ next = IF counted[t] + 1 >= SeuThreshold THEN "post" ELSE "scrub"
    /\ seu_counter' = counted[t] + 1
    /\ counted' = [counted EXCEPT ![t] = 0]
    /\ UNCHANGED smVars

CountPost(pc, next) ==
    /\ pc = "post"
    /\ next = "reset"
    /\ Post(DEGRADED, SeuThresholdHit)
    /\ UNCHANGED <<seu_counter, counted>>

CountReset(pc, next) ==
    /\ pc = "reset"
    /\ next = "scrub"
    /\ seu_counter' = 0
    /\ UNCHANGED <<smVars, counted>>

CountSeu(t, pc, next) ==
    /\ CountRead(t, pc, next) \/ CountStore(t, pc, next)
       \/ CountPost(pc, next) \/ CountReset(pc, next)
    /\ UNCHANGED flippedBits

-----------------------------------------------------------------------------
(* The monitored tasks.  Time may pass between a kick and the call of      *)
(* vTaskDelay, which counts from the call.                                 *)
HeartbeatKicks ==
    /\ heartbeatPc = "kick"
    /\ Kick("Heartbeat")
    /\ heartbeatPc' = "delay"
    /\ UNCHANGED delay

HeartbeatDelays ==
    /\ heartbeatPc = "delay"
    /\ Delay("Heartbeat", HeartbeatPeriod)
    /\ heartbeatPc' = "kick"
    /\ NoKick

Heartbeat ==
    /\ CanRun("Heartbeat")
    /\ HeartbeatKicks \/ HeartbeatDelays
    /\ UNCHANGED <<smVars, scrubPc, injectPc, handlerPc, xCommandQueue, seuVars,
                   envVars, operatorOn>>

(* A pass of MemScrub puts right any of the wrong bits: which ones it sees *)
(* depends on the fault queue and on the background scrub.                 *)
ScrubCorrects ==
    /\ scrubPc = "scrub"
    /\ CorrectByte(scrubPc')
    /\ NoKick
    /\ UNCHANGED <<smVars, seu_counter, counted, delay>>

ScrubCounts ==
    /\ CountSeu("MemScrub", scrubPc, scrubPc')
    /\ NoKick
    /\ UNCHANGED delay

ScrubEnds ==
    /\ scrubPc = "scrub"
    /\ Kick("MemScrub")
    /\ scrubPc' = "delay"
    /\ UNCHANGED <<smVars, seuVars, delay>>

ScrubDelays ==
    /\ scrubPc = "delay"
    /\ Delay("MemScrub", ScrubPeriod)
    /\ scrubPc' = "scrub"
    /\ NoKick
    /\ UNCHANGED <<smVars, seuVars>>

MemScrub ==
    /\ CanRun("MemScrub")
    /\ ScrubCorrects \/ ScrubCounts \/ ScrubEnds \/ ScrubDelays
    /\ UNCHANGED <<heartbeatPc, injectPc, handlerPc, xCommandQueue, envVars, operatorOn>>

InjectDelays ==
    /\ injectPc = "delay"
    /\ Delay("FaultInject", InjectPeriod)
    /\ injectPc' = "check"
    /\ NoKick
    /\ UNCHANGED flippedBits

(* The kick is inside the branch that only NOMINAL enters. *)
InjectChecksState ==
    /\ injectPc = "check"
    /\ injectPc' = IF AllowsAutoFaultInject(gSystemState) THEN "kick" ELSE "delay"
    /\ NoKick
    /\ UNCHANGED <<flippedBits, delay>>

InjectKicks ==
    /\ injectPc = "kick"
    /\ Kick("FaultInject")
    /\ injectPc' = "enabled"
    /\ UNCHANGED <<flippedBits, delay>>

InjectChecksFlag ==
    /\ injectPc = "enabled"
    /\ injectPc' = IF fault_inject_enabled THEN "inject" ELSE "delay"
    /\ NoKick
    /\ UNCHANGED <<flippedBits, delay>>

InjectFault ==
    /\ injectPc = "inject"
    /\ InjectRandomFault
    /\ injectPc' = "delay"
    /\ NoKick
    /\ UNCHANGED delay

FaultInject ==
    /\ CanRun("FaultInject")
    /\ InjectDelays \/ InjectChecksState \/ InjectKicks \/ InjectChecksFlag \/ InjectFault
    /\ UNCHANGED <<smVars, heartbeatPc, scrubPc, handlerPc, xCommandQueue, seu_counter,
                   counted, envVars, operatorOn>>

-----------------------------------------------------------------------------
(* Commands.  A key the handler has no room for is dropped.                *)
CommandInput ==
    /\ HighestReady(1)
    /\ keysPressed < MaxKeys
    /\ keysPressed' = keysPressed + 1
    /\ \E key \in Keys :
          xCommandQueue' = IF Len(xCommandQueue) < CommandQueueLength
                           THEN Append(xCommandQueue, key) ELSE xCommandQueue
    /\ UNCHANGED <<smVars, wdVars, periodicVars, handlerPc, seuVars, stalled, busy,
                   kicked, operatorOn>>

ReceiveCommand ==
    /\ handlerPc = "receive"
    /\ xCommandQueue # <<>>
    /\ handlerPc' = Head(xCommandQueue)
    /\ xCommandQueue' = Tail(xCommandQueue)
    /\ UNCHANGED <<smVars, seuVars, operatorOn>>

HandleStateCommand ==
    /\ handlerPc \in {"n", "d", "a"}
    /\ Post(CASE handlerPc = "n" -> NOMINAL
              [] handlerPc = "d" -> DEGRADED
              [] OTHER -> SAFE, OperatorCommand)
    /\ handlerPc' = "receive"
    /\ UNCHANGED <<xCommandQueue, seuVars, operatorOn>>

HandleInjectCommand ==
    /\ handlerPc = "f"
    /\ handlerPc' = IF AllowsManualFaultInject(gSystemState) THEN "inject" ELSE "receive"
    /\ UNCHANGED <<smVars, xCommandQueue, seuVars, operatorOn>>

ManualInject ==
    /\ handlerPc = "inject"
    /\ InjectRandomFault
    /\ handlerPc' = "receive"
    /\ UNCHANGED <<smVars, xCommandQueue, seu_counter, counted, operatorOn>>

(* fault_inject_set_enabled(!fault_inject_is_enabled()): a read and a write. *)
HandleToggleCommand ==
    /\ handlerPc = "x"
    /\ handlerPc' = IF fault_inject_enabled THEN "switchOff" ELSE "switchOn"
    /\ UNCHANGED <<smVars, xCommandQueue, seuVars, operatorOn>>

WriteToggle ==
    /\ handlerPc \in {"switchOn", "switchOff"}
    /\ fault_inject_enabled' = (handlerPc = "switchOn")
    /\ operatorOn' = (handlerPc = "switchOn")
    /\ handlerPc' = "receive"
    /\ UNCHANGED <<gSystemState, xStateRequestQueue, smPc, inHand, imageOk,
                   xCommandQueue, seuVars>>

HandleScrubCommand ==
    /\ handlerPc = "r"
    /\ handlerPc' = "scrub"
    /\ UNCHANGED <<smVars, xCommandQueue, seuVars, operatorOn>>

ForcedScrubCorrects ==
    /\ handlerPc = "scrub"
    /\ CorrectByte(handlerPc')
    /\ UNCHANGED <<smVars, xCommandQueue, seu_counter, counted, operatorOn>>

ForcedScrubCounts ==
    /\ CountSeu("CommandHandler", handlerPc, handlerPc')
    /\ UNCHANGED <<xCommandQueue, operatorOn>>

ForcedScrubEnds ==
    /\ handlerPc = "scrub"
    /\ handlerPc' = "receive"
    /\ UNCHANGED <<smVars, xCommandQueue, seuVars, operatorOn>>

CommandHandler ==
    /\ CanRun("CommandHandler")
    /\ \/ ReceiveCommand \/ HandleStateCommand \/ HandleInjectCommand \/ ManualInject
       \/ HandleToggleCommand \/ WriteToggle
       \/ HandleScrubCommand \/ ForcedScrubCorrects \/ ForcedScrubCounts \/ ForcedScrubEnds
    /\ NoKick
    /\ UNCHANGED <<periodicVars, envVars>>

-----------------------------------------------------------------------------
(* The tick interrupt.  The environment lets a monitored task hang, or     *)
(* come back, for whole ticks at a time.                                   *)
Tick ==
    /\ Idle \/ busy < MaxBusy
    /\ busy' = IF Idle THEN 0 ELSE busy + 1
    /\ stalled' \in SUBSET StallableTasks
    /\ WatchdogTick
    /\ delay' = [t \in PeriodicTasks |-> IF delay[t] = 0 THEN 0 ELSE delay[t] - 1]
    /\ UNCHANGED <<smVars, heartbeatPc, scrubPc, injectPc, handlerPc, xCommandQueue,
                   seuVars, keysPressed, kicked, operatorOn>>

TaskStep == \/ WatchdogStep \/ StateMachineStep
            \/ Heartbeat \/ MemScrub \/ FaultInject \/ CommandHandler

Next == TaskStep \/ CommandInput \/ Tick

Spec == Init /\ [][Next]_vars

(* The timer interrupt keeps coming, and the scheduler runs the ready task *)
(* of highest priority, in turn where several have it.  Nothing obliges    *)
(* the operator to press a key or a hung task to come back.                *)
Fairness == /\ WF_vars(Tick)
            /\ WF_vars(WatchdogStep) /\ WF_vars(StateMachineStep)
            /\ WF_vars(Heartbeat) /\ WF_vars(MemScrub)
            /\ WF_vars(FaultInject) /\ WF_vars(CommandHandler)

FairSpec == Spec /\ Fairness

-----------------------------------------------------------------------------
(* Safety. *)

(* No state request is ever lost, although every caller ignores the result *)
(* of system_state_request_change and the send does not wait: whoever is   *)
(* about to post finds the queue created and a slot free.                  *)
AboutToPost(t) ==
    /\ CanRun(t)
    /\ CASE t = "Watchdog" -> wdPc = "evaluate" /\ EvaluateRequest # {}
         [] t = "MemScrub" -> scrubPc = "post"
         [] OTHER -> handlerPc \in {"n", "d", "a", "post"}

NoRequestIsLost ==
    \A t \in {"Watchdog", "MemScrub", "CommandHandler"} :
        AboutToPost(t) => RequestIsAccepted

(* The handler empties its queue faster than CommandInput can fill it: no  *)
(* key is answered with "queue full".                                      *)
NoCommandIsLost == Len(xCommandQueue) <= 1

(* When the watchdog declares a timeout, then either no monitored task at  *)
(* all has kicked it in this cycle, or one of the tasks it waits for has   *)
(* never kicked it: kicks are never forgotten, so this is all that a       *)
(* timeout can mean.                                                       *)
TimeoutMeansSilence ==
    wdPc = "evaluate" /\ ~Complete =>
        kicked = {} \/ ~(ExpectedBits \subseteq ulNotifiedValue)

(* Whenever a task of lower priority can look, automatic injection is off  *)
(* in DEGRADED and SAFE, unless the operator switched it on in that mode.  *)
InjectionOffUnlessOperator ==
    /\ HighestReady(2)
    /\ gSystemState \in {DEGRADED, SAFE}
    /\ fault_inject_enabled
    => operatorOn

(* What makes these inductive.  A notification is pending only while the   *)
(* watchdog is about to take it; as soon as any task has kicked in a cycle *)
(* the watchdog holds everything the notification word does; and whenever  *)
(* a further request could not be taken, the watchdog has only just begun  *)
(* its cycle and cannot come to an evaluation before the state machine,    *)
(* being ready, has run: the processor is not busy for a whole timeout.    *)
NotifyInv ==
    /\ ucNotifyState = "received" => wdPc = "woken"
    /\ wdPc = "blocked" => ucNotifyState = "waiting"
    /\ received \subseteq ulNotifiedValue
    /\ kicked # {} /\ wdPc \in {"loop", "blocked", "woken", "evaluate"}
                   /\ ucNotifyState # "received"
          => received = ulNotifiedValue

FreshCycle == \/ wdPc \in {"start", "begin"}
              \/ /\ wdPc \in {"loop", "blocked"}
                 /\ received = {}
                 /\ remaining + busy >= WatchdogTimeout

QueueInv ==
    /\ Len(xStateRequestQueue) <= 2
    /\ wdPc = "start" => smPc = "init"
    /\ smPc = "init" => xStateRequestQueue = <<>>
    /\ smPc = "init" \/ Len(xStateRequestQueue) > 1 => FreshCycle

PolicyInv == /\ gSystemState \in {DEGRADED, SAFE}
             /\ fault_inject_enabled /\ ~operatorOn
             => smPc = "policy"

Inv == TypeOK /\ NotifyInv /\ QueueInv /\ PolicyInv /\ NoCommandIsLost

(* As long as every monitored task keeps its period, no cycle times out,   *)
(* unless the system was booted in DEGRADED, where FaultInject is waited   *)
(* for and does not kick: then it is all that can be missing.              *)
Excused == ~imageOk /\ ExpectedBits \ received = {"FaultInject"}
NoFalseAlarm == wdPc = "evaluate" /\ stalled = {} => Complete \/ Excused

(* What "keeps its period" means: no task hangs, nobody leaves NOMINAL or  *)
(* corrupts memory by command before FaultInject has kicked for the first  *)
(* time, and the two tasks whose kick may come late do not need more than  *)
(* the timeout, although the processor may be busy with others both before *)
(* they begin their delay and after it.                                    *)
PeriodsAreKept ==
    /\ StallableTasks = {}
    /\ Keys \cap {"d", "a", "f"} = {}
    /\ HeartbeatPeriod + 2 * MaxBusy < WatchdogTimeout
    /\ InjectPeriod + 2 * MaxBusy < WatchdogTimeout

(* What makes NoFalseAlarm inductive then.  A kick is owed by whoever has  *)
(* never kicked, but for FaultInject after a boot in DEGRADED, and by      *)
(* Heartbeat in every cycle.  It comes when the longest stretch of work    *)
(* the task may have to wait for is over, or, if it has yet to begin its   *)
(* delay, after that and one more such stretch; which is less than what is *)
(* left of the cycle.                                                      *)
KicksOwed == ((WatchdogBits \ ulNotifiedValue) \cup ({"Heartbeat"} \ kicked))
             \ (IF imageOk THEN {} ELSE {"FaultInject"})

AboutToDelay(t) == CASE t = "Heartbeat" -> heartbeatPc = "delay"
                     [] t = "MemScrub"  -> scrubPc = "delay"
                     [] OTHER           -> injectPc = "delay"
Period(t) == CASE t = "Heartbeat" -> HeartbeatPeriod
               [] t = "MemScrub"  -> ScrubPeriod
               [] OTHER           -> InjectPeriod
KickDue(t) == IF delay[t] > 0 THEN delay[t] + MaxBusy
              ELSE IF AboutToDelay(t) THEN (MaxBusy - busy) + Period(t) + MaxBusy
              ELSE MaxBusy - busy

TimelyInv ==
    /\ wdPc \in {"loop", "blocked", "woken"} =>
          \A t \in KicksOwed : KickDue(t) < remaining
    /\ wdPc = "woken" /\ ucNotifyState # "received" => remaining = 0
    /\ wdPc = "evaluate" => Complete \/ Excused
    /\ \A t \in PeriodicTasks : AboutToDelay(t) => delay[t] = 0
    /\ delay["Heartbeat"] <= HeartbeatPeriod
    /\ delay["FaultInject"] <= InjectPeriod
    /\ "MemScrub" \notin ulNotifiedValue => delay["MemScrub"] = 0 /\ scrubPc # "delay"

(* Until FaultInject has kicked, nothing can take a system that was booted *)
(* in NOMINAL out of it, the only mode in which FaultInject does kick.     *)
UntroubledInv ==
    imageOk /\ "FaultInject" \notin ulNotifiedValue =>
        /\ flippedBits = 0 /\ scrubPc \in {"scrub", "delay"}
        /\ injectPc \in {"delay", "check", "kick"}
        /\ handlerPc \notin {"d", "a", "f", "inject"} \cup Counting
        /\ smPc # "policy"
        /\ smPc \in {"init", "boot"} \/ gSystemState = NOMINAL
        /\ smPc = "apply" => inHand[1].requested_state = NOMINAL
        /\ \A i \in 1 .. Len(xStateRequestQueue) :
              xStateRequestQueue[i].requested_state = NOMINAL

AlarmInv == TimelyInv /\ UntroubledInv

-----------------------------------------------------------------------------
(* What the documentation says of the program, and the code does not do.   *)

(* README.md, Watchdog: "The watchdog blocks until all expected bits       *)
(* arrive within WATCHDOG_TIMEOUT_MS": a good cycle is one in which every  *)
(* task that is waited for has kicked.                                     *)
GoodCycleMeansAllKicked ==
    wdPc = "evaluate" /\ Complete => ExpectedBits \subseteq kicked

-----------------------------------------------------------------------------
(* Liveness. *)

(* DEGRADED is never the end: each cycle of the watchdog either counts     *)
(* towards recovery or moves towards SAFE, whatever the tasks do.          *)
DegradedIsTransient == []<>(gSystemState # DEGRADED)

(* When every monitored task hangs for good, the system ends in SAFE.      *)
SilenceEndsInSafe == <>[](stalled = PeriodicTasks) => <>[](gSystemState = SAFE)

(* Requests do not wait for ever.                                          *)
RequestsAreServed == []<>(xStateRequestQueue = <<>> /\ smPc = "receive")
=============================================================================
