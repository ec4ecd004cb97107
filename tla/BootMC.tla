-------------------------------- MODULE BootMC --------------------------------
(***************************************************************************)
(* An instance of Boot: one good image with every size of heap, and the    *)
(* configured heap with every image and every damage.  Sizes are those of  *)
(* the 64-bit build.                                                       *)
(***************************************************************************)
EXTENDS Boot

(* Up to a little more than the tasks need, in steps of the alignment.  *)
HeapSizes == {16 * n : n \in 8 .. 1300}

Config(name, stack_size) == [name |-> name, stack_size |-> stack_size]
ReleaseTasks == <<Config("Watchdog", 256), Config("StateMachine", 256),
                  Config("Heartbeat", 256), Config("MemScrub", 384),
                  Config("FaultInject", 256), Config("CommandInput", 256),
                  Config("CommandHandler", 256)>>
DebugTasks   == Append(ReleaseTasks, Config("Telemetry", 256))

HeapAt(ucHeap, size) == [ucHeap |-> ucHeap, size |-> size]
ConfiguredHeap == HeapAt(64, configTOTAL_HEAP_SIZE)
AllHeaps == {ConfiguredHeap} \cup {HeapAt(72, size) : size \in HeapSizes}

(* What the proofs of a complete boot and of the refusal of damage assume  *)
(* holds of the code's own sizes and of this polynomial.                   *)
ASSUME ConfiguredHeapSuffices == HeapSuffices
ASSUME OrderExceedsImage == TwoBitsDiffer

(* Two dimensions, varied one at a time.  *)
OneImage == image \ SlotBits(slot) = {0} /\ slot + SlotBytes = Size /\ damage = {}
OneAtATime == build = ConfiguredHeap \/ OneImage

MCInit == BootInit /\ OneAtATime
MCNext == (BeforePowerOn /\ OneAtATime') \/ BootStep
MCSpec == MCInit /\ [][MCNext]_<<vars, bootVars>>
=============================================================================
