------------------------------- MODULE Utilities -------------------------------
(***************************************************************************)
(* The parts of the library that stand for themselves, side by side: a     *)
(* behaviour exercises one of them and leaves the others at their          *)
(* beginning.                                                              *)
(***************************************************************************)
EXTENDS ArithmeticClients, RegionClients, BRUResourceCleanup, BRUConcurrentVariable,
        BRUDispatchUtils, TaskDescriptors, DeferredClients

VARIABLE subject

vars == << subject, arithmeticVars, regionVars, cleanupVars, variableVars,
           queueVars, descriptorVars, deferredVars >>

Init ==
    /\ subject \in {"arithmetic", "regions", "cleanup", "variable", "queues",
                   "descriptors", "promises"}
    /\ InitArithmetic
    /\ IF subject = "regions" THEN InitRegions
       ELSE parent = BRUMemoryRegionNull /\ region = parent /\ error = NotAsked
    /\ InitCleanup
    /\ InitVariable
    /\ InitQueues
    /\ InitDescriptors
    /\ InitDeferreds
    /\ subject # "queues" => created = {}

Arithmetic ==
    /\ subject = "arithmetic" /\ NextArithmetic
    /\ UNCHANGED << subject, regionVars, cleanupVars, variableVars, queueVars,
                    descriptorVars, deferredVars >>

Regions ==
    /\ subject = "regions" /\ NextRegions
    /\ UNCHANGED << subject, arithmeticVars, cleanupVars, variableVars, queueVars,
                    descriptorVars, deferredVars >>

Cleanup ==
    /\ subject = "cleanup" /\ NextCleanup
    /\ UNCHANGED << subject, arithmeticVars, regionVars, variableVars, queueVars,
                    descriptorVars, deferredVars >>

Variable ==
    /\ subject = "variable" /\ NextVariable
    /\ UNCHANGED << subject, arithmeticVars, regionVars, cleanupVars, queueVars,
                    descriptorVars, deferredVars >>

QueueMarkers ==
    /\ subject = "queues" /\ NextQueues
    /\ UNCHANGED << subject, arithmeticVars, regionVars, cleanupVars, variableVars,
                    descriptorVars, deferredVars >>

LaunchDescriptors ==
    /\ subject = "descriptors" /\ NextDescriptors
    /\ UNCHANGED << subject, arithmeticVars, regionVars, cleanupVars, variableVars,
                    queueVars, deferredVars >>

Promises ==
    /\ subject = "promises" /\ NextDeferreds
    /\ UNCHANGED << subject, arithmeticVars, regionVars, cleanupVars, variableVars,
                    queueVars, descriptorVars >>

Next ==
    \/ Arithmetic \/ Regions \/ Cleanup \/ Variable \/ QueueMarkers
    \/ LaunchDescriptors \/ Promises

\* Only the promises say what happens eventually.
Spec == Init /\ [][Next]_vars /\ DeferredFairness
==============================================================================
