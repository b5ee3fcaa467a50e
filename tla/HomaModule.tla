------------------------------ MODULE HomaModule ------------------------------
(***************************************************************************)
(* Loading and unloading the Homa module (homa_load, homa_unload) and the  *)
(* kernel entry points each registration opens.                            *)
(*                                                                         *)
(* homa_load registers or initialises one thing per step, in the order of *)
(* the code; a step that reports an error jumps to its label of the       *)
(* unwinding chain, which undoes the steps one by one.  homa_unload undoes *)
(* them in its own order.  Each step is an action, so a kernel entry point *)
(* can run between any two of them: a packet for IPPROTO_HOMA, a socket() *)
(* call, a sysctl access, a new network namespace, a timer tick.  A step   *)
(* is named by what it registers:                                          *)
(*   prot, prot6        proto_register(&homa_prot / &homav6_prot)          *)
(*   protosw, protosw6  inet_register_protosw / inet6_register_protosw     *)
(*   proto, proto6      inet_add_protocol / inet6_add_protocol             *)
(*   homa               homa_init (the global struct homa)                 *)
(*   metrics, sysctl, offload, pernet, timer, gro, tt                      *)
(*                      homa_metrics_init, register_net_sysctl,            *)
(*                      homa_offload_init, register_pernet_subsys (which   *)
(*                      assigns homa_net_id), the timer kthread,           *)
(*                      homa_gro_hook_tcp, tt_init                         *)
(*                                                                         *)
(* The timer thread (homa_timer_main) is a process of its own: it sleeps   *)
(* in TASK_UNINTERRUPTIBLE until its hrtimer (homa_hrtimer) or homa_unload *)
(* wakes it, then runs homa_timer or exits.  homa_unload stops it by       *)
(* setting timer_thread_exit, waking it and waiting for timer_thread_done. *)
(***************************************************************************)
EXTENDS Naturals, Sequences, SequencesExt

CONSTANTS
    CanFail,   \* the steps whose failure the model explores
    Nets,      \* network namespaces
    InitNet    \* init_net, which always exists

(* The steps of homa_load, in order. *)
LoadSteps == <<"prot", "prot6", "protosw", "protosw6", "proto", "proto6",
               "homa", "metrics", "sysctl", "offload", "pernet", "timer",
               "gro", "tt">>

(* The steps that return an error code; the others cannot fail. *)
Failing == ToSet(LoadSteps) \ {"protosw", "gro", "tt"}

ASSUME CanFail \subseteq Failing /\ InitNet \in Nets

(* The unwinding chain at the end of homa_load, label after label. *)
Unwind == <<"pernet", "offload", "sysctl", "metrics", "homa", "proto6",
            "proto", "protosw6", "protosw", "prot6", "prot">>

(* Mutant: timer_err is skipped, so a failed kthread_run goes to net_err. *)
LabelSkipsTimerErr ==
    [s \in Failing |->
        CASE s = "prot"     -> Len(Unwind) + 1
          [] s = "prot6"    -> 11
          [] s = "protosw6" -> 9
          [] s = "proto"    -> 8
          [] s = "proto6"   -> 7
          [] s = "homa"     -> 6
          [] s = "metrics"  -> 5
          [] s = "sysctl"   -> 4
          [] s = "offload"  -> 3
          [] s = "pernet"   -> 2
          [] s = "timer"    -> 2]

(* The label each failing step jumps to, as a position in Unwind (one past *)
(* the end is proto_register_err, which undoes nothing).                   *)
Label ==
    [s \in Failing |->
        CASE s = "prot"     -> Len(Unwind) + 1          \* proto_register_err
          [] s = "prot6"    -> 11                       \* proto_register_v6_err
          [] s = "protosw6" -> 9                        \* register_protosw_v6_err
          [] s = "proto"    -> 8                        \* add_protocol_err
          [] s = "proto6"   -> 7                        \* add_protocol_v6_err
          [] s = "homa"     -> 6                        \* homa_init_err
          [] s = "metrics"  -> 5                        \* metrics_err
          [] s = "sysctl"   -> 4                        \* sysctl_err
          [] s = "offload"  -> 3                        \* offload_err
          [] s = "pernet"   -> 2                        \* net_err
          [] s = "timer"    -> 1]                       \* timer_err

(* The steps of homa_unload, in order. *)
UnloadSteps == <<"gro", "timer", "offload", "sysctl", "metrics", "pernet",
                 "homa", "proto", "protosw", "proto6", "protosw6", "prot",
                 "prot6", "tt">>

(* What each entry point uses when the kernel calls it.  homa_softirq and  *)
(* the ICMP handlers, homa_socket (homa_sock_init) and homa_dointvec find  *)
(* their struct homa_net through net_generic(net, homa_net_id) and the     *)
(* struct homa through it; homa_net_start and the timer thread use the     *)
(* global struct homa (the timer thread is treated on its own below).      *)
Needs ==
    [e \in {"proto", "proto6", "protosw", "protosw6", "sysctl", "pernet"} |->
        IF e = "pernet" THEN {"homa"} ELSE {"pernet", "homa"}]

VARIABLES
    reg,     \* what is registered or initialised
    alive,   \* the network namespaces that exist
    hnet,    \* the namespaces whose struct homa_net is initialised
    phase,   \* "loading", "unwinding", "live", "unloading", "failed", "gone"
    k,       \* position in the sequence the current phase walks
    stop,    \* homa_unload's progress in stopping the thread: "exit", "wake", "wait"
    exiting, \* timer_thread_exit
    tpc,     \* the timer thread: "none", "top", "sched", "after", "tick", "exit", "gone"
    running, \* the thread's task state is TASK_RUNNING
    armed,   \* the hrtimer is queued to expire
    firing   \* homa_hrtimer, the hrtimer's callback, is running

tvars == <<exiting, tpc, running, armed, firing>>
vars == <<reg, alive, hnet, phase, k, stop, tvars>>

Init ==
    /\ reg = {}
    /\ alive = {InitNet}
    /\ hnet = {}
    /\ phase = "loading"
    /\ k = 1
    /\ stop = "exit"
    /\ exiting = FALSE
    /\ tpc = "none"
    /\ running = TRUE
    /\ armed = FALSE
    /\ firing = FALSE

(* One step of homa_load: it succeeds, or it fails and jumps to its label. *)
LoadStep ==
    LET s == LoadSteps[k]
    IN
    /\ phase = "loading"
    /\ \/ /\ reg' = reg \cup {s}
          /\ k' = k + 1
          /\ phase' = IF k = Len(LoadSteps) THEN "live" ELSE "loading"
          /\ tpc' = IF s = "timer" THEN "top" ELSE tpc     \* kthread_run
          /\ hnet' = IF s = "pernet" THEN alive ELSE hnet  \* homa_net_start for each
       \/ /\ s \in CanFail
          /\ k' = Label[s]
          /\ phase' = IF Label[s] > Len(Unwind) THEN "failed" ELSE "unwinding"
          /\ UNCHANGED <<reg, tpc, hnet>>
    /\ UNCHANGED <<alive, stop, exiting, running, armed, firing>>

(* One label of the unwinding chain; the last one returns the error. *)
UnwindStep ==
    /\ phase = "unwinding"
    /\ reg' = reg \ {Unwind[k]}
    /\ hnet' = IF Unwind[k] = "pernet" THEN {} ELSE hnet   \* homa_net_exit for each
    /\ k' = k + 1
    /\ phase' = IF k = Len(Unwind) THEN "failed" ELSE "unwinding"
    /\ UNCHANGED <<alive, stop, tvars>>

(* The module is unloaded once nothing holds a reference to it. *)
UnloadStart ==
    /\ phase = "live"
    /\ phase' = "unloading"
    /\ k' = 1
    /\ UNCHANGED <<reg, alive, hnet, stop, tvars>>

(* Mutant: homa_unload goes on without wait_for_completion. *)
UnloadNoWait ==
    /\ phase = "unloading"
    /\ UnloadSteps[k] = "timer" => stop = "wait"
    /\ reg' = reg \ {UnloadSteps[k]}
    /\ hnet' = IF UnloadSteps[k] = "pernet" THEN {} ELSE hnet
    /\ k' = k + 1
    /\ phase' = IF k = Len(UnloadSteps) THEN "gone" ELSE "unloading"
    /\ UNCHANGED <<alive, stop, tvars>>

(* Removing one registration; for "timer" this is the end of the wait for  *)
(* timer_thread_done.                                                      *)
UnloadStep ==
    /\ phase = "unloading"
    /\ UnloadSteps[k] = "timer" => stop = "wait" /\ tpc = "gone"
    /\ reg' = reg \ {UnloadSteps[k]}
    /\ hnet' = IF UnloadSteps[k] = "pernet" THEN {} ELSE hnet
    /\ k' = k + 1
    /\ phase' = IF k = Len(UnloadSteps) THEN "gone" ELSE "unloading"
    /\ UNCHANGED <<alive, stop, tvars>>

(* homa_unload, if timer_kthread: timer_thread_exit = 1, then             *)
(* wake_up_process(timer_kthread), then wait_for_completion.               *)
StopTimer ==
    /\ phase = "unloading"
    /\ UnloadSteps[k] = "timer"
    /\ \/ /\ stop = "exit"
          /\ exiting' = TRUE
          /\ stop' = "wake"
          /\ UNCHANGED running
       \/ /\ stop = "wake"
          /\ running' = TRUE
          /\ stop' = "wait"
          /\ UNCHANGED exiting
    /\ UNCHANGED <<reg, alive, hnet, phase, k, tpc, armed, firing>>

-----------------------------------------------------------------------------

(* homa_timer_main, one step per stretch of the loop between two points    *)
(* where another actor's step matters.                                     *)

(* set_current_state(TASK_UNINTERRUPTIBLE); if !timer_thread_exit,        *)
(* hrtimer_start(1 ms).                                                    *)
TimerArm ==
    /\ tpc = "top"
    /\ running' = FALSE
    /\ armed' = (armed \/ ~exiting)
    /\ tpc' = IF exiting THEN "after" ELSE "sched"
    /\ UNCHANGED <<reg, alive, hnet, phase, k, stop, exiting, firing>>

(* schedule() returns once a wake_up_process made the task runnable. *)
TimerResume ==
    /\ tpc = "sched"
    /\ running
    /\ tpc' = "after"
    /\ UNCHANGED <<reg, alive, hnet, phase, k, stop, exiting, running, armed, firing>>

(* Mutant: the loop never tests timer_thread_exit after waking. *)
TimerCheckIgnoresExit ==
    /\ tpc = "after"
    /\ running' = TRUE
    /\ tpc' = "tick"
    /\ UNCHANGED <<reg, alive, hnet, phase, k, stop, exiting, armed, firing>>

(* __set_current_state(TASK_RUNNING); leave the loop if timer_thread_exit. *)
TimerCheck ==
    /\ tpc = "after"
    /\ running' = TRUE
    /\ tpc' = IF exiting THEN "exit" ELSE "tick"
    /\ UNCHANGED <<reg, alive, hnet, phase, k, stop, exiting, armed, firing>>

(* homa_timer(homa), then round the loop. *)
TimerTick ==
    /\ tpc = "tick"
    /\ tpc' = "top"
    /\ UNCHANGED <<reg, alive, hnet, phase, k, stop, exiting, running, armed, firing>>

(* Mutant: the thread exits without hrtimer_cancel. *)
TimerExitNoCancel ==
    /\ tpc = "exit"
    /\ tpc' = "gone"
    /\ UNCHANGED <<reg, alive, hnet, phase, k, stop, exiting, running, armed, firing>>

(* hrtimer_cancel dequeues the hrtimer and waits for a running callback;  *)
(* then kthread_complete_and_exit(&timer_thread_done).                     *)
TimerExit ==
    /\ tpc = "exit"
    /\ ~firing
    /\ armed' = FALSE
    /\ tpc' = "gone"
    /\ UNCHANGED <<reg, alive, hnet, phase, k, stop, exiting, running, firing>>

(* The hrtimer expires: its callback starts. *)
HrtimerExpire ==
    /\ armed /\ ~firing
    /\ armed' = FALSE
    /\ firing' = TRUE
    /\ UNCHANGED <<reg, alive, hnet, phase, k, stop, exiting, tpc, running>>

(* homa_hrtimer: wake_up_process(timer_kthread), HRTIMER_NORESTART. *)
HrtimerFire ==
    /\ firing
    /\ firing' = FALSE
    /\ running' = TRUE
    /\ UNCHANGED <<reg, alive, hnet, phase, k, stop, exiting, tpc, armed>>

TimerThread == TimerArm \/ TimerResume \/ TimerCheck \/ TimerTick \/ TimerExit

(* A namespace is created: if the pernet subsystem is registered,          *)
(* homa_net_start initialises its homa_net (homa_net_init is not in src/   *)
(* and is taken to succeed).                                               *)
NetStart(n) ==
    /\ n \notin alive
    /\ alive' = alive \cup {n}
    /\ hnet' = IF "pernet" \in reg THEN hnet \cup {n} ELSE hnet
    /\ UNCHANGED <<reg, phase, k, stop, tvars>>

(* A namespace is destroyed: homa_net_exit destroys its homa_net. *)
NetExit(n) ==
    /\ n \in alive \ {InitNet}
    /\ alive' = alive \ {n}
    /\ hnet' = hnet \ {n}
    /\ UNCHANGED <<reg, phase, k, stop, tvars>>

Next ==
    \/ \E n \in Nets : NetStart(n) \/ NetExit(n)
    \/ LoadStep \/ UnwindStep \/ UnloadStart \/ UnloadStep \/ StopTimer
    \/ TimerThread \/ HrtimerExpire \/ HrtimerFire

Spec == Init /\ [][Next]_vars

(* The scheduler runs a runnable kthread and the unloading process, and an *)
(* armed hrtimer expires.  Loading, and the decision to unload, are not    *)
(* assumed to happen.                                                      *)
Fairness ==
    /\ WF_vars(TimerThread)
    /\ WF_vars(HrtimerExpire)
    /\ WF_vars(HrtimerFire)
    /\ WF_vars(UnloadStep \/ StopTimer)

LiveSpec == Spec /\ Fairness

-----------------------------------------------------------------------------

(* The kernel can call entry point e: it is registered, and for socket()   *)
(* try_module_get succeeds, which it does unless the module is going away. *)
Reachable(e) ==
    /\ e \in reg
    /\ e \in {"protosw", "protosw6"} => phase # "unloading"

(* Whenever the kernel can call into Homa, what that entry point uses is  *)
(* initialised: homa_load must register a handler only after the state it *)
(* reads, and homa_unload must remove it before destroying that state.     *)
EntriesFindState ==
    \A e \in DOMAIN Needs : Reachable(e) => Needs[e] \subseteq reg


(* A failed load, and a finished unload, leave nothing behind: the label  *)
(* each failing step of homa_load jumps to undoes exactly the steps done   *)
(* before it, no timer thread or homa_net is left, and homa_unload removes all *)
(* that homa_load registered.                                              *)
UnwindUndoesLoad ==
    phase \in {"failed", "gone"} =>
        reg = {} /\ hnet = {} /\ tpc \in {"none", "gone"}

(* homa_timer runs only while the global struct homa is initialised: the  *)
(* thread is started after homa_init, and homa_unload waits for it to exit *)
(* before homa_destroy.                                                    *)
TimerFindsHoma ==
    tpc = "tick" => "homa" \in reg

(* homa_hrtimer never runs for a thread that has exited: hrtimer_cancel    *)
(* runs before kthread_complete_and_exit, though the loop re-arms the      *)
(* hrtimer on every round, even while the callback of the last expiry is   *)
(* still running.                                                          *)
NoTimerAfterExit ==
    armed \/ firing => tpc # "gone"

(* homa_unload returns: once it starts, the timer thread leaves its loop   *)
(* whether it is asleep, about to sleep or running homa_timer, and every   *)
(* registration is removed.                                                *)
UnloadFinishes ==
    phase = "unloading" ~> phase = "gone"


(* homa_unload's wake_up_process(timer_kthread) (line 1172) finds the     *)
(* timer thread still there.  homa_unload holds no reference to the task  *)
(* (kthread_run's result is kept without get_task_struct, and kthread_stop *)
(* is not used), so once the thread has seen timer_thread_exit and called *)
(* kthread_complete_and_exit its task_struct may be freed under the wake. *)
WakeFindsThread ==
    [][stop = "wake" /\ stop' = "wait" => tpc # "gone"]_vars

==============================================================================
