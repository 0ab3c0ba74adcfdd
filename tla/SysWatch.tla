----------------------------- MODULE SysWatch -----------------------------
(***************************************************************************)
(* packages/syswatch/src/syswatch.c: the thread that watches the others.   *)
(* A hook of the scheduler tells it when idle runs and, once idle has not  *)
(* run for a while, which is the least urgent thread that still gets the   *)
(* processor.  That one is taken for the thread that hangs: the board is   *)
(* reset, or the thread is deleted, or deleted and started again later.    *)
(* Syswatch has the highest priority: between the wake-up of every second  *)
(* and its next delay nothing else runs, and all it does is one step.      *)
(***************************************************************************)
EXTENDS RtThreads

CONSTANTS
    Modes,         \* values of SYSWATCH_EXCEPT_RESOLVE_MODE, a build option
    ExceptTimeout, ConfirmTmo, ResumeDly,  \* SYSWATCH_EXCEPT_*, in seconds
    NoThread,      \* RT_NULL
    MaxHangs,      \* bound on the threads that hang
    MaxNoMem       \* bound on the failures of rt_malloc and rt_thread_create

\* sec_cnt and the timeouts are rt_uint16_t.
UINT16_MAX == 65535

ASSUME SysWatchAssumption ==
    /\ Modes \subseteq 0 .. 2
    /\ ExceptTimeout \in 2 .. UINT16_MAX
    /\ ConfirmTmo \in 1 .. UINT16_MAX /\ ResumeDly \in 1 .. UINT16_MAX
    /\ NoThread \notin Threads
    /\ MaxHangs \in Nat /\ MaxNoMem \in Nat

VARIABLES
    mode,          \* SYSWATCH_EXCEPT_RESOLVE_MODE
    sw_data,       \* the static structure of syswatch.c
    hangs, nomem,  \* how often a thread has hung and memory was short, so far
    damaged        \* memory that belongs to somebody else has been made a thread

vars == <<kernel, mode, sw_data, hangs, nomem, damaged>>

\* op_step: 0 waits for an exception, 1 confirms the thread, 2 waits to resume.
SwData == [sec_cnt : 0 .. UINT16_MAX, op_step : 0 .. 2,
           lowest_thread : Threads \cup {NoThread}, wait_resume_slist : Seq(Threads)]

TypeOK ==
    /\ KernelTypeOK
    /\ mode \in Modes
    /\ sw_data \in SwData
    /\ hangs \in 0 .. MaxHangs /\ nomem \in 0 .. MaxNoMem
    /\ damaged \in BOOLEAN

Started ==
    /\ stat = [t \in Threads |-> "suspend"]
    /\ current = Idle /\ hung = {} /\ slack = TRUE
    /\ sw_data = [sec_cnt |-> 0, op_step |-> 0,
                  lowest_thread |-> NoThread, wait_resume_slist |-> <<>>]

Init == Started /\ mode \in Modes /\ hangs = 0 /\ nomem = 0 /\ damaged = FALSE

\* Nothing is said of what a damaged board does.
Undamaged == ~damaged /\ damaged' = FALSE
---------------------------------------------------------------------------
(***************************************************************************)
(* syswatch_thread_switch_hook(from, to); yields is from->stat being       *)
(* RT_THREAD_RUNNING: from has neither blocked nor ended.                  *)
(***************************************************************************)
\* Mutant: after a killed thread, too, there is nothing more to wait for.
ToIdleForgets(sd) ==
    IF sd.op_step = 2 THEN sd ELSE [sd EXCEPT !.sec_cnt = 0, !.op_step = 0]

\* Mutant: only a suspicion is cleared, the seconds without one add up.
ToIdleCounts(sd) ==
    IF sd.op_step # 1 THEN sd
    ELSE [sd EXCEPT !.sec_cnt = 0, !.op_step = IF sd.wait_resume_slist # <<>> THEN 2 ELSE 0]

ToIdle(sd) ==
    IF mode # 2 THEN [sd EXCEPT !.sec_cnt = 0, !.op_step = 0]
    ELSE CASE sd.op_step = 0 -> [sd EXCEPT !.sec_cnt = 0]
           [] sd.op_step = 1 ->
                [sd EXCEPT !.sec_cnt = 0,
                           !.op_step = IF sd.wait_resume_slist # <<>> THEN 2 ELSE 0]
           [] OTHER -> sd

\* Mutant: a greater number is taken for a higher priority.
HighestThread(sd, from, to, yields) ==
    LET low == sd.lowest_thread IN
    IF low = NoThread THEN to ELSE IF Prio(to) < Prio(low) THEN to ELSE low

LowestThread(sd, from, to, yields) ==
    LET low == sd.lowest_thread IN
    IF low = NoThread THEN to
    ELSE IF Prio(to) > Prio(low) THEN to
    ELSE IF Prio(to) = Prio(low) /\ Prio(from) = Prio(to) /\ yields THEN from
    ELSE low

\* Mutant: idle is a thread like the others.
HookNotesIdle(sd, from, to, yields) ==
    IF Prio(from) > Prio(to) \/ sd.op_step # 1 THEN sd
    ELSE [sd EXCEPT !.lowest_thread = LowestThread(sd, from, to, yields)]

\* Mutant: the confirmation starts again with every switch.
HookRestarts(sd, from, to, yields) ==
    IF Prio(from) > Prio(to) THEN sd
    ELSE IF Prio(to) = PriorityMax - 1 THEN ToIdle(sd)
    ELSE IF sd.op_step # 1 THEN sd
    ELSE [sd EXCEPT !.lowest_thread = LowestThread(sd, from, to, yields), !.sec_cnt = 0]

SwitchHook(sd, from, to, yields) ==
    IF Prio(from) > Prio(to) THEN sd
    ELSE IF Prio(to) = PriorityMax - 1 THEN ToIdle(sd)
    ELSE IF sd.op_step # 1 THEN sd
    ELSE [sd EXCEPT !.lowest_thread = LowestThread(sd, from, to, yields)]

Switch(to, yields) ==
    /\ current' = to
    /\ sw_data' = SwitchHook(sw_data, current, to, yields)
    /\ slack' = (slack \/ to \in hung \cup {Idle})
---------------------------------------------------------------------------
(***************************************************************************)
(* The application.                                                        *)
(***************************************************************************)
Wake(t) ==
    /\ Undamaged /\ stat[t] = "suspend"
    /\ stat' = [stat EXCEPT ![t] = "ready"]
    /\ IF Prio(t) < Prio(current) THEN Switch(t, TRUE)
       ELSE UNCHANGED <<current, sw_data, slack>>
    /\ UNCHANGED <<hung, mode, hangs, nomem>>

Leaves(s) ==
    /\ Undamaged /\ current \in Threads \ hung
    /\ stat' = [stat EXCEPT ![current] = s]
    /\ \E to \in Candidates(stat') : Switch(to, FALSE)
    /\ UNCHANGED <<hung, mode, hangs, nomem>>

Block == Leaves("rest")
Exit  == Leaves("close")

\* The end of a time slice, or rt_thread_yield.
Slice ==
    /\ Undamaged /\ current \in Threads
    /\ \E to \in Candidates(stat) \ {current} : Switch(to, TRUE)
    /\ UNCHANGED <<stat, hung, mode, hangs, nomem>>

Hang ==
    /\ Undamaged /\ current \in Threads \ hung /\ hangs < MaxHangs
    /\ hung' = hung \cup {current} /\ hangs' = hangs + 1
    /\ slack' = TRUE
    /\ UNCHANGED <<stat, current, mode, sw_data, nomem>>
---------------------------------------------------------------------------
(***************************************************************************)
(* One second of syswatch_thread_entry: syswatch_fsm, then rt_thread_delay *)
(* gives the processor back, to the thread that had it or an equal one.    *)
(* The load: who does not hang leaves time for idle, or for those that do  *)
(* hang, in every second.                                                  *)
(***************************************************************************)
TimeoutOf(step) ==
    CASE step = 0 -> ExceptTimeout [] step = 1 -> ConfirmTmo [] OTHER -> ResumeDly

Expired == sw_data.sec_cnt + 1 >= TimeoutOf(sw_data.op_step)

Delay(sd, st, hg) ==
    /\ stat' = Rested(st) /\ hung' = hg
    /\ \E to \in Candidates(stat') :
         /\ current' = to
         /\ sw_data' = SwitchHook(sd, Syswatch, to, FALSE)
         /\ slack' = (to \in hg \cup {Idle})

\* Nothing to do; syswatch_thread_except_resolve of RT_NULL included.
Quiet ==
    \/ ~Expired
    \/ sw_data.op_step = 1 /\ sw_data.lowest_thread = NoThread

Tick ==
    /\ Undamaged /\ slack /\ Quiet
    /\ Delay([sw_data EXCEPT !.sec_cnt = IF Expired THEN 0 ELSE @ + 1], stat, hung)
    /\ UNCHANGED <<mode, hangs, nomem>>

Suspect ==
    /\ Undamaged /\ slack /\ Expired /\ sw_data.op_step = 0
    /\ Delay([sw_data EXCEPT !.sec_cnt = 0, !.op_step = 1, !.lowest_thread = NoThread],
             stat, hung)
    /\ UNCHANGED <<mode, hangs, nomem>>

Confirmed == Undamaged /\ slack /\ sw_data.op_step = 1 /\ ~Quiet

\* syswatch_thread_except_resolve_reset
ResolveReset ==
    /\ Confirmed /\ mode = 0
    /\ stat' = [t \in Threads |-> "suspend"]
    /\ current' = Idle /\ hung' = {} /\ slack' = TRUE
    /\ sw_data' = [sec_cnt |-> 0, op_step |-> 0,
                   lowest_thread |-> NoThread, wait_resume_slist |-> <<>>]
    /\ UNCHANGED <<mode, hangs, nomem>>

\* syswatch_thread_except_resolve_kill of the lowest thread, which slist remembers.
Kill(slist) ==
    LET t == sw_data.lowest_thread IN
    Delay([sw_data EXCEPT !.sec_cnt = 0, !.lowest_thread = NoThread,
                          !.wait_resume_slist = slist],
          [stat EXCEPT ![t] = "killed"], hung \ {t})

ResolveKill ==
    /\ Confirmed /\ mode # 0
    /\ LET slist == sw_data.wait_resume_slist IN
       \/ /\ mode = 1
          /\ Kill(slist) /\ UNCHANGED nomem
       \/ /\ mode = 2
          /\ Kill(Append(slist, sw_data.lowest_thread)) /\ UNCHANGED nomem
       \/ /\ mode = 2 /\ nomem < MaxNoMem
          /\ Kill(slist) /\ nomem' = nomem + 1
    /\ UNCHANGED <<mode, hangs>>

Waiting == {sw_data.wait_resume_slist[i] : i \in DOMAIN sw_data.wait_resume_slist}

ResumeDue == slack /\ Expired /\ sw_data.op_step = 2

\* Mutant: only the first entry of the list is resumed.
ResumeFirst ==
    /\ Undamaged /\ ResumeDue
    /\ Delay([sw_data EXCEPT !.sec_cnt = 0, !.op_step = 0, !.wait_resume_slist = Tail(@)],
             [stat EXCEPT ![Head(sw_data.wait_resume_slist)] = "ready"], hung)
    /\ UNCHANGED <<mode, hangs, nomem>>

(***************************************************************************)
(* syswatch_thread_except_resolve_resume_all: a thread for every entry of  *)
(* the list, unless rt_thread_create has no memory for it.  Which of       *)
(* rt_thread_init and rt_thread_create is called depends on the type in    *)
(* the control block of the thread that was deleted when it was killed.    *)
(* Idle has run since and freed the block; if it is in use again for       *)
(* something else, what looks like a type may say that the thread was a    *)
(* static one, and rt_thread_init makes a thread of that memory.           *)
(***************************************************************************)
Misread == damaged' = TRUE /\ UNCHANGED <<kernel, sw_data, nomem>>

ResumeAll ==
    /\ ~damaged /\ ResumeDue
    /\ \/ \E failed \in SUBSET Waiting :
            /\ nomem' = IF failed = {} THEN nomem ELSE nomem + 1
            /\ nomem' <= MaxNoMem
            /\ Delay([sw_data EXCEPT !.sec_cnt = 0, !.op_step = 0, !.wait_resume_slist = <<>>],
                     [t \in Threads |-> IF t \in Waiting \ failed THEN "ready" ELSE stat[t]],
                     hung)
            /\ UNCHANGED damaged
       \/ Misread
    /\ UNCHANGED <<mode, hangs>>

Second ==
    Tick \/ Suspect \/ ResolveReset \/ ResolveKill \/ ResumeAll

Next ==
    \/ \E t \in Threads : Wake(t)
    \/ Block \/ Exit \/ Slice \/ Hang
    \/ Second
    \/ damaged /\ UNCHANGED vars

Spec == Init /\ [][Next]_vars

(***************************************************************************)
(* Time passes, and who does not hang is done with its work some time.     *)
(***************************************************************************)
FairSpec == Spec /\ WF_vars(Second) /\ WF_vars(Block)
---------------------------------------------------------------------------
(***************************************************************************)
(* A thread that is killed in mode 2 is on the list to be resumed, once,   *)
(* as long as memory lasts; syswatch waits for it while the list holds     *)
(* something, and never goes back to step 0 and forgets it                 *)
(* (wait_resume_slist, op_step).                                           *)
(***************************************************************************)
NoneForgotten ==
    /\ \A i, j \in DOMAIN sw_data.wait_resume_slist :
         sw_data.wait_resume_slist[i] = sw_data.wait_resume_slist[j] => i = j
    /\ \A t \in Waiting : stat[t] = "killed"
    /\ mode = 2 /\ nomem = 0 => \A t \in Threads : stat[t] = "killed" => t \in Waiting
    /\ sw_data.op_step = 0 => sw_data.wait_resume_slist = <<>>
    /\ sw_data.op_step = 2 => sw_data.wait_resume_slist # <<>>

Kills(t) == stat[t] # "killed" /\ stat'[t] = "killed"

(***************************************************************************)
(* A thread is killed only if a thread that hangs, perhaps itself, is at   *)
(* least as urgent: nothing more urgent than the trouble is touched        *)
(* (syswatch_thread_switch_hook, syswatch_thread_except_resolve).          *)
(***************************************************************************)
MoreUrgentSpared ==
    [][\A t \in Threads : Kills(t) => \E h \in hung : Prio(h) <= Prio(t)]_vars

(***************************************************************************)
(* The only thread that ever hung, with a priority of its own, is the one  *)
(* that is killed, whatever the others do meanwhile.                       *)
(***************************************************************************)
LoneHogIsFound ==
    [][\A t, h \in Threads :
         /\ Kills(t) /\ hangs = 1 /\ hung = {h}
         /\ \A u \in Threads \ {h} : Priority[u] # Priority[h]
         => t = h]_vars

\* How far the watch is.
Clock == <<sw_data.op_step, sw_data.sec_cnt>>

(***************************************************************************)
(* While a thread hangs the watch's time runs out, whatever the others do: *)
(* no switch between threads stops its seconds or starts them again, every *)
(* second counts, and every timeout leads on, from waiting for an          *)
(* exception to the confirmation, from there each time to a kill, and from *)
(* waiting to resume back.  So somebody is killed, or the board is reset,  *)
(* after the three timeouts at the latest, and the next one after another  *)
(* SYSWATCH_EXCEPT_CONFIRM_TMO (syswatch_fsm, syswatch_thread_switch_hook),*)
(* unless the resuming in between does damage.                             *)
(***************************************************************************)
HangRunsOut ==
    [][hung # {} /\ hung' # {} =>
         IF ~Second THEN Clock' = Clock
         ELSE IF ~Expired THEN Clock' = <<sw_data.op_step, sw_data.sec_cnt + 1>>
         ELSE \/ sw_data.op_step = 0 /\ Clock' = <<1, 0>>
              \/ sw_data.op_step = 1 /\ Clock' = <<1, 0>> /\ \E t \in Threads : Kills(t)
              \/ sw_data.op_step = 2 /\ (Clock' = <<0, 0>> \/ damaged')]_vars

(***************************************************************************)
(* Who is on the list to be resumed is not kept waiting: nobody leaves the *)
(* list but by being started again, all at once, or for want of memory,    *)
(* unless starting them damages memory that is not theirs;                 *)
(* the first time that idle gets to run ends the confirmation; and from    *)
(* then on every second counts, which no switch, no other thread and no    *)
(* thread that hangs meanwhile can stop, until the threads are started     *)
(* after SYSWATCH_THREAD_RESUME_DLY (syswatch_thread_switch_hook,          *)
(* syswatch_fsm, syswatch_thread_except_resolve_resume_all).               *)
(***************************************************************************)
ResumeRunsOut ==
    [][Waiting # {} =>
         \/ /\ Waiting \subseteq Waiting'
            /\ current' = Idle => sw_data'.op_step = 2
            /\ sw_data.op_step = 2 =>
                 Clock' = IF Second THEN <<2, sw_data.sec_cnt + 1>> ELSE Clock
            /\ ~(Second /\ sw_data.op_step = 2 /\ Expired)
         \/ /\ Second /\ sw_data.op_step = 2 /\ Expired
            /\ \/ /\ Waiting' = {} /\ Clock' = <<0, 0>>
                  /\ (\A t \in Waiting : stat'[t] = "ready") \/ nomem' > nomem
               \/ damaged']_vars

(***************************************************************************)
(* Whoever hangs is stopped in the end, by a reset or by being killed,     *)
(* and so idle gets to run again, unless resuming another one has damaged  *)
(* memory by then (syswatch_fsm).                                          *)
(***************************************************************************)
HogIsStopped == \A t \in Threads : t \in hung ~> t \notin hung \/ damaged

(***************************************************************************)
(* In mode 2 a thread that was killed is started again, unless memory was  *)
(* short or what it left of itself is misread                              *)
(* (syswatch_thread_except_resolve_resume_all).                            *)
(***************************************************************************)
KilledIsResumed ==
    \A t \in Threads :
      mode = 2 /\ stat[t] = "killed" ~> stat[t] = "ready" \/ nomem > 0 \/ damaged
=============================================================================
