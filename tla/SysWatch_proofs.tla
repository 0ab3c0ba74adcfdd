-------------------------- MODULE SysWatch_proofs --------------------------
(***************************************************************************)
(* What holds of syswatch for any threads, priorities and timeouts.        *)
(***************************************************************************)
EXTENDS SysWatch, TLAPS

\* Priorities are numbers; only idle has idle's.
LEMMA PrioRange ==
    /\ \A t \in Threads : Prio(t) = Priority[t] /\ Prio(t) \in 1 .. PriorityMax - 2
    /\ Prio(Idle) = PriorityMax - 1
    /\ Prio(Syswatch) = 0
    /\ PriorityMax \in Nat /\ PriorityMax > 2
BY ThreadsAssumption DEF Prio

LEMMA Uint16 == UINT16_MAX \in Nat /\ UINT16_MAX > 1
BY DEF UINT16_MAX

LEMMA Zero == 0 \in 0 .. UINT16_MAX
BY Uint16

\* A structure with a new counter and step, or with another thread noted.
Stepped(sd, c, k) == [sd EXCEPT !.sec_cnt = c, !.op_step = k]
Noted(sd, t)      == [sd EXCEPT !.lowest_thread = t]

LEMMA SteppedFields ==
    ASSUME NEW sd \in SwData, NEW c \in 0 .. UINT16_MAX, NEW k \in 0 .. 2
    PROVE  /\ Stepped(sd, c, k) \in SwData
           /\ Stepped(sd, c, k).sec_cnt = c /\ Stepped(sd, c, k).op_step = k
           /\ Stepped(sd, c, k).wait_resume_slist = sd.wait_resume_slist
           /\ Stepped(sd, c, k).lowest_thread = sd.lowest_thread
<1>1. [sd EXCEPT !.sec_cnt = c, !.op_step = k] \in SwData
  BY DEF SwData
<1> QED
  BY <1>1 DEF Stepped, SwData

LEMMA NotedFields ==
    ASSUME NEW sd \in SwData, NEW t \in Threads \cup {NoThread}
    PROVE  /\ Noted(sd, t) \in SwData
           /\ Noted(sd, t).sec_cnt = sd.sec_cnt /\ Noted(sd, t).op_step = sd.op_step
           /\ Noted(sd, t).wait_resume_slist = sd.wait_resume_slist
           /\ Noted(sd, t).lowest_thread = t
<1>1. [sd EXCEPT !.lowest_thread = t] \in SwData
  BY DEF SwData
<1> QED
  BY <1>1 DEF Noted, SwData

\* What the hook does when a thread of the application comes next.
LEMMA HookToThread ==
    ASSUME NEW sd \in SwData, NEW to \in Threads, NEW yields \in BOOLEAN,
           NEW from \in Threads \cup {Idle, Syswatch},
           sd.op_step = 1 /\ sd.lowest_thread = NoThread => Prio(from) <= Prio(to)
    PROVE  LET r == SwitchHook(sd, from, to, yields) IN
           /\ r \in SwData
           /\ r.wait_resume_slist = sd.wait_resume_slist
           /\ r.op_step = sd.op_step /\ r.sec_cnt = sd.sec_cnt
           /\ sd.op_step # 1 => r = sd
           /\ sd.op_step = 1 =>
                /\ r.lowest_thread \in Threads
                /\ \/ r.lowest_thread = to
                   \/ r.lowest_thread = sd.lowest_thread
                   \/ r.lowest_thread = from /\ yields /\ Prio(from) = Prio(to)
                /\ sd.lowest_thread \in Threads =>
                     Prio(sd.lowest_thread) <= Prio(r.lowest_thread)
                /\ Prio(from) <= Prio(to) => Prio(to) <= Prio(r.lowest_thread)
<1> DEFINE r == SwitchHook(sd, from, to, yields)
           low == sd.lowest_thread
           n == LowestThread(sd, from, to, yields)
<1>1. /\ Prio(to) \in 1 .. PriorityMax - 2 /\ Prio(to) # PriorityMax - 1
      /\ Prio(from) \in Nat
      /\ low \in Threads => Prio(low) \in 1 .. PriorityMax - 2
      /\ Prio(from) = Prio(to) => from \in Threads
  BY PrioRange
<1>2. low \in Threads \cup {NoThread} /\ NoThread \notin Threads
  BY SysWatchAssumption DEF SwData
<1>3. CASE Prio(from) > Prio(to)
  <2>1. r = sd
    BY <1>3 DEF SwitchHook
  <2>2. sd.op_step = 1 => low \in Threads
    BY <1>1, <1>2, <1>3
  <2> QED
    BY <1>1, <1>3, <2>1, <2>2
<1>4. CASE Prio(from) <= Prio(to) /\ sd.op_step # 1
  <2>1. r = sd
    BY <1>1, <1>4 DEF SwitchHook
  <2> QED
    BY <1>4, <2>1
<1>5. CASE Prio(from) <= Prio(to) /\ sd.op_step = 1
  <2>1. r = Noted(sd, n)
    BY <1>1, <1>5 DEF SwitchHook, Noted
  <2>2. /\ n \in Threads
        /\ n = to \/ n = low \/ (n = from /\ yields /\ Prio(from) = Prio(to))
        /\ low \in Threads => Prio(low) <= Prio(n)
        /\ Prio(to) <= Prio(n)
    <3>1. CASE low = NoThread
      BY <1>1, <1>2, <3>1 DEF LowestThread
    <3>2. CASE low \in Threads
      BY <1>1, <1>2, <3>2 DEF LowestThread
    <3> QED
      BY <1>2, <3>1, <3>2
  <2>3. /\ r \in SwData /\ r.lowest_thread = n /\ r.op_step = sd.op_step
        /\ r.sec_cnt = sd.sec_cnt /\ r.wait_resume_slist = sd.wait_resume_slist
    BY <2>1, <2>2, NotedFields
  <2> QED
    BY <1>5, <2>2, <2>3
<1> QED
  BY <1>1, <1>3, <1>4, <1>5

\* What the hook does when idle comes next.
LEMMA HookToIdle ==
    ASSUME NEW sd \in SwData, NEW yields \in BOOLEAN, mode \in 0 .. 2,
           NEW from \in Threads \cup {Idle, Syswatch},
           mode # 2 => sd.op_step # 2
    PROVE  LET r == SwitchHook(sd, from, Idle, yields) IN
           /\ r \in SwData
           /\ r.wait_resume_slist = sd.wait_resume_slist
           /\ r.op_step # 1
           /\ r.op_step = 0 => r.sec_cnt = 0
           /\ sd.op_step = 2 => r.op_step = 2 /\ r.sec_cnt = sd.sec_cnt
           /\ sd.op_step = 0 => r.op_step = 0
           /\ sd.op_step = 1 /\ mode = 2 =>
                (r.op_step = 2 <=> sd.wait_resume_slist # <<>>)
           /\ mode # 2 => r.op_step = 0
<1> DEFINE r == SwitchHook(sd, from, Idle, yields)
<1>1. r = ToIdle(sd)
  BY PrioRange DEF SwitchHook
<1>2. sd.op_step = 0 \/ sd.op_step = 1 \/ sd.op_step = 2
  BY DEF SwData
<1>3. CASE mode # 2
  <2>1. r = Stepped(sd, 0, 0)
    BY <1>1, <1>3 DEF ToIdle, Stepped
  <2>2. r \in SwData /\ r.op_step = 0 /\ r.sec_cnt = 0
        /\ r.wait_resume_slist = sd.wait_resume_slist
    BY <2>1, Zero, SteppedFields
  <2> QED
    BY <1>3, <2>2
<1>4. CASE mode = 2 /\ sd.op_step = 0
  BY <1>1, <1>4, Zero DEF ToIdle, SwData
<1>5. CASE mode = 2 /\ sd.op_step = 1
  <2>1. CASE sd.wait_resume_slist = <<>>
    <3>1. r = Stepped(sd, 0, 0)
      BY <1>1, <1>5, <2>1 DEF ToIdle, Stepped
    <3>2. r \in SwData /\ r.op_step = 0 /\ r.sec_cnt = 0
          /\ r.wait_resume_slist = sd.wait_resume_slist
      BY <3>1, Zero, SteppedFields
    <3> QED
      BY <1>5, <2>1, <3>2
  <2>2. CASE sd.wait_resume_slist # <<>>
    <3>1. r = Stepped(sd, 0, 2)
      BY <1>1, <1>5, <2>2 DEF ToIdle, Stepped
    <3>2. r \in SwData /\ r.op_step = 2 /\ r.sec_cnt = 0
          /\ r.wait_resume_slist = sd.wait_resume_slist
      BY <3>1, Zero, SteppedFields
    <3> QED
      BY <1>5, <2>2, <3>2
  <2> QED
    BY <2>1, <2>2
<1>6. CASE mode = 2 /\ sd.op_step = 2
  BY <1>1, <1>6, Zero DEF ToIdle, SwData
<1> QED
  BY <1>2, <1>3, <1>4, <1>5, <1>6

---------------------------------------------------------------------------
(***************************************************************************)
(* The list and the step agree; nothing is ever on the list in modes 0, 1. *)
(***************************************************************************)
ListOK(sd) ==
    /\ sd.op_step = 0 => sd.wait_resume_slist = <<>>
    /\ sd.op_step = 2 => sd.wait_resume_slist # <<>>
    /\ mode # 2 => sd.wait_resume_slist = <<>> /\ sd.op_step # 2

\* What a switch from from to to makes of sd.
Outcome(sd, r, from, to, yields) ==
    /\ r \in SwData /\ ListOK(r)
    /\ r.wait_resume_slist = sd.wait_resume_slist
    /\ r.op_step = 1 =>
         /\ sd.op_step = 1 /\ to \in Threads /\ r.lowest_thread \in Threads
         /\ \/ r.lowest_thread = to
            \/ r.lowest_thread = sd.lowest_thread
            \/ r.lowest_thread = from /\ yields /\ Prio(from) = Prio(to)
         /\ sd.lowest_thread \in Threads => Prio(sd.lowest_thread) <= Prio(r.lowest_thread)
         /\ Prio(from) <= Prio(to) => Prio(to) <= Prio(r.lowest_thread)
    /\ to = Idle /\ r.op_step = 0 => r.sec_cnt = 0
    /\ sd.op_step = 2 => r.op_step = 2 /\ r.sec_cnt = sd.sec_cnt
    /\ to \in Threads => r.op_step = sd.op_step /\ r.sec_cnt = sd.sec_cnt

LEMMA HookOutcome ==
    ASSUME NEW sd \in SwData, NEW to \in Threads \cup {Idle}, NEW yields \in BOOLEAN,
           NEW from \in Threads \cup {Idle, Syswatch},
           mode \in 0 .. 2, ListOK(sd),
           sd.op_step = 1 /\ sd.lowest_thread = NoThread => Prio(from) <= Prio(to)
    PROVE  Outcome(sd, SwitchHook(sd, from, to, yields), from, to, yields)
<1> DEFINE r == SwitchHook(sd, from, to, yields)
<1>1. CASE to \in Threads
  <2>1. to # Idle
    BY <1>1, ThreadsAssumption
  <2>2. /\ r \in SwData
        /\ r.wait_resume_slist = sd.wait_resume_slist
        /\ r.op_step = sd.op_step /\ r.sec_cnt = sd.sec_cnt
        /\ sd.op_step = 1 =>
             /\ r.lowest_thread \in Threads
             /\ \/ r.lowest_thread = to
                \/ r.lowest_thread = sd.lowest_thread
                \/ r.lowest_thread = from /\ yields /\ Prio(from) = Prio(to)
             /\ sd.lowest_thread \in Threads =>
                  Prio(sd.lowest_thread) <= Prio(r.lowest_thread)
             /\ Prio(from) <= Prio(to) => Prio(to) <= Prio(r.lowest_thread)
    BY <1>1, HookToThread
  <2>3. ListOK(r)
    BY <2>2 DEF ListOK
  <2> HIDE DEF r
  <2>4. Outcome(sd, r, from, to, yields)
    BY <1>1, <2>1, <2>2, <2>3 DEF Outcome
  <2> QED
    BY <2>4 DEF r
<1>2. CASE to = Idle
  <2>1. /\ r \in SwData
        /\ r.wait_resume_slist = sd.wait_resume_slist
        /\ r.op_step # 1
        /\ r.op_step = 0 => r.sec_cnt = 0
        /\ sd.op_step = 2 => r.op_step = 2 /\ r.sec_cnt = sd.sec_cnt
        /\ sd.op_step = 0 => r.op_step = 0
        /\ sd.op_step = 1 /\ mode = 2 =>
             (r.op_step = 2 <=> sd.wait_resume_slist # <<>>)
        /\ mode # 2 => r.op_step = 0
    BY <1>2, HookToIdle DEF ListOK
  <2>2. sd.op_step = 0 \/ sd.op_step = 1 \/ sd.op_step = 2
    BY DEF SwData
  <2> HIDE DEF r
  <2>3. ListOK(r)
    BY <2>1, <2>2 DEF ListOK
  <2>4. Idle \notin Threads
    BY ThreadsAssumption
  <2>5. Outcome(sd, r, from, to, yields)
    BY <1>2, <2>1, <2>3, <2>4 DEF Outcome
  <2> QED
    BY <2>5 DEF r
<1> QED
  BY <1>1, <1>2

LEMMA CandidateFacts ==
    ASSUME NEW st \in [Threads -> Stat], NEW to \in Candidates(st)
    PROVE  /\ to \in Threads \cup {Idle}
           /\ to \in Threads =>
                st[to] = "ready" /\ \A u \in Ready(st) : Prio(to) <= Prio(u)
           /\ to = Idle => Ready(st) = {}
<1>1. CASE Ready(st) = {}
  BY <1>1, ThreadsAssumption DEF Candidates
<1>2. CASE Ready(st) # {}
  <2>1. to \in Threads /\ st[to] = "ready" /\ \A u \in Ready(st) : Priority[to] <= Priority[u]
    BY <1>2 DEF Candidates, Ready
  <2>2. Ready(st) \subseteq Threads
    BY DEF Ready
  <2> QED
    BY <2>1, <2>2, PrioRange, ThreadsAssumption
<1> QED
  BY <1>1, <1>2

---------------------------------------------------------------------------
(***************************************************************************)
(* The inductive invariant.  The running thread is as urgent as any ready  *)
(* one, and who hangs is ready.  While syswatch confirms, the thread it    *)
(* has noted is not killed yet and no more urgent than the running one,    *)
(* and once a second has had slack, no more urgent than one that hangs.    *)
(***************************************************************************)
SchedulerOK ==
    /\ current \in Threads =>
         stat[current] = "ready" /\ \A u \in Ready(stat) : Prio(current) <= Prio(u)
    /\ current = Idle => Ready(stat) = {}
    /\ \A h \in hung : stat[h] = "ready"

NotedOK ==
    sw_data.op_step = 1 =>
      /\ current \in Threads /\ sw_data.lowest_thread \in Threads
      /\ stat[sw_data.lowest_thread] # "killed"
      /\ Prio(current) <= Prio(sw_data.lowest_thread)
      /\ slack => \E h \in hung : Prio(h) <= Prio(sw_data.lowest_thread)

Once(s) == \A i, j \in DOMAIN s : s[i] = s[j] => i = j

On(s) == {s[i] : i \in DOMAIN s}

Remembered(s, st, k) ==
    /\ Once(s)
    /\ \A t \in On(s) : st[t] = "killed"
    /\ mode = 2 /\ k = 0 => \A t \in Threads : st[t] = "killed" => t \in On(s)

Inv ==
    /\ TypeOK /\ SchedulerOK /\ NotedOK /\ ListOK(sw_data)
    /\ Remembered(sw_data.wait_resume_slist, stat, nomem)

LEMMA InvImplies == Inv => NoneForgotten
BY DEF Inv, NoneForgotten, ListOK, Remembered, Once, On, Waiting

LEMMA ModeType == TypeOK => mode \in 0 .. 2
BY SysWatchAssumption DEF TypeOK

\* An action of the application that switches to another thread.
LEMMA SwitchKeeps ==
    ASSUME Inv, NEW to, NEW yields \in BOOLEAN, Switch(to, yields),
           stat' \in [Threads -> Stat], to \in Candidates(stat'),
           \A h \in hung : stat'[h] = "ready",
           \A t \in Threads : stat'[t] = "killed" <=> stat[t] = "killed",
           Undamaged, UNCHANGED <<hung, mode, hangs, nomem>>
    PROVE  Inv'
<1> DEFINE sd == sw_data
           r == sw_data'
<1>1. /\ TypeOK /\ SchedulerOK /\ NotedOK /\ ListOK(sd)
      /\ Remembered(sd.wait_resume_slist, stat, nomem)
      /\ mode \in 0 .. 2 /\ sd \in SwData /\ current \in Threads \cup {Idle}
      /\ stat \in [Threads -> Stat] /\ hung \in SUBSET Threads
  BY ModeType DEF Inv, TypeOK, KernelTypeOK
<1>2. /\ to \in Threads \cup {Idle}
      /\ to \in Threads =>
           stat'[to] = "ready" /\ \A u \in Ready(stat') : Prio(to) <= Prio(u)
      /\ to = Idle => Ready(stat') = {}
  BY CandidateFacts
<1>3. current' = to /\ slack' = (slack \/ to \in hung \cup {Idle})
  BY DEF Switch
<1>4. Outcome(sd, r, current, to, yields)
  <2>1. sd.op_step = 1 /\ sd.lowest_thread = NoThread => Prio(current) <= Prio(to)
    BY <1>1, SysWatchAssumption DEF NotedOK
  <2>2. r = SwitchHook(sd, current, to, yields)
    BY DEF Switch
  <2> QED
    BY <1>1, <1>2, <2>1, <2>2, HookOutcome
<1>5. TypeOK'
  <2>1. damaged' \in BOOLEAN
    BY DEF Undamaged
  <2> QED
    BY <1>1, <1>2, <1>3, <1>4, <2>1 DEF TypeOK, KernelTypeOK, Outcome
<1>6. SchedulerOK'
  BY <1>2, <1>3, ThreadsAssumption DEF SchedulerOK
<1>7. ListOK(sw_data)'
  BY <1>4 DEF Outcome, ListOK
<1>8. Remembered(sw_data.wait_resume_slist, stat, nomem)'
  <2>1. r.wait_resume_slist = sd.wait_resume_slist
    BY <1>4 DEF Outcome
  <2>2. On(sd.wait_resume_slist) \subseteq Threads
    BY <1>1 DEF On, SwData
  <2> QED
    BY <1>1, <2>1, <2>2 DEF Remembered
<1>9. NotedOK'
  <2> SUFFICES ASSUME r.op_step = 1
               PROVE  /\ to \in Threads /\ r.lowest_thread \in Threads
                      /\ stat'[r.lowest_thread] # "killed"
                      /\ Prio(to) <= Prio(r.lowest_thread)
                      /\ slack' => \E h \in hung : Prio(h) <= Prio(r.lowest_thread)
    BY <1>3 DEF NotedOK
  <2>1. /\ sd.op_step = 1 /\ to \in Threads /\ r.lowest_thread \in Threads
        /\ \/ r.lowest_thread = to
           \/ r.lowest_thread = sd.lowest_thread
           \/ r.lowest_thread = current /\ yields /\ Prio(current) = Prio(to)
        /\ sd.lowest_thread \in Threads => Prio(sd.lowest_thread) <= Prio(r.lowest_thread)
        /\ Prio(current) <= Prio(to) => Prio(to) <= Prio(r.lowest_thread)
    BY <1>4 DEF Outcome
  <2>2. /\ current \in Threads /\ sd.lowest_thread \in Threads
        /\ stat[sd.lowest_thread] # "killed" /\ stat[current] = "ready"
        /\ Prio(current) <= Prio(sd.lowest_thread)
        /\ slack => \E h \in hung : Prio(h) <= Prio(sd.lowest_thread)
    BY <1>1, <2>1 DEF NotedOK, SchedulerOK
  <2>3. \A t \in Threads : Prio(t) \in Nat
    BY PrioRange
  <2>4. Prio(to) <= Prio(r.lowest_thread)
    BY <2>1, <2>2, <2>3
  <2>5. stat'[r.lowest_thread] # "killed"
    BY <1>2, <2>1, <2>2
  <2>6. ASSUME slack' PROVE \E h \in hung : Prio(h) <= Prio(r.lowest_thread)
    <3>1. to # Idle
      BY <2>1, ThreadsAssumption
    <3>2. CASE to \in hung
      BY <2>4, <3>2
    <3>3. CASE slack
      <4>1. PICK h \in hung : Prio(h) <= Prio(sd.lowest_thread)
        BY <2>2, <3>3
      <4>2. Prio(h) <= Prio(r.lowest_thread)
        BY <1>1, <2>1, <2>2, <2>3, <4>1
      <4> QED
        BY <4>2
    <3> QED
      BY <1>3, <2>6, <3>1, <3>2, <3>3
  <2> QED
    BY <2>1, <2>4, <2>5, <2>6
<1> QED
  BY <1>5, <1>6, <1>7, <1>8, <1>9 DEF Inv

\* The second is over, and another thread or idle has the processor.
Delayed(sd) ==
    /\ slack' = (current' \in hung' \cup {Idle})
    /\ Outcome(sd, sw_data', Syswatch, current', FALSE)

\* What one second of syswatch_thread_entry has to leave when it delays.
LEMMA DelayKeeps ==
    ASSUME Inv, NEW sd \in SwData, NEW st \in [Threads -> Stat], NEW hg \in SUBSET Threads,
           Delay(sd, st, hg), mode' = mode, damaged' = FALSE,
           hangs' \in 0 .. MaxHangs, nomem' \in 0 .. MaxNoMem,
           ListOK(sd), Remembered(sd.wait_resume_slist, st, nomem'),
           sd.lowest_thread \in Threads => st[sd.lowest_thread] # "killed" \/ sd.op_step # 1,
           \A h \in hg : st[h] = "ready"
    PROVE  /\ Inv'
           /\ hung' = hg /\ stat' = Rested(st)
           /\ Delayed(sd)
<1> DEFINE r == sw_data'
<1>1. PICK to \in Candidates(stat') :
        /\ current' = to
        /\ r = SwitchHook(sd, Syswatch, to, FALSE)
        /\ slack' = (to \in hg \cup {Idle})
  BY DEF Delay
<1>2. stat' = Rested(st) /\ hung' = hg
  BY DEF Delay
<1>3. stat' \in [Threads -> Stat] /\ (\A t \in Threads : stat'[t] = "killed" <=> st[t] = "killed")
      /\ (\A t \in Threads : st[t] = "ready" => stat'[t] = "ready")
  BY <1>2 DEF Rested, Stat
<1>4. /\ to \in Threads \cup {Idle}
      /\ to \in Threads =>
           stat'[to] = "ready" /\ \A u \in Ready(stat') : Prio(to) <= Prio(u)
      /\ to = Idle => Ready(stat') = {}
  BY <1>1, <1>3, CandidateFacts
<1>5. mode \in 0 .. 2 /\ TypeOK
  BY ModeType DEF Inv
<1>6. \A t \in Threads \cup {Idle} : 0 <= Prio(t) /\ Prio(t) \in Nat
  BY PrioRange
<1>7. Outcome(sd, r, Syswatch, to, FALSE)
  BY <1>1, <1>4, <1>5, <1>6, PrioRange, HookOutcome
<1>8. TypeOK'
  <2>1. KernelTypeOK'
    BY <1>1, <1>2, <1>3, <1>4 DEF KernelTypeOK
  <2>2. sw_data' \in SwData
    BY <1>7 DEF Outcome
  <2>3. damaged' \in BOOLEAN
    OBVIOUS
  <2> QED
    BY <1>5, <2>1, <2>2, <2>3 DEF TypeOK
<1>9. SchedulerOK'
  BY <1>1, <1>2, <1>3, <1>4, ThreadsAssumption DEF SchedulerOK
<1>10. ListOK(sw_data)'
  BY <1>7 DEF Outcome, ListOK
<1>11. Remembered(sw_data.wait_resume_slist, stat, nomem)'
  <2>1. r.wait_resume_slist = sd.wait_resume_slist
    BY <1>7 DEF Outcome
  <2>2. On(sd.wait_resume_slist) \subseteq Threads
    BY DEF On, SwData
  <2> QED
    BY <1>3, <2>1, <2>2 DEF Remembered
<1>12. NotedOK'
  <2> SUFFICES ASSUME r.op_step = 1
               PROVE  /\ to \in Threads /\ r.lowest_thread \in Threads
                      /\ stat'[r.lowest_thread] # "killed"
                      /\ Prio(to) <= Prio(r.lowest_thread)
                      /\ slack' => \E h \in hg : Prio(h) <= Prio(r.lowest_thread)
    BY <1>1, <1>2 DEF NotedOK
  <2>1. /\ sd.op_step = 1 /\ to \in Threads /\ r.lowest_thread \in Threads
        /\ r.lowest_thread = to \/ r.lowest_thread = sd.lowest_thread
        /\ Prio(Syswatch) <= Prio(to) => Prio(to) <= Prio(r.lowest_thread)
    BY <1>7 DEF Outcome
  <2>2. Prio(to) <= Prio(r.lowest_thread)
    BY <1>6, <2>1, PrioRange
  <2>3. stat'[r.lowest_thread] # "killed"
    BY <1>3, <1>4, <2>1
  <2>4. slack' => to \in hg
    BY <1>1, <2>1, ThreadsAssumption
  <2> QED
    BY <2>1, <2>2, <2>3, <2>4
<1> QED
  BY <1>1, <1>2, <1>7, <1>8, <1>9, <1>10, <1>11, <1>12 DEF Inv, Delayed
---------------------------------------------------------------------------
LEMMA InvInit == Init => Inv
<1> SUFFICES ASSUME Init PROVE Inv
  OBVIOUS
<1>1. sw_data \in SwData /\ sw_data.op_step = 0 /\ sw_data.wait_resume_slist = <<>>
  BY Zero DEF Init, Started, SwData
<1>2. TypeOK
  <2>1. damaged \in BOOLEAN
    BY DEF Init
  <2> QED
    BY <1>1, <2>1, SysWatchAssumption DEF Init, Started, TypeOK, KernelTypeOK, Stat
<1>3. SchedulerOK
  BY ThreadsAssumption DEF Init, Started, SchedulerOK, Ready
<1>4. NotedOK /\ ListOK(sw_data)
  BY <1>1, SysWatchAssumption DEF NotedOK, ListOK
<1>5. Remembered(sw_data.wait_resume_slist, stat, nomem)
  BY <1>1 DEF Init, Started, Remembered, Once, On
<1> QED
  BY <1>2, <1>3, <1>4, <1>5 DEF Inv

LEMMA WakeKeeps == ASSUME Inv, NEW t \in Threads, Wake(t) PROVE Inv'
<1>1. /\ stat \in [Threads -> Stat] /\ current \in Threads \cup {Idle}
      /\ hung \in SUBSET Threads
      /\ stat[t] = "suspend" /\ stat' = [stat EXCEPT ![t] = "ready"]
      /\ Undamaged /\ damaged' \in BOOLEAN /\ UNCHANGED <<hung, mode, hangs, nomem>>
  BY DEF Inv, TypeOK, KernelTypeOK, Wake, Undamaged
<1>2. /\ stat' \in [Threads -> Stat]
      /\ \A u \in Threads : stat'[u] = "killed" <=> stat[u] = "killed"
      /\ \A u \in Threads : stat[u] = "ready" => stat'[u] = "ready"
      /\ Ready(stat') = Ready(stat) \cup {t}
  BY <1>1 DEF Stat, Ready
<1>3. \A h \in hung : stat'[h] = "ready"
  BY <1>1, <1>2 DEF Inv, SchedulerOK
<1>4. SchedulerOK /\ Ready(stat) \subseteq Threads
  BY DEF Inv, Ready
<1>5. \A u \in Threads \cup {Idle} : Prio(u) \in Nat
  BY PrioRange
<1>6. CASE Prio(t) < Prio(current)
  <2>1. Switch(t, TRUE)
    BY <1>6 DEF Wake
  <2>2. \A u \in Ready(stat) : Prio(t) <= Prio(u)
    BY <1>1, <1>4, <1>5, <1>6 DEF SchedulerOK
  <2>3. t \in Candidates(stat')
    BY <1>2, <1>4, <1>5, <2>2, PrioRange DEF Candidates
  <2> QED
    BY <1>1, <1>2, <1>3, <2>1, <2>3, SwitchKeeps
<1>7. CASE ~(Prio(t) < Prio(current))
  <2>1. UNCHANGED <<current, sw_data, slack>>
    BY <1>7 DEF Wake
  <2>2. Prio(current) <= Prio(t) /\ current \in Threads
    BY <1>1, <1>5, <1>7, PrioRange
  <2>3. TypeOK'
    BY <1>1, <1>2, <2>1 DEF Inv, TypeOK, KernelTypeOK
  <2>4. SchedulerOK'
    BY <1>1, <1>2, <1>3, <1>4, <2>1, <2>2, ThreadsAssumption DEF SchedulerOK
  <2>5. NotedOK'
    BY <1>1, <1>2, <2>1 DEF Inv, NotedOK
  <2>6. ListOK(sw_data)'
    BY <1>1, <2>1 DEF Inv, ListOK
  <2>7. On(sw_data.wait_resume_slist) \subseteq Threads
    BY DEF Inv, TypeOK, On, SwData
  <2>8. Remembered(sw_data.wait_resume_slist, stat, nomem)'
    BY <1>1, <1>2, <2>1, <2>7 DEF Inv, Remembered
  <2> QED
    BY <2>3, <2>4, <2>5, <2>6, <2>8 DEF Inv
<1> QED
  BY <1>6, <1>7

LEMMA LeavesKeeps == ASSUME Inv, NEW s \in {"rest", "close"}, Leaves(s) PROVE Inv'
<1>1. /\ stat \in [Threads -> Stat] /\ current \in Threads \ hung
      /\ hung \in SUBSET Threads
      /\ stat' = [stat EXCEPT ![current] = s]
      /\ Undamaged /\ UNCHANGED <<hung, mode, hangs, nomem>>
  BY DEF Inv, TypeOK, KernelTypeOK, Leaves
<1>2. stat[current] = "ready" /\ \A h \in hung : stat[h] = "ready"
  BY <1>1 DEF Inv, SchedulerOK
<1>3. /\ stat' \in [Threads -> Stat]
      /\ \A u \in Threads : stat'[u] = "killed" <=> stat[u] = "killed"
      /\ \A h \in hung : stat'[h] = "ready"
  BY <1>1, <1>2 DEF Stat
<1>4. PICK to \in Candidates(stat') : Switch(to, FALSE)
  BY DEF Leaves
<1> QED
  BY <1>1, <1>3, <1>4, SwitchKeeps

LEMMA SliceKeeps == ASSUME Inv, Slice PROVE Inv'
<1>1. PICK to \in Candidates(stat) : Switch(to, TRUE)
  BY DEF Slice
<1>2. /\ stat \in [Threads -> Stat] /\ stat' = stat
      /\ Undamaged /\ UNCHANGED <<hung, mode, hangs, nomem>>
      /\ \A h \in hung : stat[h] = "ready"
  BY DEF Inv, TypeOK, KernelTypeOK, Slice, SchedulerOK
<1> QED
  BY <1>1, <1>2, SwitchKeeps

LEMMA HangKeeps == ASSUME Inv, Hang PROVE Inv'
<1>1. /\ current \in Threads /\ hung' = hung \cup {current}
      /\ hangs \in 0 .. MaxHangs /\ hangs < MaxHangs /\ hangs' = hangs + 1
      /\ slack' = TRUE /\ damaged' \in BOOLEAN
      /\ UNCHANGED <<stat, current, mode, sw_data, nomem>>
  BY DEF Hang, Inv, TypeOK, Undamaged
<1>2. TypeOK'
  BY <1>1, SysWatchAssumption DEF Inv, TypeOK, KernelTypeOK
<1>3. SchedulerOK'
  BY <1>1 DEF Inv, SchedulerOK
<1>4. NotedOK'
  BY <1>1 DEF Inv, NotedOK
<1>5. ListOK(sw_data)' /\ Remembered(sw_data.wait_resume_slist, stat, nomem)'
  BY <1>1 DEF Inv, ListOK, Remembered
<1> QED
  BY <1>2, <1>3, <1>4, <1>5 DEF Inv

LEMMA TimeoutRange ==
    ASSUME NEW k \in 0 .. 2
    PROVE  TimeoutOf(k) \in 1 .. UINT16_MAX
BY SysWatchAssumption, Uint16 DEF TimeoutOf

\* What the guards of a second say of the structure.
LEMMA SecondFacts ==
    ASSUME Inv
    PROVE  /\ sw_data \in SwData /\ stat \in [Threads -> Stat] /\ hung \in SUBSET Threads
           /\ mode \in 0 .. 2 /\ hangs \in 0 .. MaxHangs /\ nomem \in 0 .. MaxNoMem
           /\ ListOK(sw_data) /\ Remembered(sw_data.wait_resume_slist, stat, nomem)
           /\ On(sw_data.wait_resume_slist) \subseteq Threads
           /\ \A h \in hung : stat[h] = "ready"
           /\ ~Expired => sw_data.sec_cnt + 1 \in 0 .. UINT16_MAX
<1>1. sw_data \in SwData
  BY DEF Inv, TypeOK
<1>2. sw_data.sec_cnt \in 0 .. UINT16_MAX /\ sw_data.op_step \in 0 .. 2
  BY <1>1 DEF SwData
<1>3. ~Expired => sw_data.sec_cnt + 1 \in 0 .. UINT16_MAX
  BY <1>2, TimeoutRange, Uint16 DEF Expired
<1> QED
  BY <1>1, <1>3, ModeType DEF Inv, TypeOK, KernelTypeOK, SchedulerOK, On, SwData

LEMMA TickKeeps ==
    ASSUME Inv, Tick
    PROVE  /\ Inv' /\ hung' = hung
           /\ \E sd \in SwData :
                /\ Delayed(sd) /\ sd.op_step = sw_data.op_step
                /\ sd.lowest_thread = sw_data.lowest_thread
                /\ sd.wait_resume_slist = sw_data.wait_resume_slist
                /\ ~Expired => sd.sec_cnt = sw_data.sec_cnt + 1
<1> DEFINE c == IF Expired THEN 0 ELSE sw_data.sec_cnt + 1
           sd == [sw_data EXCEPT !.sec_cnt = c]
<1>1. Delay(sd, stat, hung) /\ damaged' = FALSE /\ UNCHANGED <<mode, hangs, nomem>>
  BY DEF Tick, Undamaged
<1>2. c \in 0 .. UINT16_MAX
  BY SecondFacts, Zero
<1>a. ~Expired => c = sw_data.sec_cnt + 1
  OBVIOUS
<1> HIDE DEF c
<1>3. /\ sd \in SwData /\ sd.sec_cnt = c
      /\ sd.op_step = sw_data.op_step /\ sd.wait_resume_slist = sw_data.wait_resume_slist
      /\ sd.lowest_thread = sw_data.lowest_thread
  BY <1>2, SecondFacts DEF SwData
<1> HIDE DEF sd
<1>4. ListOK(sd) /\ Remembered(sd.wait_resume_slist, stat, nomem')
  BY <1>1, <1>3, SecondFacts DEF ListOK, Remembered
<1>5. sd.lowest_thread \in Threads => stat[sd.lowest_thread] # "killed" \/ sd.op_step # 1
  BY <1>3 DEF Inv, NotedOK
<1> QED
  BY <1>1, <1>a, <1>3, <1>4, <1>5, SecondFacts, DelayKeeps

LEMMA SuspectKeeps ==
    ASSUME Inv, Suspect
    PROVE  /\ Inv' /\ hung' = hung
           /\ \E sd \in SwData : /\ Delayed(sd) /\ sd.lowest_thread = NoThread
                              /\ sd.op_step = 1 /\ sd.sec_cnt = 0
<1> DEFINE sd == [sw_data EXCEPT !.sec_cnt = 0, !.op_step = 1, !.lowest_thread = NoThread]
<1>1. /\ Delay(sd, stat, hung) /\ damaged' = FALSE /\ UNCHANGED <<mode, hangs, nomem>>
      /\ sw_data.op_step = 0
  BY DEF Suspect, Undamaged
<1>2. /\ sd \in SwData
      /\ sd.op_step = 1 /\ sd.wait_resume_slist = sw_data.wait_resume_slist
      /\ sd.lowest_thread = NoThread /\ sd.sec_cnt = 0
  <2>1. sd = Noted(Stepped(sw_data, 0, 1), NoThread)
    BY SecondFacts DEF Noted, Stepped, SwData
  <2>2. /\ Stepped(sw_data, 0, 1) \in SwData
        /\ Stepped(sw_data, 0, 1).op_step = 1 /\ Stepped(sw_data, 0, 1).sec_cnt = 0
        /\ Stepped(sw_data, 0, 1).wait_resume_slist = sw_data.wait_resume_slist
    BY SecondFacts, Zero, SteppedFields
  <2> QED
    BY <2>1, <2>2, NotedFields
<1> HIDE DEF sd
<1>3. ListOK(sd) /\ Remembered(sd.wait_resume_slist, stat, nomem')
  BY <1>1, <1>2, SecondFacts DEF ListOK, Remembered
<1>4. sd.lowest_thread \notin Threads
  BY <1>2, SysWatchAssumption
<1> QED
  BY <1>1, <1>2, <1>3, <1>4, SecondFacts, DelayKeeps

LEMMA ResetKeeps == ASSUME Inv, ResolveReset PROVE Inv'
<1>1. /\ Started' /\ UNCHANGED <<mode, hangs, nomem>> /\ damaged' \in BOOLEAN
  BY DEF ResolveReset, Started, Confirmed, Undamaged
<1>2. /\ sw_data' \in SwData /\ sw_data'.op_step = 0 /\ sw_data'.wait_resume_slist = <<>>
  BY <1>1, Zero DEF Started, SwData
<1>3. TypeOK'
  BY <1>1, <1>2 DEF Inv, Started, TypeOK, KernelTypeOK, Stat
<1>4. SchedulerOK'
  BY <1>1, ThreadsAssumption DEF Started, SchedulerOK, Ready
<1>5. NotedOK' /\ ListOK(sw_data)'
  BY <1>2 DEF NotedOK, ListOK
<1>6. Remembered(sw_data.wait_resume_slist, stat, nomem)'
  BY <1>1, <1>2 DEF Started, Remembered, Once, On
<1> QED
  BY <1>3, <1>4, <1>5, <1>6 DEF Inv

LEMMA AppendOnce ==
    ASSUME NEW s \in Seq(Threads), NEW t \in Threads, Once(s), t \notin On(s)
    PROVE  /\ Append(s, t) \in Seq(Threads)
           /\ Once(Append(s, t))
           /\ On(Append(s, t)) = On(s) \cup {t}
           /\ Append(s, t) # <<>>
<1> DEFINE a == Append(s, t)
<1>1. /\ a \in Seq(Threads) /\ DOMAIN a = 1 .. Len(s) + 1 /\ DOMAIN s = 1 .. Len(s)
      /\ Len(s) \in Nat
      /\ \A i \in 1 .. Len(s) : a[i] = s[i]
      /\ a[Len(s) + 1] = t
      /\ a # <<>>
  OBVIOUS
<1> HIDE DEF a
<1>2. \A i \in 1 .. Len(s) : a[i] # t
  BY <1>1 DEF On
<1>3. Once(a)
  <2> SUFFICES ASSUME NEW i \in 1 .. Len(s) + 1, NEW j \in 1 .. Len(s) + 1, a[i] = a[j]
               PROVE  i = j
    BY <1>1 DEF Once
  <2>1. CASE i \in 1 .. Len(s) /\ j \in 1 .. Len(s)
    BY <1>1, <2>1 DEF Once
  <2>2. CASE i = Len(s) + 1 \/ j = Len(s) + 1
    BY <1>1, <1>2, <2>2
  <2> QED
    BY <1>1, <2>1, <2>2
<1>4. On(a) = On(s) \cup {t}
  <2>1. \A i \in 1 .. Len(s) + 1 : i \in 1 .. Len(s) \/ i = Len(s) + 1
    BY <1>1
  <2>2. \A i \in DOMAIN a : a[i] \in On(s) \cup {t}
    BY <1>1, <2>1 DEF On
  <2>3. \A i \in DOMAIN s : i \in DOMAIN a /\ s[i] = a[i]
    BY <1>1
  <2>4. Len(s) + 1 \in DOMAIN a
    BY <1>1
  <2> QED
    BY <1>1, <2>2, <2>3, <2>4 DEF On
<1> QED
  BY <1>1, <1>3, <1>4 DEF a

\* What the resolution in modes 1 and 2 starts from.
LEMMA KillFacts ==
    ASSUME Inv, ResolveKill
    PROVE  /\ sw_data.op_step = 1 /\ slack
           /\ sw_data.lowest_thread \in Threads
           /\ stat[sw_data.lowest_thread] # "killed"
           /\ sw_data.lowest_thread \notin On(sw_data.wait_resume_slist)
           /\ \E h \in hung : Prio(h) <= Prio(sw_data.lowest_thread)
<1>1. sw_data.op_step = 1 /\ slack
  BY DEF ResolveKill, Confirmed
<1>2. /\ sw_data.lowest_thread \in Threads
      /\ stat[sw_data.lowest_thread] # "killed"
      /\ \E h \in hung : Prio(h) <= Prio(sw_data.lowest_thread)
  BY <1>1 DEF Inv, NotedOK
<1>3. \A t \in On(sw_data.wait_resume_slist) : stat[t] = "killed"
  BY SecondFacts DEF Remembered
<1> QED
  BY <1>1, <1>2, <1>3

\* The thread noted is killed, and the list is slist then.
LEMMA KillLeaves ==
    ASSUME Inv, ResolveKill, NEW slist \in Seq(Threads), Kill(slist),
           mode' = mode, hangs' = hangs, damaged' = FALSE, nomem' \in 0 .. MaxNoMem,
           Once(slist), mode # 2 => slist = <<>>,
           On(slist) \subseteq On(sw_data.wait_resume_slist) \cup {sw_data.lowest_thread},
           mode = 2 /\ nomem' = 0 =>
             nomem = 0 /\ On(slist) = On(sw_data.wait_resume_slist) \cup {sw_data.lowest_thread}
    PROVE  /\ Inv'
           /\ hung' = hung \ {sw_data.lowest_thread}
           /\ \E sd \in SwData : /\ Delayed(sd) /\ sd.lowest_thread = NoThread
                              /\ sd.op_step = 1 /\ sd.sec_cnt = 0
                              /\ sd.wait_resume_slist = slist
           /\ \A t \in Threads : stat'[t] = "killed" <=>
                stat[t] = "killed" \/ t = sw_data.lowest_thread
<1> DEFINE t == sw_data.lowest_thread
           st == [stat EXCEPT ![t] = "killed"]
           hg == hung \ {t}
           sd == [sw_data EXCEPT !.sec_cnt = 0, !.lowest_thread = NoThread,
                                 !.wait_resume_slist = slist]
<1>1. Delay(sd, st, hg)
  BY DEF Kill
<1>2. /\ sd \in SwData /\ sd.op_step = 1 /\ sd.lowest_thread = NoThread
      /\ sd.wait_resume_slist = slist /\ sd.sec_cnt = 0
  BY SecondFacts, KillFacts, Zero DEF SwData
<1> HIDE DEF sd
<1>3. /\ st \in [Threads -> Stat] /\ hg \in SUBSET Threads /\ t \in Threads
      /\ \A h \in hg : st[h] = "ready"
      /\ \A u \in Threads : st[u] = "killed" <=> stat[u] = "killed" \/ u = t
  BY SecondFacts, KillFacts DEF Stat
<1> HIDE DEF st
<1>4. ListOK(sd)
  BY <1>2 DEF ListOK
<1>5. Remembered(sd.wait_resume_slist, st, nomem')
  BY <1>2, <1>3, SecondFacts DEF Remembered
<1>6. sd.lowest_thread \notin Threads
  BY <1>2, SysWatchAssumption
<1>7. hangs' \in 0 .. MaxHangs
  BY SecondFacts
<1>8. /\ Inv' /\ hung' = hg /\ stat' = Rested(st) /\ Delayed(sd)
  BY <1>1, <1>2, <1>3, <1>4, <1>5, <1>6, <1>7, DelayKeeps
<1>9. \A u \in Threads : stat'[u] = "killed" <=> stat[u] = "killed" \/ u = t
  BY <1>3, <1>8 DEF Rested
<1> QED
  BY <1>2, <1>8, <1>9

LEMMA KillKeeps ==
    ASSUME Inv, ResolveKill
    PROVE  /\ Inv' /\ hung' = hung \ {sw_data.lowest_thread}
           /\ \E sd \in SwData : /\ Delayed(sd) /\ sd.lowest_thread = NoThread
                              /\ sd.op_step = 1 /\ sd.sec_cnt = 0
                              /\ On(sw_data.wait_resume_slist) \subseteq
                                   On(sd.wait_resume_slist)
           /\ \A t \in Threads : Kills(t) <=> t = sw_data.lowest_thread
<1> DEFINE s == sw_data.wait_resume_slist
           t == sw_data.lowest_thread
<1>1. /\ s \in Seq(Threads) /\ t \in Threads /\ t \notin On(s) /\ Once(s)
      /\ stat[t] # "killed"
      /\ nomem \in 0 .. MaxNoMem /\ mode \in 0 .. 2
      /\ mode # 2 => s = <<>>
  BY SecondFacts, KillFacts DEF SwData, Remembered, ListOK
<1>2. mode' = mode /\ hangs' = hangs /\ damaged' = FALSE
  BY DEF ResolveKill, Confirmed, Undamaged
<1> HIDE DEF s, t
<1>3. CASE mode = 1 /\ Kill(s) /\ nomem' = nomem
  <2>1. On(s) \subseteq On(s) \cup {t} /\ mode # 2
    BY <1>3
  <2> QED
    BY <1>1, <1>2, <1>3, <2>1, KillLeaves DEF s, t, Kills
<1>4. CASE mode = 2 /\ Kill(Append(s, t)) /\ nomem' = nomem
  <2>1. /\ Append(s, t) \in Seq(Threads) /\ Once(Append(s, t))
        /\ On(Append(s, t)) = On(s) \cup {t}
    BY <1>1, AppendOnce
  <2> QED
    BY <1>1, <1>2, <1>4, <2>1, KillLeaves DEF s, t, Kills
<1>5. CASE mode = 2 /\ nomem < MaxNoMem /\ Kill(s) /\ nomem' = nomem + 1
  <2>1. nomem' \in 0 .. MaxNoMem /\ nomem' # 0
    BY <1>1, <1>5, SysWatchAssumption
  <2> QED
    BY <1>1, <1>2, <1>5, <2>1, KillLeaves DEF s, t, Kills
<1> QED
  BY <1>3, <1>4, <1>5 DEF ResolveKill, s, t

\* The block of a thread that is gone is taken for a thread: all else is as before.
LEMMA MisreadKeeps ==
    ASSUME Inv, ResumeAll, damaged' # FALSE
    PROVE  Inv' /\ damaged' /\ UNCHANGED <<kernel, sw_data, mode, hangs, nomem>>
<1>1. /\ UNCHANGED <<stat, current, hung, slack, sw_data, mode, hangs, nomem>>
      /\ damaged' = TRUE /\ damaged' \in BOOLEAN
  <2>1. damaged = FALSE
    BY DEF Inv, TypeOK, ResumeAll
  <2> QED
    BY <2>1 DEF ResumeAll, Misread, kernel
<1> QED
  BY <1>1 DEF kernel, Inv, TypeOK, KernelTypeOK, SchedulerOK, NotedOK, ListOK, Remembered

LEMMA ResumeKeeps ==
    ASSUME Inv, ResumeAll, damaged' = FALSE
    PROVE  /\ Inv' /\ hung' = hung
           /\ \E sd \in SwData : /\ Delayed(sd) /\ sd.op_step = 0 /\ sd.sec_cnt = 0
                              /\ sd.wait_resume_slist = <<>>
           /\ \A t \in Threads : ~Kills(t)
           /\ (\A t \in Waiting : stat'[t] = "ready") \/ nomem' > nomem
<1> DEFINE sd == [sw_data EXCEPT !.sec_cnt = 0, !.op_step = 0, !.wait_resume_slist = <<>>]
<1>1. PICK failed \in SUBSET Waiting :
        /\ nomem' = IF failed = {} THEN nomem ELSE nomem + 1
        /\ nomem' <= MaxNoMem
        /\ Delay(sd, [t \in Threads |-> IF t \in Waiting \ failed THEN "ready" ELSE stat[t]],
                 hung)
  BY DEF ResumeAll, Misread
<1> DEFINE st == [t \in Threads |-> IF t \in Waiting \ failed THEN "ready" ELSE stat[t]]
<1>2. mode' = mode /\ hangs' = hangs
  BY DEF ResumeAll
<1>3. nomem' \in 0 .. MaxNoMem /\ (nomem' = 0 => failed = {} /\ nomem = 0)
  BY <1>1, SecondFacts, SysWatchAssumption
<1>4. sd \in SwData /\ sd.op_step = 0 /\ sd.wait_resume_slist = <<>> /\ sd.sec_cnt = 0
  <2> DEFINE r == Stepped(sw_data, 0, 0)
  <2>1. sd = [r EXCEPT !.wait_resume_slist = <<>>]
    BY SecondFacts DEF Stepped, SwData
  <2>2. r \in SwData /\ r.op_step = 0 /\ r.sec_cnt = 0
    BY SecondFacts, Zero, SteppedFields
  <2>3. <<>> \in Seq(Threads)
    OBVIOUS
  <2> HIDE DEF r
  <2> QED
    BY <2>1, <2>2, <2>3 DEF SwData
<1> HIDE DEF sd
<1>5. /\ st \in [Threads -> Stat]
      /\ \A t \in Threads : st[t] = "killed" => stat[t] = "killed" /\ t \notin Waiting \ failed
      /\ \A h \in hung : st[h] = "ready"
      /\ \A t \in Threads : t \in Waiting \ failed => st[t] = "ready"
  BY SecondFacts DEF Stat
<1>6. ListOK(sd)
  BY <1>4 DEF ListOK
<1>7. Remembered(sd.wait_resume_slist, st, nomem')
  <2>1. Once(sd.wait_resume_slist) /\ On(sd.wait_resume_slist) = {}
    BY <1>4 DEF Once, On
  <2>2. Waiting = On(sw_data.wait_resume_slist)
    BY DEF Waiting, On
  <2>3. ASSUME mode = 2, nomem' = 0, NEW t \in Threads PROVE st[t] # "killed"
    BY <1>3, <1>5, <2>2, <2>3, SecondFacts DEF Remembered
  <2> QED
    BY <2>1, <2>3 DEF Remembered
<1> HIDE DEF st
<1>8. Delay(sd, st, hung)
  BY <1>1 DEF st
<1>9. Inv' /\ hung' = hung /\ stat' = Rested(st) /\ Delayed(sd)
  <2>1. hung \in SUBSET Threads /\ hangs' \in 0 .. MaxHangs /\ sd.op_step # 1
    BY <1>2, <1>4, SecondFacts
  <2>2. st \in [Threads -> Stat] /\ \A h \in hung : st[h] = "ready"
    BY <1>5
  <2> QED
    BY <1>2, <1>3, <1>4, <1>6, <1>7, <1>8, <2>1, <2>2, DelayKeeps
<1>10. \A t \in Threads : ~Kills(t)
  BY <1>5, <1>9 DEF Rested, Kills
<1>11. ASSUME failed = {}, NEW t \in Waiting PROVE stat'[t] = "ready"
  <2>1. t \in Threads
    BY SecondFacts DEF Waiting, On
  <2> QED
    BY <1>5, <1>9, <1>11, <2>1 DEF Rested
<1>12. failed # {} => nomem' > nomem
  BY <1>1, SecondFacts
<1> QED
  BY <1>4, <1>9, <1>10, <1>11, <1>12
---------------------------------------------------------------------------
LEMMA InvNext == Inv /\ [Next]_vars => Inv'
<1> SUFFICES ASSUME Inv, [Next]_vars PROVE Inv'
  OBVIOUS
<1>1. ASSUME NEW t \in Threads, Wake(t) PROVE Inv'
  BY <1>1, WakeKeeps
<1>2. CASE Block \/ Exit
  BY <1>2, LeavesKeeps DEF Block, Exit
<1>3. CASE Slice
  BY <1>3, SliceKeeps
<1>4. CASE Hang
  BY <1>4, HangKeeps
<1>5. CASE Tick
  BY <1>5, TickKeeps
<1>6. CASE Suspect
  BY <1>6, SuspectKeeps
<1>7. CASE ResolveReset
  BY <1>7, ResetKeeps
<1>8. CASE ResolveKill
  BY <1>8, KillKeeps
<1>9. CASE ResumeAll
  BY <1>9, ResumeKeeps, MisreadKeeps
<1>10. CASE UNCHANGED vars
  BY <1>10 DEF vars, kernel, Inv, TypeOK, KernelTypeOK, SchedulerOK, NotedOK, ListOK,
                Remembered
<1> QED
  BY <1>1, <1>2, <1>3, <1>4, <1>5, <1>6, <1>7, <1>8, <1>9, <1>10 DEF Next, Second

(***************************************************************************)
(* The values of the threads, of the scheduler and of sw_data keep their   *)
(* types (syswatch.c).                                                     *)
(***************************************************************************)
THEOREM SysWatchTypeOK == Spec => []TypeOK
<1>1. Init => Inv
  BY InvInit
<1>2. Inv /\ [Next]_vars => Inv'
  BY InvNext
<1>3. Inv => TypeOK
  BY DEF Inv
<1> QED
  BY <1>1, <1>2, <1>3, PTL DEF Spec

(***************************************************************************)
(* The list of the threads to resume misses no killed thread and holds     *)
(* none twice, and the steps go with it (sw_data.wait_resume_slist).       *)
(***************************************************************************)
THEOREM KilledAreRemembered == Spec => []NoneForgotten
<1>1. Init => Inv
  BY InvInit
<1>2. Inv /\ [Next]_vars => Inv'
  BY InvNext
<1>3. Inv => NoneForgotten
  BY InvImplies
<1> QED
  BY <1>1, <1>2, <1>3, PTL DEF Spec

---------------------------------------------------------------------------
\* Only the resolution in modes 1 and 2 kills, and whom it has noted.
LEMMA KillsNoted ==
    ASSUME Inv, Next, NEW t \in Threads, Kills(t)
    PROVE  ResolveKill /\ t = sw_data.lowest_thread
<1>1. stat \in [Threads -> Stat] /\ stat[t] # "killed" /\ stat'[t] = "killed"
  BY SecondFacts DEF Kills
<1>2. ASSUME NEW u \in Threads, Wake(u) PROVE FALSE
  BY <1>1, <1>2 DEF Wake
<1>3. ~(Block \/ Exit)
  BY <1>1 DEF Block, Exit, Leaves
<1>4. ~Slice /\ ~Hang
  BY <1>1 DEF Slice, Hang
<1>5. ~Tick /\ ~Suspect
  BY <1>1 DEF Tick, Suspect, Delay, Rested
<1>6. ~ResolveReset
  BY <1>1 DEF ResolveReset
<1>7. ~ResumeAll
  BY <1>1, ResumeKeeps, MisreadKeeps DEF kernel
<1>8. ~UNCHANGED vars
  BY <1>1 DEF vars, kernel
<1>9. ResolveKill
  BY <1>2, <1>3, <1>4, <1>5, <1>6, <1>7, <1>8 DEF Next, Second
<1> QED
  BY <1>9, KillKeeps

(***************************************************************************)
(* Whatever the threads, their priorities and the timeouts: nothing more   *)
(* urgent than every thread that hangs is killed                           *)
(* (syswatch_thread_except_resolve_kill).                                  *)
(***************************************************************************)
THEOREM UrgentIsSpared == Spec => MoreUrgentSpared
<1>1. Init => Inv
  BY InvInit
<1>2. Inv /\ [Next]_vars => Inv'
  BY InvNext
<1>3. Inv /\ [Next]_vars =>
        [\A t \in Threads : Kills(t) => \E h \in hung : Prio(h) <= Prio(t)]_vars
  BY KillsNoted, KillFacts
<1> QED
  BY <1>1, <1>2, <1>3, PTL DEF Spec, MoreUrgentSpared

---------------------------------------------------------------------------
(***************************************************************************)
(* The invariant of the only thread that hangs.  As long as nothing hangs  *)
(* idle clears the counter in every second, so that nothing is suspected;  *)
(* from then on nothing less urgent than the hung thread runs or is noted. *)
(***************************************************************************)
Lone ==
    /\ hangs = 0 => hung = {} /\ sw_data.op_step # 1
    /\ sw_data.op_step = 0 /\ hung = {} /\ slack => sw_data.sec_cnt = 0
    /\ \A h \in Threads : sw_data.op_step = 1 /\ hangs = 1 /\ hung = {h} =>
         Prio(sw_data.lowest_thread) <= Prio(h)

\* Who runs is as urgent as the hung thread.
LEMMA CurrentUrgent ==
    ASSUME Inv', NEW h \in hung'
    PROVE  current' \in Threads /\ Prio(current') <= Prio(h)
<1>1. /\ hung' \subseteq Threads /\ current' \in Threads \cup {Idle}
      /\ stat'[h] = "ready" /\ (current' = Idle => Ready(stat') = {})
      /\ current' \in Threads => \A u \in Ready(stat') : Prio(current') <= Prio(u)
  BY DEF Inv, SchedulerOK, TypeOK, KernelTypeOK
<1>2. h \in Ready(stat')
  BY <1>1 DEF Ready
<1> QED
  BY <1>1, <1>2

LEMMA LoneSwitch ==
    ASSUME Inv, Inv', Lone, NEW to, NEW yields \in BOOLEAN, Switch(to, yields),
           UNCHANGED <<hung, hangs>>
    PROVE  Lone'
<1>1. /\ current \in Threads \cup {Idle} /\ to \in Threads \cup {Idle}
      /\ sw_data \in SwData /\ ListOK(sw_data) /\ mode \in 0 .. 2 /\ current' = to
      /\ slack \in BOOLEAN /\ hung \subseteq Threads
  BY ModeType DEF Inv, TypeOK, KernelTypeOK, Switch
<1>2. sw_data.op_step = 1 => sw_data.lowest_thread \in Threads
  BY DEF Inv, NotedOK
<1>3. Outcome(sw_data, sw_data', current, to, yields)
  <2>1. sw_data' = SwitchHook(sw_data, current, to, yields)
    BY DEF Switch
  <2> QED
    BY <1>1, <1>2, <2>1, SysWatchAssumption, HookOutcome
<1>4. (hangs = 0 => hung = {} /\ sw_data.op_step # 1)'
  BY <1>3 DEF Lone, Outcome
<1>5. (sw_data.op_step = 0 /\ hung = {} /\ slack => sw_data.sec_cnt = 0)'
  <2> SUFFICES ASSUME sw_data'.op_step = 0, hung = {}, slack'
               PROVE  sw_data'.sec_cnt = 0
    OBVIOUS
  <2>1. CASE to = Idle
    BY <1>3, <2>1 DEF Outcome
  <2>2. CASE to \in Threads
    <3>1. slack
      BY <1>1, <2>2, ThreadsAssumption DEF Switch
    <3> QED
      BY <1>3, <2>2, <3>1 DEF Outcome, Lone
  <2> QED
    BY <1>1, <2>1, <2>2
<1>6. ASSUME NEW h \in Threads, sw_data'.op_step = 1, hangs = 1, hung = {h}
      PROVE  Prio(sw_data'.lowest_thread) <= Prio(h)
  <2>1. Prio(to) <= Prio(h)
    BY <1>1, <1>6, CurrentUrgent
  <2>2. sw_data.op_step = 1 /\ Prio(sw_data.lowest_thread) <= Prio(h)
    BY <1>3, <1>6 DEF Outcome, Lone
  <2> QED
    BY <1>3, <1>6, <2>1, <2>2 DEF Outcome
<1> QED
  BY <1>4, <1>5, <1>6 DEF Lone

LEMMA LoneDelay ==
    ASSUME Inv, Inv', NEW sd \in SwData, Delayed(sd),
           hangs' = 0 => hung' = {} /\ sd.op_step # 1,
           sd.op_step = 1 /\ sd.lowest_thread # NoThread =>
             \A h \in Threads : hangs' = 1 /\ hung' = {h} => Prio(sd.lowest_thread) <= Prio(h)
    PROVE  Lone'
<1>1. /\ current' \in Threads \cup {Idle} /\ NoThread \notin Threads
      /\ slack' = (current' \in hung' \cup {Idle})
      /\ Outcome(sd, sw_data', Syswatch, current', FALSE)
  BY SysWatchAssumption DEF Inv, TypeOK, KernelTypeOK, Delayed
<1>2. (hangs = 0 => hung = {} /\ sw_data.op_step # 1)'
  BY <1>1 DEF Outcome
<1>3. (sw_data.op_step = 0 /\ hung = {} /\ slack => sw_data.sec_cnt = 0)'
  BY <1>1 DEF Outcome
<1>4. ASSUME NEW h \in Threads, sw_data'.op_step = 1, hangs' = 1, hung' = {h}
      PROVE  Prio(sw_data'.lowest_thread) <= Prio(h)
  <2>1. Prio(current') <= Prio(h)
    BY <1>4, CurrentUrgent
  <2>2. /\ sd.op_step = 1 /\ sw_data'.lowest_thread \in Threads
        /\ sw_data'.lowest_thread = current' \/ sw_data'.lowest_thread = sd.lowest_thread
    BY <1>1, <1>4 DEF Outcome
  <2> QED
    BY <1>1, <1>4, <2>1, <2>2
<1> QED
  BY <1>2, <1>3, <1>4 DEF Lone

LEMMA LoneInit == Init => Lone
BY DEF Init, Started, Lone

LEMMA LoneNext == Inv /\ Lone /\ [Next]_vars => Lone'
<1> SUFFICES ASSUME Inv, Lone, [Next]_vars PROVE Lone'
  OBVIOUS
<1>0. Inv'
  BY InvNext
<1>1. ASSUME NEW t \in Threads, Wake(t) PROVE Lone'
  <2>1. UNCHANGED <<hung, hangs>>
    BY <1>1 DEF Wake
  <2>2. CASE Switch(t, TRUE)
    BY <1>0, <2>1, <2>2, LoneSwitch
  <2>3. CASE UNCHANGED <<current, sw_data, slack>>
    BY <2>1, <2>3 DEF Lone
  <2> QED
    BY <1>1, <2>2, <2>3 DEF Wake
<1>2. CASE Block \/ Exit
  <2>1. UNCHANGED <<hung, hangs>> /\ \E to \in Candidates(stat') : Switch(to, FALSE)
    BY <1>2 DEF Block, Exit, Leaves
  <2> QED
    BY <1>0, <2>1, LoneSwitch
<1>3. CASE Slice
  <2>1. UNCHANGED <<hung, hangs>> /\ \E to \in Candidates(stat) : Switch(to, TRUE)
    BY <1>3 DEF Slice
  <2> QED
    BY <1>0, <2>1, LoneSwitch
<1>4. CASE Hang
  <2>1. /\ hangs' = hangs + 1 /\ hangs \in Nat /\ hung' # {}
        /\ sw_data' = sw_data
    BY <1>4 DEF Hang, Inv, TypeOK
  <2>2. hangs' # 0 /\ (hangs' = 1 => hangs = 0)
    BY <2>1
  <2> QED
    BY <2>1, <2>2 DEF Lone
<1>5. CASE Tick
  <2>1. hangs' = hangs /\ hung' = hung
    BY <1>5, TickKeeps DEF Tick
  <2>2. PICK sd \in SwData : /\ Delayed(sd) /\ sd.op_step = sw_data.op_step
                              /\ sd.lowest_thread = sw_data.lowest_thread
    BY <1>5, TickKeeps
  <2>3. sd.op_step = 1 => \A h \in Threads :
          hangs' = 1 /\ hung' = {h} => Prio(sd.lowest_thread) <= Prio(h)
    BY <2>1, <2>2 DEF Lone
  <2>4. hangs' = 0 => hung' = {} /\ sd.op_step # 1
    BY <2>1, <2>2 DEF Lone
  <2> QED
    BY <1>0, <2>2, <2>3, <2>4, LoneDelay
<1>6. CASE Suspect
  <2>1. hangs' = hangs /\ slack /\ Expired /\ sw_data.op_step = 0
    BY <1>6 DEF Suspect
  <2>2. hung # {}
    <3> SUFFICES ASSUME hung = {} PROVE FALSE
      OBVIOUS
    <3>1. sw_data.sec_cnt = 0
      BY <2>1 DEF Lone
    <3>2. TimeoutOf(sw_data.op_step) = ExceptTimeout
      BY <2>1 DEF TimeoutOf
    <3>3. ExceptTimeout \in Nat /\ ExceptTimeout >= 2
      BY Uint16, SysWatchAssumption
    <3> QED
      BY <2>1, <3>1, <3>2, <3>3 DEF Expired
  <2>3. hangs' # 0
    BY <2>1, <2>2 DEF Lone
  <2>4. PICK sd \in SwData : Delayed(sd) /\ sd.lowest_thread = NoThread
    BY <1>6, SuspectKeeps
  <2> QED
    BY <1>0, <2>3, <2>4, LoneDelay
<1>7. CASE ResolveReset
  <2>1. /\ sw_data'.op_step = 0 /\ sw_data'.sec_cnt = 0 /\ hung' = {}
    BY <1>7 DEF ResolveReset
  <2> QED
    BY <2>1 DEF Lone
<1>8. CASE ResolveKill
  <2>1. hangs' = hangs /\ sw_data.op_step = 1
    BY <1>8 DEF ResolveKill, Confirmed
  <2>2. hangs' # 0
    BY <2>1 DEF Lone
  <2>3. PICK sd \in SwData : Delayed(sd) /\ sd.lowest_thread = NoThread
    BY <1>8, KillKeeps
  <2> QED
    BY <1>0, <2>2, <2>3, LoneDelay
<1>9. CASE ResumeAll /\ damaged' # FALSE
  BY <1>9, MisreadKeeps DEF kernel, Lone
<1>10. CASE ResumeAll /\ damaged' = FALSE
  <2>1. hangs' = hangs /\ hung' = hung
    BY <1>10, ResumeKeeps DEF ResumeAll
  <2>2. PICK sd \in SwData : Delayed(sd) /\ sd.op_step = 0
    BY <1>10, ResumeKeeps
  <2>3. hangs' = 0 => hung' = {} /\ sd.op_step # 1
    BY <2>1, <2>2 DEF Lone
  <2> QED
    BY <1>0, <2>2, <2>3, LoneDelay
<1>11. CASE UNCHANGED vars
  BY <1>11 DEF vars, kernel, Lone
<1> QED
  BY <1>1, <1>2, <1>3, <1>4, <1>5, <1>6, <1>7, <1>8, <1>9, <1>10, <1>11 DEF Next, Second

(***************************************************************************)
(* Whatever the threads and timeouts: as long as one thread has hung, and  *)
(* has its priority to itself, nobody else is killed                       *)
(* (syswatch_thread_switch_hook, syswatch_thread_except_resolve).          *)
(***************************************************************************)
THEOREM LoneHogFound == Spec => LoneHogIsFound
<1>1. Init => Inv /\ Lone
  BY InvInit, LoneInit
<1>2. Inv /\ Lone /\ [Next]_vars => (Inv /\ Lone)'
  BY InvNext, LoneNext
<1>3. Inv /\ Lone /\ [Next]_vars =>
        [\A t, h \in Threads :
           /\ Kills(t) /\ hangs = 1 /\ hung = {h}
           /\ \A u \in Threads \ {h} : Priority[u] # Priority[h]
           => t = h]_vars
  <2> SUFFICES ASSUME Inv, Lone, Next, NEW t \in Threads, NEW h \in Threads,
                      Kills(t), hangs = 1, hung = {h},
                      \A u \in Threads \ {h} : Priority[u] # Priority[h]
               PROVE  t = h
    OBVIOUS
  <2>1. ResolveKill /\ t = sw_data.lowest_thread
    BY KillsNoted
  <2>2. sw_data.op_step = 1 /\ Prio(h) <= Prio(t)
    BY <2>1, KillFacts
  <2>3. Prio(t) <= Prio(h)
    BY <2>1, <2>2 DEF Lone
  <2> QED
    BY <2>2, <2>3, PrioRange
<1> QED
  BY <1>1, <1>2, <1>3, PTL DEF Spec, LoneHogIsFound
---------------------------------------------------------------------------
(***************************************************************************)
(* As long as a thread hangs before and after a step, idle does not come   *)
(* next: the switch leaves the clock alone, and so does the one behind a   *)
(* second's delay.                                                         *)
(***************************************************************************)
LEMMA ClockOfSwitch ==
    ASSUME Inv, Inv', hung' # {}, NEW to, NEW yields \in BOOLEAN, Switch(to, yields)
    PROVE  Clock' = Clock
<1>1. to \in Threads
  BY CurrentUrgent DEF Switch
<1>2. /\ sw_data \in SwData /\ current \in Threads \cup {Idle}
      /\ sw_data.op_step = 1 => sw_data.lowest_thread # NoThread
  BY SysWatchAssumption DEF Inv, TypeOK, KernelTypeOK, NotedOK
<1>3. sw_data' = SwitchHook(sw_data, current, to, yields)
  BY DEF Switch
<1>4. sw_data'.op_step = sw_data.op_step /\ sw_data'.sec_cnt = sw_data.sec_cnt
  BY <1>1, <1>2, <1>3, HookToThread
<1> QED
  BY <1>4 DEF Clock

LEMMA ClockOfDelay ==
    ASSUME Inv', hung' # {}, NEW sd \in SwData, Delayed(sd)
    PROVE  Clock' = <<sd.op_step, sd.sec_cnt>>
<1>1. current' \in Threads
  BY CurrentUrgent
<1>2. sw_data'.op_step = sd.op_step /\ sw_data'.sec_cnt = sd.sec_cnt
  BY <1>1 DEF Delayed, Outcome
<1> QED
  BY <1>2 DEF Clock

LEMMA OthersLeaveClock ==
    ASSUME Inv, Inv', hung # {}, hung' # {}, Next, ~Second
    PROVE  Clock' = Clock
<1>1. ASSUME NEW t \in Threads, Wake(t) PROVE Clock' = Clock
  BY <1>1, ClockOfSwitch DEF Wake, Clock
<1>2. CASE Block \/ Exit
  BY <1>2, ClockOfSwitch DEF Block, Exit, Leaves
<1>3. CASE Slice
  BY <1>3, ClockOfSwitch DEF Slice
<1>4. CASE Hang
  BY <1>4 DEF Hang, Clock
<1>5. CASE UNCHANGED vars
  BY <1>5 DEF vars, Clock
<1> QED
  BY <1>1, <1>2, <1>3, <1>4, <1>5 DEF Next

(***************************************************************************)
(* Whatever the threads, priorities and timeouts: while a thread hangs     *)
(* every second counts and every timeout leads on, whoever else runs, so   *)
(* that somebody is killed, or the board is reset, after the three         *)
(* timeouts at the latest (syswatch_fsm).                                  *)
(***************************************************************************)
THEOREM HangIsTimed == Spec => HangRunsOut
<1>1. Init => Inv
  BY InvInit
<1>2. Inv /\ [Next]_vars => Inv'
  BY InvNext
<1> DEFINE Leads ==
             \/ sw_data.op_step = 0 /\ Clock' = <<1, 0>>
             \/ sw_data.op_step = 1 /\ Clock' = <<1, 0>> /\ \E t \in Threads : Kills(t)
             \/ sw_data.op_step = 2 /\ (Clock' = <<0, 0>> \/ damaged')
<1>3. ASSUME Inv, Inv', hung # {}, hung' # {}, Second
      PROVE  IF ~Expired THEN Clock' = <<sw_data.op_step, sw_data.sec_cnt + 1>> ELSE Leads
  <2>1. CASE Tick
    <3>1. PICK sd \in SwData : /\ Delayed(sd) /\ sd.op_step = sw_data.op_step
                               /\ ~Expired => sd.sec_cnt = sw_data.sec_cnt + 1
      BY <1>3, <2>1, TickKeeps
    <3>2. ~Expired
      BY <1>3, <2>1, SysWatchAssumption DEF Tick, Quiet, Inv, NotedOK
    <3> QED
      BY <1>3, <3>1, <3>2, ClockOfDelay
  <2>2. CASE Suspect
    <3>1. PICK sd \in SwData : Delayed(sd) /\ sd.op_step = 1 /\ sd.sec_cnt = 0
      BY <1>3, <2>2, SuspectKeeps
    <3>2. Clock' = <<1, 0>>
      BY <1>3, <3>1, ClockOfDelay
    <3> QED
      BY <2>2, <3>2 DEF Suspect
  <2>3. ~ResolveReset
    BY <1>3 DEF ResolveReset
  <2>4. CASE ResolveKill
    <3>1. PICK sd \in SwData : Delayed(sd) /\ sd.op_step = 1 /\ sd.sec_cnt = 0
      BY <1>3, <2>4, KillKeeps
    <3>2. Clock' = <<1, 0>>
      BY <1>3, <3>1, ClockOfDelay
    <3>3. \E t \in Threads : Kills(t)
      BY <1>3, <2>4, KillFacts, KillKeeps
    <3>4. sw_data.op_step = 1 /\ Expired
      BY <2>4 DEF ResolveKill, Confirmed, Quiet
    <3> QED
      BY <3>2, <3>3, <3>4
  <2>5. CASE ResumeAll
    <3>1. sw_data.op_step = 2 /\ Expired
      BY <2>5 DEF ResumeAll, ResumeDue
    <3>2. CASE damaged' # FALSE
      BY <1>3, <2>5, <3>1, <3>2, MisreadKeeps
    <3>3. CASE damaged' = FALSE
      <4>1. PICK sd \in SwData : Delayed(sd) /\ sd.op_step = 0 /\ sd.sec_cnt = 0
        BY <1>3, <2>5, <3>3, ResumeKeeps
      <4>2. Clock' = <<0, 0>>
        BY <1>3, <4>1, ClockOfDelay
      <4> QED
        BY <3>1, <4>2
    <3> QED
      BY <3>2, <3>3
  <2> QED
    BY <1>3, <2>1, <2>2, <2>3, <2>4, <2>5 DEF Second
<1>4. Inv /\ Inv' /\ [Next]_vars =>
        [hung # {} /\ hung' # {} =>
           IF ~Second THEN Clock' = Clock
           ELSE IF ~Expired THEN Clock' = <<sw_data.op_step, sw_data.sec_cnt + 1>>
           ELSE Leads]_vars
  BY <1>3, OthersLeaveClock
<1> QED
  BY <1>1, <1>2, <1>4, PTL DEF Spec, HangRunsOut
---------------------------------------------------------------------------
(***************************************************************************)
(* While somebody waits to be resumed, syswatch either confirms or waits.  *)
(***************************************************************************)
LEMMA WaitingFacts ==
    ASSUME Inv, Waiting # {}
    PROVE  /\ mode = 2 /\ sw_data.op_step \in {1, 2}
           /\ current = Idle => sw_data.op_step = 2
<1>1. sw_data.wait_resume_slist # <<>>
  BY DEF Waiting
<1>2. mode = 2 /\ sw_data.op_step # 0
  BY <1>1, SecondFacts DEF ListOK
<1>3. sw_data.op_step \in 0 .. 2
  BY SecondFacts DEF SwData
<1>4. current = Idle => sw_data.op_step # 1
  BY ThreadsAssumption DEF Inv, NotedOK
<1> QED
  BY <1>2, <1>3, <1>4

\* What every step but the one that resumes does for those who wait.
KeepsWaiting ==
    /\ Waiting \subseteq Waiting'
    /\ current' = Idle => sw_data'.op_step = 2
    /\ sw_data.op_step = 2 =>
         Clock' = IF Second THEN <<2, sw_data.sec_cnt + 1>> ELSE Clock
    /\ ~(Second /\ sw_data.op_step = 2 /\ Expired)

LEMMA IdleWaits ==
    ASSUME Inv', Waiting # {}, Waiting \subseteq Waiting'
    PROVE  current' = Idle => sw_data'.op_step = 2
<1>1. sw_data'.wait_resume_slist # <<>>
  BY DEF Waiting
<1>2. sw_data' \in SwData /\ sw_data'.op_step # 0
  BY <1>1 DEF Inv, TypeOK, ListOK
<1>3. sw_data'.op_step = 0 \/ sw_data'.op_step = 1 \/ sw_data'.op_step = 2
  BY <1>2 DEF SwData
<1>4. current' = Idle => sw_data'.op_step # 1
  BY ThreadsAssumption DEF Inv, NotedOK
<1> QED
  BY <1>2, <1>3, <1>4

LEMMA SwitchWaits ==
    ASSUME Inv, Inv', NEW to, NEW yields \in BOOLEAN, Switch(to, yields)
    PROVE  Waiting' = Waiting /\ (sw_data.op_step = 2 => Clock' = Clock)
<1>1. /\ sw_data \in SwData /\ current \in Threads \cup {Idle}
      /\ to \in Threads \cup {Idle} /\ mode \in 0 .. 2 /\ ListOK(sw_data)
      /\ sw_data.op_step = 1 => sw_data.lowest_thread # NoThread
  BY SysWatchAssumption, ModeType DEF Inv, TypeOK, KernelTypeOK, NotedOK, Switch
<1>2. sw_data' = SwitchHook(sw_data, current, to, yields)
  BY DEF Switch
<1>3. Outcome(sw_data, sw_data', current, to, yields)
  BY <1>1, <1>2, HookOutcome
<1>4. /\ sw_data'.wait_resume_slist = sw_data.wait_resume_slist
      /\ sw_data.op_step = 2 =>
           sw_data'.op_step = sw_data.op_step /\ sw_data'.sec_cnt = sw_data.sec_cnt
  BY <1>3 DEF Outcome
<1> QED
  BY <1>4 DEF Waiting, Clock

LEMMA OthersWait ==
    ASSUME Inv, Inv', Next, ~Second
    PROVE  Waiting' = Waiting /\ (sw_data.op_step = 2 => Clock' = Clock)
<1>1. ASSUME NEW t \in Threads, Wake(t)
      PROVE  Waiting' = Waiting /\ (sw_data.op_step = 2 => Clock' = Clock)
  BY <1>1, SwitchWaits DEF Wake, Waiting, Clock
<1>2. CASE Block \/ Exit
  BY <1>2, SwitchWaits DEF Block, Exit, Leaves
<1>3. CASE Slice
  BY <1>3, SwitchWaits DEF Slice
<1>4. CASE Hang
  BY <1>4 DEF Hang, Waiting, Clock
<1>5. CASE UNCHANGED vars
  BY <1>5 DEF vars, Waiting, Clock
<1> QED
  BY <1>1, <1>2, <1>3, <1>4, <1>5 DEF Next

\* Behind a second's delay the list is that of sd, and so is the clock of step 2.
LEMMA WaitingOfDelay ==
    ASSUME NEW sd \in SwData, Delayed(sd)
    PROVE  /\ Waiting' = On(sd.wait_resume_slist)
           /\ sd.op_step = 2 => Clock' = <<2, sd.sec_cnt>>
<1>1. /\ sw_data'.wait_resume_slist = sd.wait_resume_slist
      /\ sd.op_step = 2 => sw_data'.op_step = 2 /\ sw_data'.sec_cnt = sd.sec_cnt
  BY DEF Delayed, Outcome
<1> QED
  BY <1>1 DEF Waiting, On, Clock

\* A second that resumes: nobody waits any more, and the clock starts at 0.
LEMMA ResumeLeaves ==
    ASSUME Inv, Inv', ResumeAll, damaged' = FALSE
    PROVE  Waiting' = {} /\ Clock' = <<0, 0>>
<1>1. PICK sd \in SwData : /\ Delayed(sd) /\ sd.op_step = 0 /\ sd.sec_cnt = 0
                           /\ sd.wait_resume_slist = <<>>
  BY ResumeKeeps
<1>2. Waiting' = {}
  BY <1>1, WaitingOfDelay DEF On
<1>3. Clock' = <<0, 0>>
  <2>1. current' \in Threads \cup {Idle} /\ sw_data' \in SwData
    BY DEF Inv, TypeOK, KernelTypeOK
  <2>2. CASE current' \in Threads
    BY <1>1, <2>2 DEF Delayed, Outcome, Clock
  <2>3. CASE current' = Idle
    <3>1. /\ sw_data'.wait_resume_slist = <<>> /\ ListOK(sw_data')
          /\ sw_data'.op_step # 1
          /\ sw_data'.op_step = 0 => sw_data'.sec_cnt = 0
      BY <1>1, <2>3, ThreadsAssumption DEF Delayed, Outcome
    <3>2. sw_data'.op_step = 0 \/ sw_data'.op_step = 1 \/ sw_data'.op_step = 2
      BY <2>1 DEF SwData
    <3>3. sw_data'.op_step = 0 /\ sw_data'.sec_cnt = 0
      BY <3>1, <3>2 DEF ListOK
    <3> QED
      BY <3>3 DEF Clock
  <2> QED
    BY <2>1, <2>2, <2>3
<1> QED
  BY <1>2, <1>3

LEMMA SecondWaits ==
    ASSUME Inv, Inv', Waiting # {}, Second, ~ResumeAll
    PROVE  KeepsWaiting
<1>1. mode = 2 /\ sw_data.op_step \in {1, 2} /\ Waiting = On(sw_data.wait_resume_slist)
  BY WaitingFacts DEF Waiting, On
<1>2. CASE Tick
  <2>1. PICK sd \in SwData :
          /\ Delayed(sd) /\ sd.op_step = sw_data.op_step
          /\ sd.wait_resume_slist = sw_data.wait_resume_slist
          /\ ~Expired => sd.sec_cnt = sw_data.sec_cnt + 1
    BY <1>2, TickKeeps
  <2>2. sw_data.op_step = 2 => ~Expired
    BY <1>2 DEF Tick, Quiet
  <2>3. Waiting' = Waiting /\ (sw_data.op_step = 2 => Clock' = <<2, sw_data.sec_cnt + 1>>)
    BY <1>1, <2>1, <2>2, WaitingOfDelay
  <2> QED
    BY <2>2, <2>3, IdleWaits DEF KeepsWaiting
<1>3. ~Suspect /\ ~ResolveReset
  BY <1>1 DEF Suspect, ResolveReset
<1>4. CASE ResolveKill
  <2>1. sw_data.op_step = 1
    BY <1>4, KillFacts
  <2>2. PICK sd \in SwData :
          Delayed(sd) /\ On(sw_data.wait_resume_slist) \subseteq On(sd.wait_resume_slist)
    BY <1>4, KillKeeps
  <2>3. Waiting \subseteq Waiting'
    BY <1>1, <2>2, WaitingOfDelay
  <2> QED
    BY <2>1, <2>3, IdleWaits DEF KeepsWaiting
<1> QED
  BY <1>2, <1>3, <1>4 DEF Second

(***************************************************************************)
(* Whatever the threads, priorities and timeouts: who waits to be resumed  *)
(* is dropped by nothing, the wait is counted by every second and by       *)
(* nothing else, and its end starts them all, or memory was short, or the  *)
(* type of a thread that is gone has been misread and memory is damaged    *)
(* (syswatch_thread_except_resolve_resume_all).                            *)
(***************************************************************************)
THEOREM ResumeIsTimed == Spec => ResumeRunsOut
<1>1. Init => Inv
  BY InvInit
<1>2. Inv /\ [Next]_vars => Inv'
  BY InvNext
<1> DEFINE Resumes ==
             /\ Second /\ sw_data.op_step = 2 /\ Expired
             /\ \/ /\ Waiting' = {} /\ Clock' = <<0, 0>>
                   /\ (\A t \in Waiting : stat'[t] = "ready") \/ nomem' > nomem
                \/ damaged'
<1>3. Inv /\ Inv' /\ [Next]_vars => [Waiting # {} => KeepsWaiting \/ Resumes]_vars
  <2> SUFFICES ASSUME Inv, Inv', Next, Waiting # {} PROVE KeepsWaiting \/ Resumes
    OBVIOUS
  <2>1. CASE ResumeAll
    <3>1. Second /\ sw_data.op_step = 2 /\ Expired
      BY <2>1 DEF ResumeAll, ResumeDue, Second
    <3> QED
      BY <2>1, <3>1, ResumeLeaves, ResumeKeeps, MisreadKeeps
  <2>2. CASE Second /\ ~ResumeAll
    BY <2>2, SecondWaits
  <2>3. CASE ~Second
    <3>1. Waiting' = Waiting /\ (sw_data.op_step = 2 => Clock' = Clock)
      BY <2>3, OthersWait
    <3> QED
      BY <2>3, <3>1, IdleWaits DEF KeepsWaiting
  <2> QED
    BY <2>1, <2>2, <2>3 DEF Second
<1> QED
  BY <1>1, <1>2, <1>3, PTL DEF Spec, ResumeRunsOut, KeepsWaiting
=============================================================================
