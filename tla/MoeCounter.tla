------------------------------ MODULE MoeCounter -------------------------------
(***************************************************************************)
(* How a dispatch call learns how many rows it will receive.  The host     *)
(* keeps a few integers in memory that is mapped to the GPU: the totals    *)
(* (moe_recv_counter, and moe_recv_rdma_counter between nodes) and one     *)
(* per local expert.  It resets them to -1, launches notify_dispatch and,  *)
(* unless the caller gave num_worst_tokens, spins until none is negative   *)
(* (csrc/deep_ep.cpp).  The kernel runs later, on the stream, after the    *)
(* kernels launched before it, and its threads write the integers.         *)
(*                                                                         *)
(* The intranode kernels write them always.  The internode kernel writes   *)
(* them only for a call that waits, and spins first until it sees the -1.  *)
(*                                                                         *)
(* The number that call n's kernel writes is modelled as n, since the only *)
(* question is whose number the host takes.                                *)
(***************************************************************************)
EXTENDS Integers, Sequences

CONSTANTS
  NumTotals,   \* the totals: one intranode, two internode
  NumWords,    \* the totals and the expert counters
  Programs     \* bound: the programs tried, see ProgramsAssumption

ASSUME WordsAssumption == /\ NumTotals \in Nat \ {0}
                          /\ NumWords \in Nat /\ NumWords >= NumTotals

(* A program's calls, one at least, and whether their kernel is the         *)
(* internode one.                                                           *)
ASSUME ProgramsAssumption ==
  \A p \in Programs :
    p \in [guarded : BOOLEAN, mode : Seq({"wait", "worst"}) \ {<<>>}]

Word  == 0 .. NumWords - 1
TotalWord == 0 .. NumTotals - 1

VARIABLES
  guarded,  \* the calls go to the internode kernel
  mode,     \* mode[n]   : does call n wait, or was num_worst_tokens given
  call,     \* the call the host is in
  host,     \* what the host does next
  at,       \* the word the host's loop is at
  seen,     \* seen[w]   : the totals as the host's last scan read them
  taken,    \* taken[n]  : the numbers call n returned with
  word,     \* word[w]   : the mapped integers
  running,  \* the call whose kernel runs, or will run next
  written   \* the words that kernel has written

program  == <<guarded, mode>>
counterVars     == <<program, call, host, at, seen, taken, word, running, written>>
hostVars == <<call, host, at, seen, taken>>
gpuVars  == <<running, written>>

NumCalls  == Len(mode)
HostSteps == {"reset", "scan", "copy", "done", "failed"}

CounterInit ==
  /\ \E p \in Programs : guarded = p.guarded /\ mode = p.mode
  /\ call    = 1
  /\ host    = "reset"
  /\ at      = 0
  /\ seen    = [w \in TotalWord |-> -1]
  /\ taken   = <<>>
  /\ word    = [w \in Word |-> -1]
  /\ running = 1
  /\ written = {}

(* The calls whose kernels have been launched. *)
Launched == IF host = "reset" THEN call - 1 ELSE call

NextCall ==
  /\ call' = IF call < NumCalls THEN call + 1 ELSE call
  /\ host' = IF call < NumCalls THEN "reset" ELSE "done"
  /\ at'   = 0

(* Variant: only the totals are reset. *)
ResetTotals ==
  /\ host = "reset"
  /\ word' = [word EXCEPT ![at] = IF at \in TotalWord THEN -1 ELSE @]
  /\ UNCHANGED <<program, call, seen, taken, gpuVars>>
  /\ IF at < NumWords - 1
     THEN at' = at + 1 /\ host' = host
     ELSE at' = 0 /\ host' = "scan"

(* The resets, one integer after the other, and after the last of them the *)
(* launch of notify_dispatch.                                              *)
Reset ==
  /\ host = "reset"
  /\ word' = [word EXCEPT ![at] = -1]
  /\ UNCHANGED <<program, call, seen, taken, gpuVars>>
  /\ IF at < NumWords - 1
     THEN at' = at + 1 /\ host' = host
     ELSE at' = 0 /\ host' = "scan"

(* "No CPU sync, just allocate the worst case". *)
TakeWorst ==
  /\ host = "scan" /\ mode[call] = "worst"
  /\ NextCall
  /\ taken' = Append(taken, [w \in Word |-> -1])
  /\ UNCHANGED <<program, seen, word, gpuVars>>

(* One load of the waiting loop: it reads the totals, then the experts'    *)
(* numbers, and starts over at a negative one.                             *)
Scan ==
  /\ host = "scan" /\ mode[call] = "wait"
  /\ seen' = IF at \in TotalWord THEN [seen EXCEPT ![at] = word[at]] ELSE seen
  /\ \/ /\ word[at] < 0
        /\ at' = 0 /\ host' = host
     \/ /\ word[at] >= 0 /\ at < NumWords - 1
        /\ at' = at + 1 /\ host' = host
     \/ /\ word[at] >= 0 /\ at = NumWords - 1
        /\ at' = 0 /\ host' = "copy"
  /\ UNCHANGED <<program, call, taken, word, gpuVars>>

(* A load finds a negative number and NUM_CPU_TIMEOUT_SECS are over: the   *)
(* call throws.                                                            *)
Timeout ==
  /\ host = "scan" /\ mode[call] = "wait"
  /\ word[at] < 0
  /\ host' = "failed"
  /\ UNCHANGED <<program, call, at, seen, taken, word, gpuVars>>

(* num_recv_tokens_per_expert_list is built by reading the experts' words  *)
(* again; the totals are those of the scan.                                *)
Copy ==
  /\ host = "copy"
  /\ taken' = Append(taken, [w \in Word |-> IF w \in TotalWord THEN seen[w] ELSE word[w]])
  /\ NextCall
  /\ UNCHANGED <<program, seen, word, gpuVars>>

(* Variant: the internode kernel does not look at num_worst_tokens. *)
WritesAlways(n) == TRUE

(* Which calls' kernels write: all intranode, the waiting ones internode. *)
Writes(n) == guarded => mode[n] = "wait"

(* A thread of the running kernel writes its word; the internode kernel    *)
(* spins until the word is -1.                                             *)
Write(w) ==
  /\ running <= Launched
  /\ Writes(running)
  /\ w \notin written
  /\ guarded => word[w] = -1
  /\ word'    = [word EXCEPT ![w] = running]
  /\ written' = written \cup {w}
  /\ UNCHANGED <<program, hostVars, running>>

(* Variant: the stream runs ahead of the launches. *)
KernelEndUnlaunched ==
  /\ running <= NumCalls + 1
  /\ running' = running + 1
  /\ written' = {}
  /\ UNCHANGED <<program, hostVars, word>>

(* The kernel ends and the stream goes on to the next. *)
KernelEnd ==
  /\ running <= Launched
  /\ Writes(running) => written = Word
  /\ running' = running + 1
  /\ written' = {}
  /\ UNCHANGED <<program, hostVars, word>>

HostFinished ==
  /\ host \in {"done", "failed"}
  /\ running > Launched
  /\ UNCHANGED counterVars

HostNext == Reset \/ TakeWorst \/ Scan \/ Copy
GpuNext  == (\E w \in Word : Write(w)) \/ KernelEnd

CounterNext == HostNext \/ Timeout \/ GpuNext \/ HostFinished

CounterSpec == CounterInit /\ [][CounterNext]_counterVars

(* The host thread runs and so does the stream; a timeout is only possible. *)
FairCounterSpec == CounterSpec /\ WF_counterVars(HostNext) /\ WF_counterVars(GpuNext)

-----------------------------------------------------------------------------
(* The state stays in its types: a word is -1 or the number of a call whose *)
(* kernel has been launched.                                                *)
CounterTypeOK ==
  /\ [guarded |-> guarded, mode |-> mode] \in Programs
  /\ call    \in 1 .. NumCalls
  /\ host    \in HostSteps
  /\ at      \in Word
  /\ seen    \in [TotalWord -> -1 .. NumCalls]
  /\ taken   \in Seq([Word -> -1 .. NumCalls])
  /\ word    \in [Word -> -1 .. Launched]
  /\ running \in 1 .. NumCalls + 1
  /\ written \subseteq Word

(* "Synchronize total received tokens and tokens per expert": a call that  *)
(* waits returns with the numbers its own kernel computed, all of them.    *)
HostTakesOwnCounts ==
  \A n \in DOMAIN taken :
    mode[n] = "wait" => \A w \in Word : taken[n][w] = n

(* What the application owes the intranode kernels: no call waits after one *)
(* that did not.  The internode kernel asks for nothing.                    *)
Unmixed ==
  \A p \in Programs :
    p.guarded \/ \A i, j \in DOMAIN p.mode :
                   i < j /\ p.mode[i] = "worst" => p.mode[j] = "worst"

(* deep_ep.cpp's loop and the kernels' spin wait for each other's words;   *)
(* every call nevertheless returns, or times out, and no kernel spins for  *)
(* ever on a word that nobody will reset.                                  *)
AllAnswered ==
  <>(host \in {"done", "failed"} /\ running > Launched)
=============================================================================
