----------------------------- MODULE CudaProofs -----------------------------
(***************************************************************************)
(* What run_proof guarantees, for every size and number of copies a caller *)
(* may ask for, whatever an int holds of them, every number of runs and    *)
(* every pattern of failing calls and allocations.                         *)
(*                                                                         *)
(* None of the three properties is inductive: each speaks of the end of    *)
(* run_proof, or of a finished sample, and rests on what holds at the call *)
(* in between.  CudaInv says it per program point: what is held there,     *)
(* which copies of the transfer in progress were made, and what must have  *)
(* been done when no call has failed.                                      *)
(***************************************************************************)
EXTENDS Cuda, TLAPS

-----------------------------------------------------------------------------
(* Program points *)

Setup == {"identify", "describe", "host_alloc", "malloc"}
WithEvents == {"record0", "copy", "synchronize", "elapsed"}
Transferring == {"create0", "create1"} \cup WithEvents
KernelReady == {"launch", "synchronize_all", "read_back"}
Finishing == {"kernel_copy", "release"} \cup KernelReady
Outside == {"idle", "dead"}
HoldsDevice == {"fill"} \cup Transferring \cup Finishing
HoldsPinned == {"malloc"} \cup HoldsDevice
Place == Outside \cup {"fill"} \cup Setup \cup Transferring \cup Finishing

-----------------------------------------------------------------------------
(* The inductive invariant *)

Sample == [ok : BOOLEAN, timed : BOOLEAN]

CudaResult ==
    [ok : BOOLEAN, pci_correlated : BOOLEAN, kernel_verified : BOOLEAN, cuda_clean : BOOLEAN,
     sample : [1 .. 4 -> Sample]]

TypeOK ==
    /\ at \in Place
    /\ bytes \in Nat /\ iters \in Nat /\ thrown \in Nat /\ transfer \in 1 .. 4 /\ copies \in Nat /\ events \in Nat
    /\ recorded \subseteq {"t0", "t1"}
    /\ content \in {"undefined", "pattern", "result", "partial"}
    /\ pinned \in Nat /\ device \in Nat
    /\ lastError \in BOOLEAN /\ broken \in BOOLEAN
    /\ identified \in BOOLEAN /\ failed \in BOOLEAN
    /\ completed \in [1 .. 4 -> Nat]
    /\ out \in CudaResult

\* What is held at each point, as long as the context works: besides the blocks in
\* use, at most one for every exception.
HeldInv ==
    ~broken /\ at # "dead" =>
        /\ events = IF at = "create1" THEN 1 ELSE IF at \in WithEvents THEN 2 ELSE 0
        /\ IF at \in HoldsPinned THEN pinned \in 1 .. thrown + 1 ELSE pinned <= thrown
        /\ IF at \in HoldsDevice THEN device \in 1 .. thrown + 1 ELSE device <= thrown

\* The kernel is told of all floats.
Fits == AsInt(Floats) = Floats

\* How often the loop over the copies runs.
Loops == IF AsInt(iters) > 0 THEN AsInt(iters) ELSE 0

\* The copies of the transfer in progress, and the samples of the ones before it.
CopiesInv ==
    /\ at \in Setup \cup {"fill"} =>
        /\ transfer = 1 /\ copies = 0
        /\ \A k \in 1 .. 4 : completed[k] = 0 /\ ~out.sample[k].ok
    /\ at \in Transferring =>
        /\ completed[transfer] = copies
        /\ \A k \in 1 .. 4 : k > transfer => completed[k] = 0
        /\ \A k \in 1 .. 4 : k >= transfer => ~out.sample[k].ok
    /\ at \in {"create0", "create1", "record0"} => copies = 0
    /\ at = "copy" => copies <= Loops
    /\ at \in {"synchronize", "elapsed"} => copies = Loops
    /\ \A k \in 1 .. 4 : out.sample[k].ok => completed[k] = Loops

\* The kernel is only verified, and the run only called clean, at its end.
EndInv ==
    /\ at \in Setup \cup {"fill"} \cup Transferring \cup {"kernel_copy"} \cup KernelReady => ~out.kernel_verified
    /\ at \in Transferring \cup Finishing => Floats > 0
    /\ out.kernel_verified => content = "result" \/ Floats = 1
    /\ at # "idle" => ~out.cuda_clean

\* A call that failed is still to be told by cudaGetLastError; when none has,
\* everything before this point was done.
CleanInv ==
    at \notin Outside =>
        IF failed THEN lastError
        ELSE /\ at \in {"copy", "synchronize", "elapsed"} => "t0" \in recorded
             /\ at \in {"synchronize", "elapsed"} => "t1" \in recorded
             /\ at \in Transferring \cup Finishing =>
                  \A k \in 1 .. 4 : at \in Finishing \/ k < transfer =>
                      out.sample[k].ok /\ out.sample[k].timed
             /\ at \in {"synchronize_all", "read_back"} =>
                  content = IF Fits THEN "result" ELSE "partial"
             /\ at = "release" /\ Fits => out.kernel_verified

CudaInv == TypeOK /\ HeldInv /\ CopiesInv /\ EndInv /\ CleanInv /\ CleanIsClean
-----------------------------------------------------------------------------
(* Lemmas *)

\* An int holds what is small enough as it is.
LEMMA IntOf == \A x \in Nat : AsInt(x) \in Int /\ (x < IntHalf => AsInt(x) = x)
<1> SUFFICES ASSUME NEW x \in Nat
             PROVE  AsInt(x) \in Int /\ (x < IntHalf => AsInt(x) = x)
  OBVIOUS
<1>1. \A m \in Nat \ {0} : x % m \in Int /\ (x < m => x % m = x)
  OBVIOUS
<1>2. 2 * IntHalf \in Nat \ {0} /\ IntHalf < 2 * IntHalf
  BY CudaAssumption
<1>3. DEFINE low == x % (2 * IntHalf)
<1>4. low \in Int /\ (x < IntHalf => low = x)
  BY <1>1, <1>2, CudaAssumption
<1> HIDE DEF low
<1>5. AsInt(x) = IF low < IntHalf THEN low ELSE low - 2 * IntHalf
  BY DEF AsInt, low
<1> QED BY <1>4, <1>5, CudaAssumption

\* There is a whole float as soon as there are enough bytes for one.
LEMMA FloatsOf == bytes \in Nat => Floats \in Nat /\ (bytes >= FloatSize <=> Floats > 0)
BY DEF Floats, FloatSize

\* The loops and the kernel depend on the numbers run_proof was called with only.
LEMMA SameCall ==
    UNCHANGED <<bytes, iters>> => Floats' = Floats /\ Loops' = Loops /\ (Fits' <=> Fits)
BY DEF Floats, Loops, Fits, AsInt

LEMMA LoopsOf == iters \in Nat => Loops \in Nat /\ (iters < IntHalf => Loops = iters)
BY IntOf DEF Loops

\* There are four transfers.
LEMMA TransferCount == Len(Transfer) = 4 /\ DOMAIN Transfer = 1 .. 4
BY DEF Transfer

\* The empty result has its type.
LEMMA NoResultType ==
    /\ NoResult \in CudaResult
    /\ ~NoResult.cuda_clean /\ ~NoResult.kernel_verified
    /\ \A k \in 1 .. 4 : ~NoResult.sample[k].ok
BY TransferCount DEF NoResult, CudaResult, Sample, NoSample

\* Setting the sample of a transfer leaves the rest of the result alone.
LEMMA SetSample ==
    ASSUME NEW r \in CudaResult, NEW k \in 1 .. 4, NEW s \in Sample
    PROVE  LET q == [r EXCEPT !.sample[k] = s] IN
           /\ q \in CudaResult
           /\ q.sample[k] = s
           /\ \A j \in 1 .. 4 : j # k => q.sample[j] = r.sample[j]
           /\ q.kernel_verified = r.kernel_verified /\ q.cuda_clean = r.cuda_clean
BY DEF CudaResult, Sample

\* timed_transfer returns: with a good sample after all its copies, or after a
\* failure that cudaGetLastError still has to tell.
LEMMA ReturnsInv ==
    ASSUME CudaInv, at \in Transferring,
           NEW s \in Sample, Returns(s),
           s.ok => copies = Loops,
           broken' \in BOOLEAN, lastError' \in BOOLEAN, failed' \in BOOLEAN,
           broken => broken',
           \/ failed' /\ lastError'
           \/ failed' = failed /\ lastError' = lastError /\ s.ok /\ s.timed,
           UNCHANGED <<pinned, device, content, thrown, history>>
    PROVE  CudaInv'
<1> USE TransferCount
    DEF Setup, Transferring, WithEvents, Finishing, KernelReady, Outside, HoldsDevice, HoldsPinned
<1>0. Floats' = Floats /\ Loops' = Loops /\ (Fits' <=> Fits) /\ bytes >= FloatSize
  BY SameCall, FloatsOf DEF history, CudaInv, TypeOK, EndInv
<1>1. /\ out' \in CudaResult
      /\ out'.sample[transfer] = s
      /\ \A j \in 1 .. 4 : j # transfer => out'.sample[j] = out.sample[j]
      /\ out'.kernel_verified = out.kernel_verified /\ out'.cuda_clean = out.cuda_clean
  BY SetSample DEF Returns, CudaInv, TypeOK
<1>2. TypeOK'
  BY <1>1 DEF CudaInv, TypeOK, Place, Returns, DestroyEvents, history
<1>3. HeldInv'
  BY <1>0 DEF CudaInv, TypeOK, HeldInv, Returns, DestroyEvents
<1>4. CopiesInv'
  BY <1>1, <1>0 DEF CudaInv, TypeOK, CopiesInv, Returns, history
<1>5. EndInv'
  BY <1>1, <1>0 DEF CudaInv, TypeOK, EndInv, Returns, history
<1>6. CleanInv'
  BY <1>1, <1>0 DEF CudaInv, TypeOK, CleanInv, EndInv, Returns, history
<1>7. CleanIsClean'
  BY <1>1, <1>0 DEF CudaInv, TypeOK, CleanIsClean, Returns
<1> QED BY <1>2, <1>3, <1>4, <1>5, <1>6, <1>7 DEF CudaInv

-----------------------------------------------------------------------------
(* Theorems *)

\* At every call of run_proof: what was acquired before it is held, and besides it no
\* more than one block of each kind for every exception that left an earlier run; the
\* copies made so far are the ones the loop counts, an int; and as long as no call has
\* failed all that the calls before it are for has been done.
THEOREM CudaInvHolds == Spec => []CudaInv
<1>1. Init => CudaInv
  <2> SUFFICES ASSUME Init PROVE CudaInv
    OBVIOUS
  <2> USE TransferCount, NoResultType
      DEF Init, Place, Setup, Transferring, WithEvents, Finishing, KernelReady, Outside,
          HoldsDevice, HoldsPinned
  <2>1. completed \in [1 .. 4 -> Nat] /\ \A k \in 1 .. 4 : completed[k] = 0
    OBVIOUS
  <2>2. TypeOK
    <3>1. /\ at \in Place /\ bytes \in Nat /\ iters \in Nat /\ thrown \in Nat
          /\ transfer \in 1 .. 4 /\ copies \in Nat /\ events \in Nat
      OBVIOUS
    <3>2. out \in CudaResult /\ recorded \subseteq {"t0", "t1"} /\ content \in {"undefined", "pattern", "result", "partial"}
      OBVIOUS
    <3>3. /\ pinned \in Nat /\ device \in Nat /\ lastError \in BOOLEAN /\ broken \in BOOLEAN
          /\ identified \in BOOLEAN /\ failed \in BOOLEAN
      OBVIOUS
    <3> QED BY <2>1, <3>1, <3>2, <3>3, Zenon DEF TypeOK
  <2>3. HeldInv /\ EndInv /\ CleanInv /\ CleanIsClean
    BY DEF HeldInv, EndInv, CleanInv, CleanIsClean
  <2>4. CopiesInv
    BY <2>1 DEF CopiesInv
  <2> QED BY <2>2, <2>3, <2>4 DEF CudaInv
<1>2. CudaInv /\ [Next]_vars => CudaInv'
  <2> SUFFICES ASSUME CudaInv, [Next]_vars PROVE CudaInv'
    OBVIOUS
  <2> USE CudaAssumption, TransferCount
      DEF CudaInv, Place, Setup, Transferring, WithEvents, Finishing, KernelReady, Outside,
          HoldsDevice, HoldsPinned
  <2>1. CASE DeviceCount
    <3>1. TypeOK'
      <4>1. /\ completed' \in [1 .. 4 -> Nat] /\ out' \in CudaResult /\ at' \in Place
            /\ bytes' \in Nat /\ iters' \in Nat /\ thrown' \in Nat
        BY <2>1, NoResultType DEF DeviceCount, TypeOK
      <4>2. transfer' \in 1 .. 4 /\ copies' \in Nat /\ events' \in Nat /\ recorded' \subseteq {"t0", "t1"}
        BY <2>1 DEF DeviceCount, TypeOK, resources
      <4>3. /\ pinned' \in Nat /\ device' \in Nat /\ content' \in {"undefined", "pattern", "result", "partial"}
            /\ lastError' \in BOOLEAN /\ broken' \in BOOLEAN /\ failed' \in BOOLEAN /\ identified' \in BOOLEAN
        BY <2>1 DEF DeviceCount, TypeOK, Fails, Failure, resources
      <4> QED BY <4>1, <4>2, <4>3, Zenon DEF TypeOK
    <3>2. HeldInv'
      BY <2>1 DEF DeviceCount, TypeOK, HeldInv, Fails, Failure, resources
    <3>3. CopiesInv'
      BY <2>1, NoResultType DEF DeviceCount, TypeOK, CopiesInv
    <3>4. EndInv'
      BY <2>1, NoResultType DEF DeviceCount, TypeOK, EndInv
    <3>5. CleanInv' /\ CleanIsClean'
      BY <2>1, NoResultType DEF DeviceCount, TypeOK, CleanInv, CleanIsClean, Fails, Failure
    <3> QED BY <3>1, <3>2, <3>3, <3>4, <3>5
  <2>2. CASE Identify
    <3>0. Floats' = Floats /\ Loops' = Loops /\ (Fits' <=> Fits)
      BY <2>2, SameCall DEF Identify, Succeeds, Fails, Failure, resources, runtime, history
    <3>1. TypeOK'
      BY <2>2 DEF Identify, Succeeds, Fails, Failure, resources, runtime, history, TypeOK
    <3>2. HeldInv'
      BY <2>2, <3>0
      DEF Identify, Succeeds, Fails, Failure, resources, runtime, history, TypeOK, HeldInv
    <3>3. CopiesInv'
      BY <2>2, <3>0
      DEF Identify, Succeeds, Fails, Failure, resources, runtime, history, TypeOK, CopiesInv
    <3>4. EndInv'
      BY <2>2, <3>0
      DEF Identify, Succeeds, Fails, Failure, resources, runtime, history, TypeOK, EndInv
    <3>5. CleanInv' /\ CleanIsClean'
      BY <2>2, <3>0
      DEF Identify, Succeeds, Fails, Failure, resources, runtime, history, TypeOK, CleanInv,
          CleanIsClean, EndInv
    <3> QED BY <3>1, <3>2, <3>3, <3>4, <3>5
  <2>3. CASE Describe
    <3>0. Floats' = Floats /\ Loops' = Loops /\ (Fits' <=> Fits)
      BY <2>3, SameCall DEF Describe, Succeeds, Fails, Failure, resources, runtime, history
    <3>1. TypeOK'
      BY <2>3 DEF Describe, Succeeds, Fails, Failure, resources, runtime, history, TypeOK
    <3>2. HeldInv'
      BY <2>3, <3>0
      DEF Describe, Succeeds, Fails, Failure, resources, runtime, history, TypeOK, HeldInv
    <3>3. CopiesInv'
      BY <2>3, <3>0
      DEF Describe, Succeeds, Fails, Failure, resources, runtime, history, TypeOK, CopiesInv
    <3>4. EndInv'
      BY <2>3, <3>0
      DEF Describe, Succeeds, Fails, Failure, resources, runtime, history, TypeOK, EndInv
    <3>5. CleanInv' /\ CleanIsClean'
      BY <2>3, <3>0
      DEF Describe, Succeeds, Fails, Failure, resources, runtime, history, TypeOK, CleanInv,
          CleanIsClean, EndInv
    <3> QED BY <3>1, <3>2, <3>3, <3>4, <3>5
  <2>4. CASE HostAlloc
    <3>6. pinned' \in Nat /\ device' \in Nat
      BY <2>4 DEF HostAlloc, Succeeds, FailsAndTells, Failure, runtime, TypeOK, HeldInv
    <3>7. /\ lastError' \in BOOLEAN /\ broken' \in BOOLEAN /\ failed' \in BOOLEAN
          /\ content' \in {"undefined", "pattern", "result", "partial"} /\ at' \in Place
      BY <2>4 DEF HostAlloc, Succeeds, FailsAndTells, Failure, runtime, TypeOK
    <3>0. Floats' = Floats /\ Loops' = Loops /\ (Fits' <=> Fits)
      BY <2>4, SameCall
      DEF HostAlloc, Succeeds, FailsAndTells, Failure, resources, runtime, history
    <3>1. TypeOK'
      BY <2>4, <3>6, <3>7
      DEF HostAlloc, Succeeds, FailsAndTells, Failure, resources, runtime, history, TypeOK
    <3>2. HeldInv'
      BY <2>4, <3>0
      DEF HostAlloc, Succeeds, FailsAndTells, Failure, resources, runtime, history, TypeOK,
          HeldInv
    <3>3. CopiesInv'
      BY <2>4, <3>0
      DEF HostAlloc, Succeeds, FailsAndTells, Failure, resources, runtime, history, TypeOK,
          CopiesInv
    <3>4. EndInv'
      BY <2>4, <3>0
      DEF HostAlloc, Succeeds, FailsAndTells, Failure, resources, runtime, history, TypeOK,
          EndInv
    <3>5. CleanInv' /\ CleanIsClean'
      BY <2>4, <3>0
      DEF HostAlloc, Succeeds, FailsAndTells, Failure, resources, runtime, history, TypeOK,
          CleanInv, CleanIsClean, EndInv
    <3> QED BY <3>1, <3>2, <3>3, <3>4, <3>5
  <2>5. CASE Malloc
    <3>6. pinned' \in Nat /\ device' \in Nat
      BY <2>5 DEF Malloc, Succeeds, FailsAndTells, Failure, runtime, TypeOK, HeldInv
    <3>7. /\ lastError' \in BOOLEAN /\ broken' \in BOOLEAN /\ failed' \in BOOLEAN
          /\ content' \in {"undefined", "pattern", "result", "partial"} /\ at' \in Place
      BY <2>5 DEF Malloc, Succeeds, FailsAndTells, Failure, runtime, TypeOK
    <3>0. Floats' = Floats /\ Loops' = Loops /\ (Fits' <=> Fits)
      BY <2>5, SameCall
      DEF Malloc, Succeeds, FailsAndTells, Failure, resources, runtime, history
    <3>1. TypeOK'
      BY <2>5, <3>6, <3>7
      DEF Malloc, Succeeds, FailsAndTells, Failure, resources, runtime, history, TypeOK
    <3>2. HeldInv'
      BY <2>5, <3>0
      DEF Malloc, Succeeds, FailsAndTells, Failure, resources, runtime, history, TypeOK,
          HeldInv
    <3>3. CopiesInv'
      BY <2>5, <3>0
      DEF Malloc, Succeeds, FailsAndTells, Failure, resources, runtime, history, TypeOK,
          CopiesInv
    <3>4. EndInv'
      BY <2>5, <3>0
      DEF Malloc, Succeeds, FailsAndTells, Failure, resources, runtime, history, TypeOK,
          EndInv
    <3>5. CleanInv' /\ CleanIsClean'
      BY <2>5, <3>0
      DEF Malloc, Succeeds, FailsAndTells, Failure, resources, runtime, history, TypeOK,
          CleanInv, CleanIsClean, EndInv
    <3> QED BY <3>1, <3>2, <3>3, <3>4, <3>5
  <2>6. ASSUME NEW here, NEW next, CreateEvent(here, next),
               <<here, next>> \in {<<"create0", "create1">>, <<"create1", "record0">>}
        PROVE  CudaInv'
    <3>1. CASE Succeeds /\ events' = events + 1 /\ at' = next /\ UNCHANGED <<transfer, copies, recorded, out>>
      <4>0. Floats' = Floats /\ Loops' = Loops /\ (Fits' <=> Fits)
        BY <2>6, <3>1, SameCall DEF CreateEvent, Succeeds, runtime, history
      <4>1. TypeOK'
        BY <2>6, <3>1 DEF CreateEvent, Succeeds, runtime, history, TypeOK
      <4>2. HeldInv'
        BY <2>6, <3>1, <4>0 DEF CreateEvent, Succeeds, runtime, history, TypeOK, HeldInv
      <4>3. CopiesInv'
        BY <2>6, <3>1, <4>0 DEF CreateEvent, Succeeds, runtime, history, TypeOK, CopiesInv
      <4>4. EndInv'
        BY <2>6, <3>1, <4>0 DEF CreateEvent, Succeeds, runtime, history, TypeOK, EndInv
      <4>5. CleanInv' /\ CleanIsClean'
        BY <2>6, <3>1, <4>0
        DEF CreateEvent, Succeeds, runtime, history, TypeOK, CleanInv, CleanIsClean, EndInv
      <4> QED BY <4>1, <4>2, <4>3, <4>4, <4>5
    <3>2. CASE Fails /\ Returns(NoSample)
      <4>1. NoSample \in Sample /\ ~NoSample.ok
        BY DEF NoSample, Sample
      <4> QED BY <2>6, <3>2, <4>1, ReturnsInv DEF CreateEvent, Fails, Failure, TypeOK
    <3> QED BY <2>6, <3>1, <3>2 DEF CreateEvent
  <2>7. ASSUME NEW t, NEW next, RecordEvent(t, next),
               \/ at = "record0" /\ t = "t0" /\ next = "copy"
               \/ at = "copy" /\ CopiesDone(copies) /\ t = "t1" /\ next = "synchronize"
        PROVE  CudaInv'
    <3>6. CopiesDone(copies) => copies >= Loops
      BY IntOf DEF CopiesDone, Loops, TypeOK
    <3>7. Loops \in Nat
      BY LoopsOf DEF TypeOK
    <3>0. Floats' = Floats /\ Loops' = Loops /\ (Fits' <=> Fits)
      BY <2>7, <3>6, <3>7, SameCall
      DEF RecordEvent, Succeeds, Fails, Failure, resources, runtime, history
    <3>1. TypeOK'
      BY <2>7, <3>6, <3>7
      DEF RecordEvent, Succeeds, Fails, Failure, resources, runtime, history, TypeOK
    <3>2. HeldInv'
      BY <2>7, <3>6, <3>7, <3>0
      DEF RecordEvent, Succeeds, Fails, Failure, resources, runtime, history, TypeOK,
          HeldInv
    <3>3. CopiesInv'
      BY <2>7, <3>6, <3>7, <3>0
      DEF RecordEvent, Succeeds, Fails, Failure, resources, runtime, history, TypeOK,
          CopiesInv
    <3>4. EndInv'
      BY <2>7, <3>6, <3>7, <3>0
      DEF RecordEvent, Succeeds, Fails, Failure, resources, runtime, history, TypeOK, EndInv
    <3>5. CleanInv' /\ CleanIsClean'
      BY <2>7, <3>6, <3>7, <3>0
      DEF RecordEvent, Succeeds, Fails, Failure, resources, runtime, history, TypeOK,
          CleanInv, CleanIsClean, EndInv
    <3> QED BY <3>1, <3>2, <3>3, <3>4, <3>5
  <2>8. CASE Memcpy
    <3>3. ~CopiesDone(copies) => copies < Loops
      BY IntOf DEF CopiesDone, Loops, TypeOK
    <3>4. Loops \in Nat
      BY LoopsOf DEF TypeOK
    <3>1. CASE /\ Succeeds
               /\ copies' = copies + 1
               /\ completed' = [completed EXCEPT ![transfer] = @ + 1]
               /\ content' = IF ToDevice(transfer) THEN "pattern" ELSE content
               /\ UNCHANGED <<at, transfer, recorded, events, out>>
      <4>0. Floats' = Floats /\ Loops' = Loops /\ (Fits' <=> Fits)
        BY <2>8, <3>1, <3>3, <3>4, SameCall DEF Memcpy, Succeeds, runtime, history
      <4>1. TypeOK'
        BY <2>8, <3>1, <3>3, <3>4 DEF Memcpy, Succeeds, runtime, history, TypeOK
      <4>2. HeldInv'
        BY <2>8, <3>1, <3>3, <3>4, <4>0
        DEF Memcpy, Succeeds, runtime, history, TypeOK, HeldInv
      <4>3. CopiesInv'
        BY <2>8, <3>1, <3>3, <3>4, <4>0
        DEF Memcpy, Succeeds, runtime, history, TypeOK, CopiesInv
      <4>4. EndInv'
        BY <2>8, <3>1, <3>3, <3>4, <4>0
        DEF Memcpy, Succeeds, runtime, history, TypeOK, EndInv
      <4>5. CleanInv' /\ CleanIsClean'
        BY <2>8, <3>1, <3>3, <3>4, <4>0
        DEF Memcpy, Succeeds, runtime, history, TypeOK, CleanInv, CleanIsClean, EndInv
      <4> QED BY <4>1, <4>2, <4>3, <4>4, <4>5
    <3>2. CASE Fails /\ Returns(NoSample) /\ UNCHANGED <<completed, content>>
      <4>1. NoSample \in Sample /\ ~NoSample.ok
        BY DEF NoSample, Sample
      <4> QED BY <2>8, <3>2, <4>1, ReturnsInv DEF Memcpy, Fails, Failure, TypeOK, history
    <3> QED BY <2>8, <3>1, <3>2 DEF Memcpy
  <2>9. CASE SynchronizeEvent
    <3>1. CASE Succeeds /\ at' = "elapsed" /\ UNCHANGED <<transfer, copies, recorded, events, out>>
      <4>0. Floats' = Floats /\ Loops' = Loops /\ (Fits' <=> Fits)
        BY <2>9, <3>1, SameCall DEF SynchronizeEvent, Succeeds, runtime, history
      <4>1. TypeOK'
        BY <2>9, <3>1 DEF SynchronizeEvent, Succeeds, runtime, history, TypeOK
      <4>2. HeldInv'
        BY <2>9, <3>1, <4>0
        DEF SynchronizeEvent, Succeeds, runtime, history, TypeOK, HeldInv
      <4>3. CopiesInv'
        BY <2>9, <3>1, <4>0
        DEF SynchronizeEvent, Succeeds, runtime, history, TypeOK, CopiesInv
      <4>4. EndInv'
        BY <2>9, <3>1, <4>0 DEF SynchronizeEvent, Succeeds, runtime, history, TypeOK, EndInv
      <4>5. CleanInv' /\ CleanIsClean'
        BY <2>9, <3>1, <4>0
        DEF SynchronizeEvent, Succeeds, runtime, history, TypeOK, CleanInv, CleanIsClean,
            EndInv
      <4> QED BY <4>1, <4>2, <4>3, <4>4, <4>5
    <3>2. CASE Fails /\ Returns(NoSample)
      <4>1. NoSample \in Sample /\ ~NoSample.ok
        BY DEF NoSample, Sample
      <4> QED BY <2>9, <3>2, <4>1, ReturnsInv DEF SynchronizeEvent, Fails, Failure, TypeOK
    <3> QED BY <2>9, <3>1, <3>2 DEF SynchronizeEvent
  <2>10. CASE Elapsed
    <3>1. CASE Succeeds /\ Returns([ok |-> TRUE, timed |-> TRUE])
      BY <2>10, <3>1, ReturnsInv DEF Elapsed, Succeeds, Sample, TypeOK, CopiesInv, runtime
    <3>2. CASE Failure(recorded # {"t0", "t1"}) /\ lastError' = TRUE
               /\ Returns([ok |-> TRUE, timed |-> FALSE])
      BY <2>10, <3>2, ReturnsInv DEF Elapsed, Failure, Sample, TypeOK, CopiesInv
    <3> QED BY <2>10, <3>1, <3>2 DEF Elapsed
  <2>11. CASE KernelCopy
    <3>0. Floats' = Floats /\ Loops' = Loops /\ (Fits' <=> Fits)
      BY <2>11, SameCall
      DEF KernelCopy, KernelCall, Succeeds, Fails, Failure, runtime, history
    <3>1. TypeOK'
      BY <2>11
      DEF KernelCopy, KernelCall, Succeeds, Fails, Failure, runtime, history, TypeOK
    <3>2. HeldInv'
      BY <2>11, <3>0
      DEF KernelCopy, KernelCall, Succeeds, Fails, Failure, runtime, history, TypeOK,
          HeldInv
    <3>3. CopiesInv'
      BY <2>11, <3>0
      DEF KernelCopy, KernelCall, Succeeds, Fails, Failure, runtime, history, TypeOK,
          CopiesInv
    <3>4. EndInv'
      BY <2>11, <3>0
      DEF KernelCopy, KernelCall, Succeeds, Fails, Failure, runtime, history, TypeOK, EndInv
    <3>5. CleanInv' /\ CleanIsClean'
      BY <2>11, <3>0
      DEF KernelCopy, KernelCall, Succeeds, Fails, Failure, runtime, history, TypeOK,
          CleanInv, CleanIsClean, EndInv
    <3> QED BY <3>1, <3>2, <3>3, <3>4, <3>5
  <2>12. CASE Launch
    <3>0. Floats' = Floats /\ Loops' = Loops /\ (Fits' <=> Fits)
      BY <2>12, SameCall DEF Launch, Succeeds, Fails, Failure, runtime, history, Fits
    <3>1. TypeOK'
      BY <2>12 DEF Launch, Succeeds, Fails, Failure, runtime, history, Fits, TypeOK
    <3>2. HeldInv'
      BY <2>12, <3>0
      DEF Launch, Succeeds, Fails, Failure, runtime, history, Fits, TypeOK, HeldInv
    <3>3. CopiesInv'
      BY <2>12, <3>0
      DEF Launch, Succeeds, Fails, Failure, runtime, history, Fits, TypeOK, CopiesInv
    <3>4. EndInv'
      BY <2>12, <3>0
      DEF Launch, Succeeds, Fails, Failure, runtime, history, Fits, TypeOK, EndInv
    <3>5. CleanInv' /\ CleanIsClean'
      BY <2>12, <3>0
      DEF Launch, Succeeds, Fails, Failure, runtime, history, Fits, TypeOK, CleanInv,
          CleanIsClean, EndInv
    <3> QED BY <3>1, <3>2, <3>3, <3>4, <3>5
  <2>13. CASE DeviceSynchronize
    <3>0. Floats' = Floats /\ Loops' = Loops /\ (Fits' <=> Fits)
      BY <2>13, SameCall
      DEF DeviceSynchronize, KernelCall, Succeeds, Fails, Failure, runtime, history
    <3>1. TypeOK'
      BY <2>13
      DEF DeviceSynchronize, KernelCall, Succeeds, Fails, Failure, runtime, history, TypeOK
    <3>2. HeldInv'
      BY <2>13, <3>0
      DEF DeviceSynchronize, KernelCall, Succeeds, Fails, Failure, runtime, history, TypeOK,
          HeldInv
    <3>3. CopiesInv'
      BY <2>13, <3>0
      DEF DeviceSynchronize, KernelCall, Succeeds, Fails, Failure, runtime, history, TypeOK,
          CopiesInv
    <3>4. EndInv'
      BY <2>13, <3>0
      DEF DeviceSynchronize, KernelCall, Succeeds, Fails, Failure, runtime, history, TypeOK,
          EndInv
    <3>5. CleanInv' /\ CleanIsClean'
      BY <2>13, <3>0
      DEF DeviceSynchronize, KernelCall, Succeeds, Fails, Failure, runtime, history, TypeOK,
          CleanInv, CleanIsClean, EndInv
    <3> QED BY <3>1, <3>2, <3>3, <3>4, <3>5
  <2>14. CASE ReadBack
    <3>0. Floats' = Floats /\ Loops' = Loops /\ (Fits' <=> Fits)
      BY <2>14, SameCall
      DEF ReadBack, CudaResult, Succeeds, Fails, Failure, resources, runtime, history
    <3>1. TypeOK'
      BY <2>14
      DEF ReadBack, CudaResult, Succeeds, Fails, Failure, resources, runtime, history,
          TypeOK
    <3>2. HeldInv'
      BY <2>14, <3>0
      DEF ReadBack, CudaResult, Succeeds, Fails, Failure, resources, runtime, history,
          TypeOK, HeldInv
    <3>3. CopiesInv'
      BY <2>14, <3>0
      DEF ReadBack, CudaResult, Succeeds, Fails, Failure, resources, runtime, history,
          TypeOK, CopiesInv
    <3>4. EndInv'
      BY <2>14, <3>0
      DEF ReadBack, CudaResult, Succeeds, Fails, Failure, resources, runtime, history,
          TypeOK, EndInv
    <3>5. CleanInv' /\ CleanIsClean'
      BY <2>14, <3>0
      DEF ReadBack, CudaResult, Succeeds, Fails, Failure, resources, runtime, history,
          TypeOK, CleanInv, CleanIsClean, EndInv
    <3> QED BY <3>1, <3>2, <3>3, <3>4, <3>5
  <2>15. CASE Release
    <3>6. pinned' \in Nat /\ device' \in Nat
      BY <2>15 DEF Release, TypeOK, HeldInv
    <3>7. /\ lastError' \in BOOLEAN /\ broken' \in BOOLEAN /\ failed' \in BOOLEAN
          /\ content' \in {"undefined", "pattern", "result", "partial"} /\ at' \in Place
      BY <2>15 DEF Release, TypeOK
    <3>0. Floats' = Floats /\ Loops' = Loops /\ (Fits' <=> Fits)
      BY <2>15, SameCall DEF Release, LastIsSuccess, CudaResult, history
    <3>1. TypeOK'
      BY <2>15, <3>6, <3>7 DEF Release, LastIsSuccess, CudaResult, history, TypeOK
    <3>2. HeldInv'
      BY <2>15, <3>0 DEF Release, LastIsSuccess, CudaResult, history, TypeOK, HeldInv
    <3>3. CopiesInv'
      BY <2>15, <3>0 DEF Release, LastIsSuccess, CudaResult, history, TypeOK, CopiesInv
    <3>4. EndInv'
      BY <2>15, <3>0 DEF Release, LastIsSuccess, CudaResult, history, TypeOK, EndInv
    <3>5. CleanInv' /\ CleanIsClean'
      BY <2>15, <3>0, IntOf, FloatsOf
      DEF Release, LastIsSuccess, CudaResult, history, TypeOK, CleanInv, CleanIsClean,
          EndInv, Fits
    <3> QED BY <3>1, <3>2, <3>3, <3>4, <3>5
  <2>16. CASE Throw
    <3>0. Floats' = Floats /\ Loops' = Loops /\ (Fits' <=> Fits)
      BY <2>16, SameCall DEF Throw, resources, runtime, history
    <3>1. TypeOK'
      BY <2>16, NoResultType DEF Throw, resources, runtime, history, TypeOK
    <3>2. HeldInv'
      BY <2>16, <3>0 DEF Throw, resources, runtime, history, TypeOK, HeldInv
    <3>3. CopiesInv'
      BY <2>16, <3>0, NoResultType DEF Throw, resources, runtime, history, TypeOK, CopiesInv
    <3>4. EndInv'
      BY <2>16, <3>0, NoResultType DEF Throw, resources, runtime, history, TypeOK, EndInv
    <3>5. CleanInv' /\ CleanIsClean'
      BY <2>16, <3>0, NoResultType
      DEF Throw, resources, runtime, history, TypeOK, CleanInv, CleanIsClean, EndInv
    <3> QED BY <3>1, <3>2, <3>3, <3>4, <3>5
  <2>17. CASE FillPattern
    <3>0. Floats' = Floats /\ Loops' = Loops /\ (Fits' <=> Fits)
      BY <2>17, SameCall DEF FillPattern, resources, runtime, history
    <3>1. TypeOK'
      BY <2>17 DEF FillPattern, resources, runtime, history, TypeOK
    <3>2. HeldInv'
      BY <2>17, <3>0 DEF FillPattern, resources, runtime, history, TypeOK, HeldInv
    <3>3. CopiesInv'
      BY <2>17, <3>0 DEF FillPattern, resources, runtime, history, TypeOK, CopiesInv
    <3>4. EndInv'
      BY <2>17, <3>0 DEF FillPattern, resources, runtime, history, TypeOK, EndInv
    <3>5. CleanInv' /\ CleanIsClean'
      BY <2>17, <3>0
      DEF FillPattern, resources, runtime, history, TypeOK, CleanInv, CleanIsClean, EndInv,
          CopiesInv
    <3> QED BY <3>1, <3>2, <3>3, <3>4, <3>5
  <2>18. CASE Overrun
    <3>0. Floats' = Floats /\ Loops' = Loops /\ (Fits' <=> Fits)
      BY <2>18, SameCall DEF Overrun, resources, runtime, history
    <3>1. TypeOK'
      BY <2>18 DEF Overrun, resources, runtime, history, TypeOK
    <3>2. HeldInv'
      BY <2>18, <3>0 DEF Overrun, resources, runtime, history, TypeOK, HeldInv
    <3>3. CopiesInv'
      BY <2>18, <3>0 DEF Overrun, resources, runtime, history, TypeOK, CopiesInv
    <3>4. EndInv'
      BY <2>18, <3>0 DEF Overrun, resources, runtime, history, TypeOK, EndInv
    <3>5. CleanInv' /\ CleanIsClean'
      BY <2>18, <3>0
      DEF Overrun, resources, runtime, history, TypeOK, CleanInv, CleanIsClean, EndInv
    <3> QED BY <3>1, <3>2, <3>3, <3>4, <3>5
  <2>19. CASE UNCHANGED vars
    <3>0. Floats' = Floats /\ Loops' = Loops /\ (Fits' <=> Fits)
      BY <2>19, SameCall DEF vars, resources, runtime, history
    <3>1. TypeOK'
      BY <2>19 DEF vars, resources, runtime, history, TypeOK
    <3>2. HeldInv'
      BY <2>19, <3>0 DEF vars, resources, runtime, history, TypeOK, HeldInv
    <3>3. CopiesInv'
      BY <2>19, <3>0 DEF vars, resources, runtime, history, TypeOK, CopiesInv
    <3>4. EndInv'
      BY <2>19, <3>0 DEF vars, resources, runtime, history, TypeOK, EndInv
    <3>5. CleanInv' /\ CleanIsClean'
      BY <2>19, <3>0
      DEF vars, resources, runtime, history, TypeOK, CleanInv, CleanIsClean, EndInv
    <3> QED BY <3>1, <3>2, <3>3, <3>4, <3>5
  <2> QED
    BY <2>1, <2>2, <2>3, <2>4, <2>5, <2>6, <2>7, <2>8, <2>9, <2>10, <2>11, <2>12, <2>13,
       <2>14, <2>15, <2>16, <2>17, <2>18, <2>19
    DEF Next, TimedTransfer
<1> QED BY <1>1, <1>2, PTL DEF Spec

\* Whichever calls of run_proof fail, its early returns and its end give back the
\* events, the pinned and the device memory, unless the context itself was lost; an
\* exception leaks one block of each at most.  Without one nothing leaks.
THEOREM ResourcesAreReleased == Spec => []EverythingIsReleased
<1>1. CudaInv => EverythingIsReleased
  BY DEF CudaInv, HeldInv, TypeOK, EverythingIsReleased, HoldsPinned, HoldsDevice,
     Transferring, WithEvents, Finishing, KernelReady
<1> QED BY <1>1, CudaInvHolds, PTL

\* The one look run_proof takes at cudaGetLastError covers the whole run: although
\* most answers are dropped on the way, cuda_clean is only set when every call
\* succeeded, all four samples are good and timed, and the kernel was verified or
\* told of fewer floats than there are, their number being too large for an int.
THEOREM CleanRunIsClean == Spec => []CleanIsClean
<1>1. CudaInv => CleanIsClean
  BY DEF CudaInv
<1> QED BY <1>1, CudaInvHolds, PTL

\* timed_transfer never marks a sample good short of its iterations when those fit an
\* int, and the kernel is never reported verified without its whole result on the
\* device.
THEOREM GoodSampleIsComplete == Spec => []GoodIsComplete
<1>1. CudaInv => GoodIsComplete
  BY TransferCount, LoopsOf DEF CudaInv, TypeOK, CopiesInv, EndInv, GoodIsComplete
<1> QED BY <1>1, CudaInvHolds, PTL
=============================================================================
