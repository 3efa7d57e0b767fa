-------------------------------- MODULE Cuda --------------------------------
(***************************************************************************)
(* run_proof, with detect_device and timed_transfer                        *)
(* (src/pciefabric/cuda_engine.cu): four timed transfers and a kernel on a *)
(* real device.  Each action is one call into the CUDA runtime with the    *)
(* code that depends on its answer.                                        *)
(*                                                                         *)
(* The CUDA runtime is external.  Any call may fail.  A failure is         *)
(* remembered until cudaGetLastError is asked, which forgets it again, and *)
(* may leave the context unusable: then every later call fails too,        *)
(* releases included.  A kernel launch returns nothing; a launch that was  *)
(* refused shows in cudaGetLastError only.  Memory on the host may run out *)
(* as well, and then run_proof is left by an exception.                    *)
(*                                                                         *)
(* Two numbers of the caller are u64 and become an int on the way: the     *)
(* copies of a transfer and the floats the kernel is told of.  A size that *)
(* is not a multiple of sizeof(float) makes run_proof read and write up to *)
(* three bytes behind its vectors, which may end the process.              *)
(*                                                                         *)
(* Amounts of memory are left out, and with them mem_clean, which other    *)
(* processes can change.                                                   *)
(***************************************************************************)
EXTENDS Integers, Sequences

CONSTANTS
    Bytes,           \* sizes run_proof is called with
    Iterations,      \* copies per transfer it is called with
    DefaultBytes,    \* 256 MiB
    DefaultIterations,  \* 8
    IntHalf,         \* 2^31: an int lies in -IntHalf .. IntHalf - 1
    Threads,         \* threads in a block of the kernel (256)
    MaxRuns,         \* bound: calls of run_proof
    MaxFailures      \* bound: calls and allocations that fail by themselves

ASSUME CudaAssumption ==
    /\ Bytes \subseteq Nat /\ Iterations \subseteq Nat
    /\ DefaultBytes \in Nat \ {0} /\ DefaultIterations \in Nat \ {0}
    /\ IntHalf \in Nat \ {0} /\ Threads \in Nat \ {0}
    /\ MaxRuns \in Nat /\ MaxFailures \in Nat

VARIABLES
    at,              \* the next call, "idle" outside run_proof, "dead" once the process is
    bytes, iters,    \* what run_proof was called with, defaults filled in
    transfer,        \* the transfer in progress: its place in Transfer
    copies,          \* copies of it that succeeded
    recorded,        \* which of t0, t1 was recorded
    events,          \* events created and not destroyed
    pinned,          \* blocks of pinned host memory not given back
    device,          \* blocks of device memory not given back
    content,         \* what d_buf holds: "undefined", "pattern", "result" or "partial"
    lastError,       \* cudaGetLastError would report a failure
    broken,          \* the context is unusable
    out,             \* the CudaProofResult
    identified,      \* history: CUDA gave this run the address of the device
    thrown,          \* history: exceptions that left run_proof
    failed,          \* history: a call of this run failed before it asked cudaGetLastError
    completed,       \* history: copies that succeeded in each transfer
    runs, failures

resources == <<events, pinned, device, content>>
runtime == <<lastError, broken, failures, failed>>
history == <<identified, completed, runs, bytes, iters>>
vars == <<at, transfer, copies, recorded, resources, runtime, out, thrown, history>>

\* In the order they are made; the second of each pair copies back to the host.
Transfer == <<"pageable_h2d", "pageable_d2h", "pinned_h2d", "pinned_d2h">>
ToDevice(k) == k \in {1, 3}

NoSample == [ok |-> FALSE, timed |-> FALSE]

NoResult ==
    [ok |-> FALSE, pci_correlated |-> FALSE, kernel_verified |-> FALSE, cuda_clean |-> FALSE,
     sample |-> [k \in DOMAIN Transfer |-> NoSample]]

FloatSize == 4
Floats == bytes \div FloatSize

\* static_cast<int> of a u64.
AsInt(x) ==
    LET low == x % (2 * IntHalf) IN IF low < IntHalf THEN low ELSE low - 2 * IntHalf

-----------------------------------------------------------------------------
(* The CUDA runtime *)

Succeeds == ~broken /\ UNCHANGED runtime

\* A call fails for a reason of its own, which may cost the context, or because
\* it had to: the context is unusable, or its arguments are.
Failure(forced) ==
    /\ failed' = TRUE
    /\ IF broken \/ forced THEN UNCHANGED <<broken, failures>>
       ELSE failures < MaxFailures /\ failures' = failures + 1 /\ broken' \in BOOLEAN

Fails == Failure(FALSE) /\ lastError' = TRUE

\* The caller asks cudaGetLastError for its message.
FailsAndTells == Failure(FALSE) /\ lastError' = broken'

MutantDestroyEvents == UNCHANGED events

\* Releases only fail in an unusable context.
DestroyEvents == events' = IF broken' THEN events ELSE 0

-----------------------------------------------------------------------------
(* run_proof before the transfers *)

\* detect_device asks for the number of devices; without one run_proof is over.
DeviceCount ==
    /\ at = "idle" /\ runs < MaxRuns
    /\ runs' = runs + 1
    /\ bytes' \in {IF n = 0 THEN DefaultBytes ELSE n : n \in Bytes}
    /\ iters' \in {IF n = 0 THEN DefaultIterations ELSE n : n \in Iterations}
    /\ out' = NoResult /\ identified' = FALSE
    /\ completed' = [k \in DOMAIN Transfer |-> 0]
    /\ transfer' = 1 /\ copies' = 0 /\ recorded' = {}
    /\ \/ /\ ~broken /\ failed' = FALSE
          /\ UNCHANGED <<lastError, broken, failures>>
          /\ at' \in {"identify", "idle"}
       \/ Fails /\ at' = "idle"
    /\ UNCHANGED <<resources, thrown>>

\* cudaDeviceGetPCIBusId.  An address that is not given, is empty or is refused by
\* Bdf::parse stays the default one, 0000:00:00.0, which is valid.
Identify ==
    /\ at = "identify" /\ at' = "describe"
    /\ \/ Succeeds /\ identified' \in BOOLEAN
       \/ Fails /\ UNCHANGED identified
    /\ UNCHANGED <<transfer, copies, recorded, resources, out, thrown, completed, runs, bytes, iters>>

\* cudaGetDeviceProperties and cudaMemGetInfo: nothing depends on their answers.
Describe ==
    /\ at = "describe" /\ at' = "host_alloc"
    /\ Succeeds \/ Fails
    /\ UNCHANGED <<transfer, copies, recorded, resources, out, thrown, history>>

\* Memory on the host runs out: h_page before cudaHostAlloc, h_back and h_pin_back
\* before the two transfers to the host, expect before the kernel, got (or the text
\* of kernel_reference) after it.  Nothing but the vectors is destroyed on the way out.
Throw ==
    /\ \/ at \in {"host_alloc", "kernel_copy", "read_back"}
       \/ at = "create0" /\ ~ToDevice(transfer)
    /\ failures < MaxFailures /\ failures' = failures + 1
    /\ at' = "idle" /\ thrown' = thrown + 1 /\ out' = NoResult
    /\ UNCHANGED <<transfer, copies, recorded, resources, lastError, broken, failed, history>>

\* Here and in Malloc the failure is reported in out.error, with ok unset.
HostAlloc ==
    /\ at = "host_alloc"
    /\ \/ Succeeds /\ pinned' = pinned + 1 /\ at' = "malloc"
       \/ FailsAndTells /\ UNCHANGED pinned /\ at' = "idle"
    /\ UNCHANGED <<transfer, copies, recorded, events, device, content, out, thrown, history>>

\* The text of the failure is put together before h_pin is given back, and there
\* may be no memory for it.
Malloc ==
    /\ at = "malloc"
    /\ content' = "undefined"
    /\ \/ Succeeds /\ device' = device + 1 /\ at' = "fill" /\ UNCHANGED <<pinned, thrown>>
       \/ /\ FailsAndTells /\ at' = "idle" /\ UNCHANGED device
          /\ \/ pinned' = (IF broken' THEN pinned ELSE pinned - 1) /\ UNCHANGED thrown
             \/ thrown' = thrown + 1 /\ UNCHANGED pinned
    /\ UNCHANGED <<transfer, copies, recorded, events, out, history>>

\* The pattern is made in h_page and copied to h_pin.  With less than one float,
\* h_page has nothing to copy from: see Overrun.
FillPattern ==
    /\ at = "fill" /\ Floats > 0 /\ at' = "create0"
    /\ UNCHANGED <<transfer, copies, recorded, resources, runtime, out, thrown, history>>

-----------------------------------------------------------------------------
(* timed_transfer *)

\* It returns, with the sample it was called for, and run_proof goes on.
Returns(sample) ==
    /\ DestroyEvents
    /\ out' = [out EXCEPT !.sample[transfer] = sample]
    /\ copies' = 0 /\ recorded' = {}
    /\ IF transfer < Len(Transfer)
       THEN transfer' = transfer + 1 /\ at' = "create0"
       ELSE UNCHANGED transfer /\ at' = IF bytes >= FloatSize THEN "kernel_copy" ELSE "release"

CreateEvent(here, next) ==
    /\ at = here
    /\ \/ Succeeds /\ events' = events + 1 /\ at' = next /\ UNCHANGED <<transfer, copies, recorded, out>>
       \/ Fails /\ Returns(NoSample)
    /\ UNCHANGED <<pinned, device, content, thrown, history>>

\* The answer of cudaEventRecord is not looked at.
RecordEvent(t, next) ==
    /\ at' = next
    /\ \/ Succeeds /\ recorded' = recorded \cup {t}
       \/ Fails /\ UNCHANGED recorded
    /\ UNCHANGED <<transfer, copies, resources, out, thrown, history>>

MutantCopiesDone(n) == n + 1 >= AsInt(iters)

\* The head of the loop over the copies; iters is an int in it.
CopiesDone(n) == n >= AsInt(iters)

Memcpy ==
    /\ at = "copy" /\ ~CopiesDone(copies)
    /\ \/ /\ Succeeds
          /\ copies' = copies + 1
          /\ completed' = [completed EXCEPT ![transfer] = @ + 1]
          /\ content' = IF ToDevice(transfer) THEN "pattern" ELSE content
          /\ UNCHANGED <<at, transfer, recorded, events, out>>
       \/ Fails /\ Returns(NoSample) /\ UNCHANGED <<completed, content>>
    /\ UNCHANGED <<pinned, device, thrown, identified, runs, bytes, iters>>

\* An event that was not recorded does not make cudaEventSynchronize wait.
SynchronizeEvent ==
    /\ at = "synchronize"
    /\ \/ Succeeds /\ at' = "elapsed" /\ UNCHANGED <<transfer, copies, recorded, events, out>>
       \/ Fails /\ Returns(NoSample)
    /\ UNCHANGED <<pinned, device, content, thrown, history>>

\* Without two recorded events there is no time, but there is a sample.
Elapsed ==
    LET timed == recorded = {"t0", "t1"} IN
    /\ at = "elapsed"
    /\ \/ timed /\ Succeeds /\ Returns([ok |-> TRUE, timed |-> TRUE])
       \/ /\ Failure(~timed) /\ lastError' = TRUE
          /\ Returns([ok |-> TRUE, timed |-> FALSE])
    /\ UNCHANGED <<pinned, device, content, thrown, history>>

TimedTransfer ==
    \/ CreateEvent("create0", "create1") \/ CreateEvent("create1", "record0")
    \/ at = "record0" /\ RecordEvent("t0", "copy")
    \/ Memcpy
    \/ at = "copy" /\ CopiesDone(copies) /\ RecordEvent("t1", "synchronize")
    \/ SynchronizeEvent \/ Elapsed

-----------------------------------------------------------------------------
(* The kernel, and the end of run_proof *)

\* A call that decides where run_proof goes on and what is then on the device.
KernelCall(here, next, otherwise, good, bad) ==
    /\ at = here
    /\ \/ Succeeds /\ at' = next /\ content' = good
       \/ Fails /\ at' = otherwise /\ content' = bad
    /\ UNCHANGED <<transfer, copies, recorded, events, pinned, device, out, thrown, history>>

KernelCopy == KernelCall("kernel_copy", "launch", "release", "pattern", content)

\* The kernel is told of n floats, of which there may be more.  Without any there is
\* no block to launch; n + threads - 1 may overflow, and the launch then be refused
\* or not.  A launch that is refused leaves the pattern as it is.
Launch ==
    LET n == AsInt(Floats) IN
    /\ at = "launch" /\ at' = "synchronize_all"
    /\ \/ n > 0 /\ Succeeds /\ content' = IF n = Floats THEN "result" ELSE "partial"
       \/ /\ Failure(n <= 0 \/ n + Threads > IntHalf) /\ lastError' = TRUE
          /\ UNCHANGED content
    /\ UNCHANGED <<transfer, copies, recorded, events, pinned, device, out, thrown, history>>

DeviceSynchronize == KernelCall("synchronize_all", "read_back", "release", content, "undefined")

\* The pattern starts with 0, which the kernel maps to 0: one float alone cannot
\* tell whether the kernel ran.
ReadBack ==
    /\ at = "read_back" /\ at' = "release"
    /\ \/ Succeeds /\ out' = [out EXCEPT !.kernel_verified = (content = "result" \/ Floats = 1)]
       \/ Fails /\ UNCHANGED out
    /\ UNCHANGED <<transfer, copies, recorded, resources, thrown, history>>

MutantLastIsSuccess == ~broken

LastIsSuccess == ~lastError

\* cudaFree and cudaFreeHost, cudaGetLastError, and cudaMemGetInfo after it,
\* whose failure is left for the next run to find.
Release ==
    /\ at = "release" /\ at' = "idle"
    /\ pinned' = (IF broken THEN pinned ELSE pinned - 1)
    /\ device' = (IF broken THEN device ELSE device - 1)
    /\ out' = [out EXCEPT !.ok = TRUE, !.pci_correlated = TRUE, !.cuda_clean = LastIsSuccess]
    /\ \/ ~broken /\ lastError' = FALSE /\ UNCHANGED <<broken, failures, failed>>
       \/ lastError' = TRUE /\ UNCHANGED failed
          /\ IF broken THEN UNCHANGED <<broken, failures>>
             ELSE failures < MaxFailures /\ failures' = failures + 1 /\ broken' \in BOOLEAN
    /\ UNCHANGED <<transfer, copies, recorded, events, content, thrown, history>>

\* Behind h_page, h_back, h_pin_back and got lies what the size has more than whole
\* floats; reading or overwriting it does nothing that is modelled, or ends the process.
Overrun ==
    /\ at \notin {"idle", "dead", "identify", "describe", "host_alloc", "malloc"}
    /\ bytes % FloatSize # 0
    /\ at' = "dead"
    /\ UNCHANGED <<transfer, copies, recorded, resources, runtime, out, thrown, history>>

-----------------------------------------------------------------------------
Init ==
    /\ at = "idle" /\ transfer = 1 /\ copies = 0 /\ recorded = {}
    /\ events = 0 /\ pinned = 0 /\ device = 0 /\ content = "undefined"
    /\ lastError = FALSE /\ broken = FALSE /\ failures = 0 /\ failed = FALSE
    /\ out = NoResult /\ identified = FALSE
    /\ completed = [k \in DOMAIN Transfer |-> 0]
    /\ thrown = 0 /\ runs = 0 /\ bytes = 0 /\ iters = 0

Next ==
    \/ DeviceCount \/ Identify \/ Describe \/ Throw \/ HostAlloc \/ Malloc
    \/ FillPattern \/ TimedTransfer
    \/ KernelCopy \/ Launch \/ DeviceSynchronize \/ ReadBack
    \/ Release \/ Overrun

Spec == Init /\ [][Next]_vars

-----------------------------------------------------------------------------
(* Properties *)

\* Whichever calls failed, run_proof has given back its events, and its pinned and
\* its device memory but for one block of each for every exception that left it,
\* unless the context was lost, when nothing can be given back.
EverythingIsReleased ==
    at = "idle" /\ ~broken => events = 0 /\ pinned <= thrown /\ device <= thrown

\* "Complete resource/memory-accounting release" (cuda_engine.cu), as it stands.
NothingIsLeaked == at = "idle" /\ ~broken => events = 0 /\ pinned = 0 /\ device = 0

\* cuda_clean vouches for the other results, although most answers are dropped on
\* the way: with it set every call of the run succeeded, every sample is good and
\* has a time, and the kernel was verified, unless its floats did not fit an int.
CleanIsClean ==
    at = "idle" /\ out.cuda_clean =>
        /\ ~failed
        /\ \A k \in DOMAIN Transfer : out.sample[k].ok /\ out.sample[k].timed
        /\ Floats < IntHalf => out.kernel_verified

\* Clean or not, a sample is only marked good when all its copies were made, if
\* their number fits an int, and the kernel only verified when the whole result
\* was on the device.
GoodIsComplete ==
    /\ \A k \in DOMAIN Transfer :
          out.sample[k].ok /\ iters < IntHalf => completed[k] = iters
    /\ out.kernel_verified => content = "result" \/ Floats = 1

\* "All real transfers are completed ..., nothing is fabricated" (cuda_engine.hpp):
\* a good sample stands for the copies it names, however many those are.
SamplesAreComplete == \A k \in DOMAIN Transfer : out.sample[k].ok => completed[k] = iters

\* "Real CUDA device identity (PCI BDF from the CUDA runtime)" (cuda_engine.hpp): the
\* device is only reported correlated when CUDA gave its address.
CorrelatedIsIdentified == out.pci_correlated => identified
=============================================================================
