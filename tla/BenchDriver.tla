---------------------------- MODULE BenchDriver ----------------------------
(***************************************************************************)
(* run() of bench/bench_main.cpp: the options, the benchmarks they select, *)
(* each over warmup + iterations samples, the report and the CSV.  sign    *)
(* drives RequestSigner with a throwaway key, roundtrip is BenchRoundtrip. *)
(*                                                                         *)
(* A size_t counts modulo SizeMod, as strtoull's "-1" and an overflowing   *)
(* sum need.  What the samples are is left out here (see Percentile): a    *)
(* benchmark's samples are as many ones.                                   *)
(***************************************************************************)
EXTENDS BenchRoundtrip, RequestSigner

CONSTANTS
    SizeMod,      \* 2^64
    MaxReserve    \* samples that memory holds: reserve() throws above it

ASSUME DriverAssumption ==
    /\ SizeMod \in Nat \ {0}
    /\ MaxReserve \in 0..MaxFrames

Names == <<"decode", "encode_ack", "sign", "roundtrip">>

VARIABLES
    dpc,       \* where run() is
    options,   \* Options
    samples,   \* how many samples bench_sign has
    results,   \* the results so far: their names and Stats
    keyDir,    \* whether bench_sign's TempDirectory, with the key in it, exists
    csv,       \* the file at --csv: <<its lines>>, or << >> when there is none
    csvBefore, \* history: csv when the process started
    exit       \* the exit status, or -1

driverVars == <<dpc, options, samples, results, keyDir, csv, csvBefore, exit>>
driverRest == <<roundtripVars, signerVars>>
signerRest == <<key, ctx, fresh, message, signature, at, result, live, leaked>>

P == INSTANCE Percentile

Row(name, n, warmup) == [name |-> name, n |-> n, warmup |-> warmup]
Header == Row("header", 0, 0)

\* Bound: the CSV does not exist, is empty, or has an earlier run's header and row.
DriverInit ==
    /\ dpc = "options"
    /\ options = [iterations |-> 0, warmup |-> 0, only |-> "", csv |-> FALSE]
    /\ samples = 0 /\ results = << >> /\ keyDir = FALSE
    /\ csvBefore \in {<< >>, << << >> >>, << <<Header, Row("decode", 1, 0)>> >>}
    /\ csv = csvBefore
    /\ exit = -1

-----------------------------------------------------------------------------
(* The options.                                                            *)

Exit(code) == dpc' = "exited" /\ exit' = code

\* A flag that is unknown or has no value, a count that is no number, no iterations,
\* or a benchmark that does not exist: usage().
ParseOptions ==
    /\ dpc = "options"
    /\ \/ Exit(2) /\ UNCHANGED options
       \/ \E o \in [iterations : 1..(SizeMod - 1), warmup : 0..(SizeMod - 1),
                    only : {""} \cup Range(Names), csv : BOOLEAN] :
             options' = o /\ dpc' = "decode" /\ UNCHANGED exit
    /\ UNCHANGED <<samples, results, keyDir, csv, csvBefore, driverRest>>

Selected(name) == options.only \in {"", name}

\* options.warmup + options.iterations.
Samples == (options.warmup + options.iterations) % SizeMod

-----------------------------------------------------------------------------
(* The benchmarks.  An exception leaves run() and ends main with 1.        *)

\* Mutant: a sample that keeps nothing is a row of zeroes.
FromSamplesOfNothing(n) ==
    LET stats == P!FromSamples([i \in 1..n |-> 1], options.warmup)
    IN  IF stats.err = "none" THEN stats ELSE [err |-> "none", n |-> 0, warmup |-> n]

FromSamples(n) == P!FromSamples([i \in 1..n |-> 1], options.warmup)

\* The results of n samples under each of the names, or the exception.
Finish(names, n, next) ==
    IF FromSamples(n).err # "none" THEN Exit(1) /\ UNCHANGED results
    ELSE /\ results' = results \o [i \in DOMAIN names |->
                          Row(names[i], FromSamples(n).n, FromSamples(n).warmup)]
         /\ dpc' = next /\ UNCHANGED exit

Skip(name, next) == ~Selected(name) /\ dpc' = next /\ UNCHANGED <<results, exit>>

\* bench_decode and bench_encode_ack.  bench_wake's own frame always decodes.
Measure(name, next) ==
    /\ dpc = name
    /\ \/ Skip(name, next)
       \/ Selected(name) /\ Samples > MaxReserve /\ Exit(1) /\ UNCHANGED results
       \/ Selected(name) /\ Samples <= MaxReserve /\ Finish(<<name>>, Samples, next)
    /\ UNCHANGED <<options, samples, keyDir, csv, csvBefore, driverRest>>

BenchDecode == Measure("decode", "encode_ack")
BenchEncodeAck == Measure("encode_ack", "sign")

\* TempDirectory; a constructor that throws leaves no directory.
BenchSign ==
    /\ dpc = "sign"
    /\ \/ Skip("sign", "roundtrip") /\ UNCHANGED keyDir
       \/ Selected("sign") /\ Exit(1) /\ UNCHANGED <<results, keyDir>>
       \/ Selected("sign") /\ keyDir' = TRUE /\ dpc' = "key" /\ UNCHANGED <<results, exit>>
    /\ UNCHANGED <<options, samples, csv, csvBefore, driverRest>>

\* Mutant: a failed write_throwaway_key ends the process behind ~TempDirectory's back.
BenchWritesKeyAborts ==
    /\ dpc = "key"
    /\ \/ file' \in RsaKeys /\ dpc' = "load" /\ UNCHANGED exit
       \/ file' \in {"absent", "garbage"} /\ Exit(1)
    /\ UNCHANGED <<options, samples, results, keyDir, csv, csvBefore, roundtripVars,
                   signerRest>>

\* write_throwaway_key.  When it throws there may be no file yet, or a part of one.
BenchWritesKey ==
    /\ dpc = "key"
    /\ \/ file' \in RsaKeys /\ dpc' = "load"
       \/ file' \in {"absent", "garbage"} /\ dpc' = "unwind"
    /\ UNCHANGED <<options, samples, results, keyDir, csv, csvBefore, exit, roundtripVars,
                   signerRest>>

\* ~TempDirectory, with the exception of write_throwaway_key on its way to main.
BenchUnwinds ==
    /\ dpc = "unwind"
    /\ Exit(1) /\ keyDir' = FALSE /\ file' = "absent"
    /\ UNCHANGED <<options, samples, results, csv, csvBefore, roundtripVars, signerRest>>

BenchLoads ==
    /\ dpc = "load"
    /\ result = << >>
    /\ LoadOpens \/ LoadStep
    /\ UNCHANGED <<driverVars, roundtripVars>>

\* ~RequestSigner and ~TempDirectory, by return or by exception.
LeaveSign == DestroySigner /\ samples' = 0 /\ keyDir' = FALSE /\ file' = "absent"

\* load() has returned or thrown; samples.reserve() may throw.
BenchLoaded ==
    /\ dpc = "load" /\ result # << >>
    /\ IF result[1] = "ok" /\ Samples <= MaxReserve
       THEN dpc' = "signing" /\ UNCHANGED <<signerVars, samples, keyDir, exit>>
       ELSE Exit(1) /\ LeaveSign
    /\ UNCHANGED <<options, results, csv, csvBefore, roundtripVars>>

\* A sample is taken of a call that returned.
BenchSigns ==
    /\ dpc = "signing" /\ result # <<"threw">>
    /\ \/ /\ samples < Samples
          /\ \E request \in Requests : SignAssembles(request)
       \/ SignStep
    /\ samples' = IF result' # << >> /\ result'[1] = "signature" THEN samples + 1
                  ELSE samples
    /\ UNCHANGED <<dpc, options, results, keyDir, csv, csvBefore, exit, roundtripVars>>

BenchSigned ==
    /\ dpc = "signing"
    /\ \/ result = <<"threw">> /\ Exit(1) /\ UNCHANGED results
       \/ at = "idle" /\ samples = Samples /\ Finish(<<"sign">>, samples, "roundtrip")
    /\ LeaveSign
    /\ UNCHANGED <<options, csv, csvBefore, roundtripVars>>

\* bench_roundtrip, up to listen(), which may fail as reserve() may.
BenchRoundtripStarts ==
    /\ dpc = "roundtrip" /\ bpc = "idle"
    /\ \/ Skip("roundtrip", "report") /\ UNCHANGED roundtripVars
       \/ Selected("roundtrip") /\ Exit(1) /\ UNCHANGED <<results, roundtripVars>>
       \/ /\ Selected("roundtrip") /\ Samples <= MaxReserve
          /\ BenchStart(Samples)
          /\ UNCHANGED <<dpc, results, exit>>
    /\ UNCHANGED <<options, samples, keyDir, csv, csvBefore, signerVars>>

\* Behind the join: the counts are compared, and both spans summarised.
BenchRoundtripEnds ==
    /\ dpc = "roundtrip" /\ bpc = "done"
    /\ IF failed \/ Len(fired) # total \/ Len(recorded) # total
       THEN Exit(1) /\ UNCHANGED results
       ELSE Finish(<<"roundtrip", "wake_recv">>, total, "report")
    /\ UNCHANGED <<options, samples, keyDir, csv, csvBefore, driverRest>>

-----------------------------------------------------------------------------
(* The report.                                                             *)

Report ==
    /\ dpc = "report"
    /\ IF options.csv THEN dpc' = "csv" /\ UNCHANGED exit ELSE Exit(0)
    /\ UNCHANGED <<options, samples, results, keyDir, csv, csvBefore, driverRest>>

\* write_csv: the header when the file is new.  A flush that fails leaves any part
\* of what was written, and a file that was only created.
WriteCsv ==
    /\ dpc = "csv"
    /\ LET before == IF csv = << >> THEN << >> ELSE csv[1]
           lines == (IF csv = << >> THEN <<Header>> ELSE << >>) \o results
       IN  \/ csv' = <<before \o lines>> /\ Exit(0)
           \/ Exit(1) /\ UNCHANGED csv
           \/ /\ Exit(1)
              /\ \E n \in 0..Len(lines) : csv' = <<before \o SubSeq(lines, 1, n)>>
    /\ UNCHANGED <<options, samples, results, keyDir, csvBefore, driverRest>>

-----------------------------------------------------------------------------
Driver ==
    \/ ParseOptions \/ BenchDecode \/ BenchEncodeAck
    \/ BenchSign \/ BenchWritesKey \/ BenchUnwinds \/ BenchLoads \/ BenchLoaded \/ BenchSigns \/ BenchSigned
    \/ BenchRoundtripStarts \/ BenchRoundtripEnds
    \/ Report \/ WriteCsv

DriverNext ==
    \/ Driver
    \/ dpc = "roundtrip" /\ BenchNext /\ UNCHANGED <<driverVars, signerVars>>

\* Fairness.  run() is sequential code, every call of which returns, in two threads
\* while bench_roundtrip runs.
DriverFairness == WF_<<driverVars, driverRest>>(Driver) /\ BenchFairness

DriverSpec ==
    /\ BenchInit /\ SignerInit /\ DriverInit
    /\ [][DriverNext]_<<driverVars, driverRest>>
    /\ DriverFairness

-----------------------------------------------------------------------------
(* Properties.                                                             *)

\* The rows a benchmark is asked for, if it is.
Wanted(name, names) ==
    IF Selected(name)
    THEN [i \in DOMAIN names |-> Row(names[i], options.iterations, options.warmup)]
    ELSE << >>

\* A run that exits 0 measured what it was asked to: every selected benchmark, in
\* order, over exactly the iterations asked for behind the warm-up asked for, and
\* the CSV gained these rows, under a header that is there if the file is new.  A
\* warmup + iterations that wraps, an executor that lost a wake and a disk that is
\* full all end in another status.
ExitZeroMeansMeasured ==
    exit = 0 =>
        /\ results = Wanted("decode", <<"decode">>) \o Wanted("encode_ack", <<"encode_ack">>)
                       \o Wanted("sign", <<"sign">>)
                       \o Wanted("roundtrip", <<"roundtrip", "wake_recv">>)
        /\ options.csv =>
             csv = << (IF csvBefore = << >> THEN <<Header>> ELSE csvBefore[1]) \o results >>

=============================================================================
