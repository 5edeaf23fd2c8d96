-------------------------------- MODULE Triton --------------------------------
(***************************************************************************)
(* The Triton client of a process: the cached readiness of the server and  *)
(* of its models, and the retries around every remote call.                *)
(*                                                                         *)
(* Source: backend/app/infrastructure/triton/client.py                     *)
(*                                                                         *)
(* infer_fp32 is a sequence of remote operations, each run by              *)
(* _run_with_retries: is the server live and ready (two checks, one step   *)
(* here), is the model ready, then the inference; what is cached is not    *)
(* asked again.  The server is free: any operation may succeed, answer no, *)
(* or fail.                                                                *)
(***************************************************************************)
EXTENDS Integers, FiniteSets

CONSTANTS
    Procs,          \* processes, each with one client and one call at a time
    Models,         \* models on the server
    MaxAttempts     \* max_retries + 1

ASSUME TritonAssumption == MaxAttempts \in Nat \ {0}

VARIABLES
    serverReady,    \* _server_ready of the client
    readyModels,    \* _ready_models of the client
    call            \* the call in progress

tritonVars == <<serverReady, readyModels, call>>

Steps == {"idle", "server", "model", "infer", "done", "raised"}
Call == [step : Steps, model : Models, attempt : 1 .. MaxAttempts]
NoCall == [step |-> "idle", model |-> CHOOSE m \in Models : TRUE, attempt |-> 1]

TritonTypeOK ==
    /\ serverReady \in [Procs -> BOOLEAN]
    /\ readyModels \in [Procs -> SUBSET Models]
    /\ call \in [Procs -> Call]

TritonInit ==
    /\ serverReady = [p \in Procs |-> FALSE]
    /\ readyModels = [p \in Procs |-> {}]
    /\ call = [p \in Procs |-> NoCall]

InCall(p) == call[p].step \in {"server", "model", "infer"}
Goto(p, step) == call' = [call EXCEPT ![p] = [@ EXCEPT !.step = step, !.attempt = 1]]

\* assert_model_ready, assert_server_ready: where a call to model m has to begin.
FirstStep(p, m) ==
    IF m \in readyModels[p] THEN "infer" ELSE IF serverReady[p] THEN "model" ELSE "server"

Ask(p, m) ==
    /\ ~InCall(p)
    /\ call' = [call EXCEPT ![p] = [step |-> FirstStep(p, m), model |-> m, attempt |-> 1]]
    /\ UNCHANGED <<serverReady, readyModels>>

\* The operation succeeds, and what it verified is cached.
Succeeds(p) ==
    \/ /\ call[p].step = "server" /\ Goto(p, "model")
       /\ serverReady' = [serverReady EXCEPT ![p] = TRUE] /\ UNCHANGED readyModels
    \/ /\ call[p].step = "model" /\ Goto(p, "infer")
       /\ readyModels' = [readyModels EXCEPT ![p] = @ \cup {call[p].model}] /\ UNCHANGED serverReady
    \/ /\ call[p].step = "infer" /\ Goto(p, "done")
       /\ UNCHANGED <<serverReady, readyModels>>

\* The server answers no, or a failure is not one of those worth retrying.
Refuses(p) ==
    /\ InCall(p)
    /\ call' = [call EXCEPT ![p].step = "raised"]
    /\ UNCHANGED <<serverReady, readyModels>>

\* Mutant: the cache survives a failed attempt.
MutantKeepReadiness(p) == UNCHANGED <<serverReady, readyModels>>

InvalidateReadinessCache(p) ==
    /\ serverReady' = [serverReady EXCEPT ![p] = FALSE]
    /\ readyModels' = [readyModels EXCEPT ![p] = {}]

\* _run_with_retries: a transient failure clears the cache and the operation is tried
\* again, or the time budget is spent; the last attempt raises and clears nothing.
FailsTransiently(p) ==
    /\ InCall(p)
    /\ IF call[p].attempt < MaxAttempts
         THEN /\ InvalidateReadinessCache(p)
              /\ \/ call' = [call EXCEPT ![p].attempt = @ + 1]
                 \/ call' = [call EXCEPT ![p].step = "raised"]
         ELSE /\ call' = [call EXCEPT ![p].step = "raised"]
              /\ UNCHANGED <<serverReady, readyModels>>

\* A new process has a new client; worker_process_init asks for every model once, and
\* whatever that finds out the process starts.
Restart(p) ==
    /\ call' = [call EXCEPT ![p] = NoCall]
    /\ \E primed \in {{}, Models} :
         /\ serverReady' = [serverReady EXCEPT ![p] = primed # {}]
         /\ readyModels' = [readyModels EXCEPT ![p] = primed]

Remote(p) == Succeeds(p) \/ Refuses(p) \/ FailsTransiently(p)

\* When a process has given up after more than one attempt, it trusts nothing it had
\* cached: the next delivery verifies the server again before it sends a frame.
ExhaustedIsForgotten ==
    \A p \in Procs :
        call[p].step = "raised" /\ call[p].attempt > 1 => ~serverReady[p] /\ readyModels[p] = {}

=============================================================================
