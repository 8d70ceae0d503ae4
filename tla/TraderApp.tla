----------------------------- MODULE TraderApp ------------------------------
(***************************************************************************)
(* apps/trader/main.cpp: the start-up, the pump loop and the shutdown of   *)
(* the trader, over the feed runner, a pipeline with one shard and the     *)
(* order manager.  Main, feed and shard threads interleave; a signal may   *)
(* arrive at any time.                                                     *)
(*                                                                         *)
(* The pipeline is the number of frames in its queues (its content is      *)
(* MarketDataPipeline's) and the order manager whether it runs (its steps  *)
(* are OrderManager's).  pipeline.start() and feed_runner.start() refuse   *)
(* only an object that runs already, so exits 4 and 5 are not reached.     *)
(***************************************************************************)
EXTENDS WsFeedRunner

CONSTANTS
    frame_queue_capacity, per_shard_queue_capacity,  \* frames that fit
    pump_batch_size

ASSUME AppAssumption ==
    /\ frame_queue_capacity \in Nat \ {0}
    /\ per_shard_queue_capacity \in Nat \ {0}
    /\ pump_batch_size \in Nat \ {0}

VARIABLES
    main,                \* where the main thread is
    exit_code,           \* of main(), once it has returned
    execution_mode,      \* runtime_config.execution_mode
    oms,                 \* "none", "absent" (md-only), "running", "stopped"
    handlers_installed,  \* std::signal was called
    shutdown_requested,  \* g_shutdown_requested
    popped,              \* frames taken by this call of pump_ingest
    frames, routed,      \* frames in the frame queue and in the shard's queue
    shard,               \* "none", "polling", "handling", "done", "joined"
    shard_stop           \* the shard's stop token

mainVars == <<main, exit_code>>
omsVars == <<execution_mode, oms>>
signalVars == <<handlers_installed, shutdown_requested>>
pipelineVars == <<popped, frames, routed, shard, shard_stop>>
appVars == <<feedVars, mainVars, omsVars, signalVars, pipelineVars>>

\* The process exists: main has not returned, no exception has left it and no
\* signal has met its default action.
Alive == main \notin {"exited", "terminated", "killed"}

Return(code) == main' = "exited" /\ exit_code' = code
GoOn(next) == main' = next /\ UNCHANGED exit_code

-----------------------------------------------------------------------------
(* Start-up                                                                *)

\* kExitConfigLoadFailure, or a configuration
LoadConfig ==
    /\ main = "config"
    /\ \/ Return(6) /\ UNCHANGED execution_mode
       \/ GoOn("credentials") /\ execution_mode' \in {"kLive", "kPaper", "kMarketDataOnly"}
    /\ UNCHANGED <<feedVars, oms, signalVars, pipelineVars>>

\* kExitMissingCredentials, or a key id and a key, which may still be malformed
FindCredentials ==
    /\ main = "credentials"
    /\ Return(3) \/ GoOn("oms")
    /\ UNCHANGED <<feedVars, omsVars, signalVars, pipelineVars>>

\* Live, the signer is called outside the feed runner's try block: a malformed
\* key ends the process.  Otherwise kExitOmsStartFailure, or the manager runs.
StartOms ==
    /\ main = "oms"
    /\ \/ /\ execution_mode = "kMarketDataOnly"
          /\ oms' = "absent" /\ GoOn("pipeline")
       \/ /\ execution_mode = "kPaper"
          /\ oms' = "running" /\ GoOn("pipeline")
       \/ /\ execution_mode = "kLive" /\ ~credentials_sign
          /\ GoOn("terminated") /\ UNCHANGED oms
       \/ /\ execution_mode = "kLive" /\ credentials_sign /\ ~ConnectSucceeds
          /\ Return(7) /\ UNCHANGED oms
       \/ /\ execution_mode = "kLive" /\ credentials_sign /\ ConnectSucceeds
          /\ oms' = "running" /\ GoOn("pipeline")
    /\ UNCHANGED <<feedVars, execution_mode, signalVars, pipelineVars>>

StartPipeline ==
    /\ main = "pipeline"
    /\ shard' = "polling" /\ shard_stop' = FALSE
    /\ GoOn("feed")
    /\ UNCHANGED <<feedVars, omsVars, signalVars, popped, frames, routed>>

StartFeed ==
    /\ main = "feed"
    /\ Start
    /\ GoOn("signals")
    /\ UNCHANGED <<omsVars, signalVars, pipelineVars>>

\* both calls of std::signal
InstallHandlers ==
    /\ main = "signals"
    /\ handlers_installed' = TRUE
    /\ GoOn("loop")
    /\ UNCHANGED <<feedVars, omsVars, shutdown_requested, pipelineVars>>

-----------------------------------------------------------------------------
(* The pump loop                                                           *)

CheckShutdown ==
    /\ main = "loop" /\ ~shutdown_requested
    /\ popped' = 0
    /\ GoOn("pump")
    /\ UNCHANGED <<feedVars, omsVars, signalVars, frames, routed, shard, shard_stop>>

\* Faulty variant: pump_ingest takes frames until there are none.
PumpIngest_UntilEmpty ==
    /\ main = "pump"
    /\ IF frames > 0
       THEN /\ frames' = frames - 1
            /\ routed' = IF routed < per_shard_queue_capacity THEN routed + 1 ELSE routed
            /\ UNCHANGED mainVars
       ELSE /\ GoOn("loop")
            /\ UNCHANGED <<frames, routed>>
    /\ UNCHANGED <<feedVars, omsVars, signalVars, popped, shard, shard_stop>>

\* A turn of pump_ingest's loop, or its end.  A full shard queue drops the frame.
PumpIngest ==
    /\ main = "pump"
    /\ IF popped < pump_batch_size /\ frames > 0
       THEN /\ popped' = popped + 1
            /\ frames' = frames - 1
            /\ routed' = IF routed < per_shard_queue_capacity THEN routed + 1 ELSE routed
            /\ UNCHANGED mainVars
       ELSE /\ GoOn("loop")
            /\ UNCHANGED <<popped, frames, routed>>
    /\ UNCHANGED <<feedVars, omsVars, signalVars, shard, shard_stop>>

-----------------------------------------------------------------------------
(* Shutdown                                                                *)

\* Faulty variant: the pipeline is stopped before its feed.
StopFeed_PipelineFirst ==
    /\ main = "loop" /\ shutdown_requested
    /\ GoOn("stopPipeline")
    /\ UNCHANGED <<feedVars, omsVars, signalVars, pipelineVars>>

\* feed_runner.stop(), up to the join
StopFeed ==
    /\ main = "loop" /\ shutdown_requested
    /\ StopRequest
    /\ GoOn("stopFeed")
    /\ UNCHANGED <<omsVars, signalVars, pipelineVars>>

CloseFeed ==
    /\ main = "stopFeed"
    /\ StopClose \/ StopCloseEnd
    /\ UNCHANGED <<mainVars, omsVars, signalVars, pipelineVars>>

JoinFeed ==
    /\ main = "stopFeed"
    /\ StopJoin
    /\ GoOn("stopPipeline")
    /\ UNCHANGED <<omsVars, signalVars, pipelineVars>>

StopPipeline ==
    /\ main = "stopPipeline"
    /\ shard_stop' = TRUE
    /\ GoOn("joinShard")
    /\ UNCHANGED <<feedVars, omsVars, signalVars, popped, frames, routed, shard>>

JoinShard ==
    /\ main = "joinShard" /\ shard = "done"
    /\ shard' = "joined"
    /\ GoOn("stopOms")
    /\ UNCHANGED <<feedVars, omsVars, signalVars, popped, frames, routed, shard_stop>>

\* Faulty variant: the order manager is left running.
StopOms_Skipped ==
    /\ main = "stopOms"
    /\ Return(0)
    /\ UNCHANGED <<feedVars, omsVars, signalVars, pipelineVars>>

StopOms ==
    /\ main = "stopOms"
    /\ oms' = IF oms = "running" THEN "stopped" ELSE oms
    /\ Return(0)
    /\ UNCHANGED <<feedVars, execution_mode, signalVars, pipelineVars>>

-----------------------------------------------------------------------------
(* The other threads                                                       *)

\* The sink takes the message, or drops it if the frame queue is full.
FeedReceive ==
    /\ Alive
    /\ ReceiveMessage
    /\ frames' = IF frames < frame_queue_capacity THEN frames + 1 ELSE frames
    /\ UNCHANGED <<mainVars, omsVars, signalVars, popped, routed, shard, shard_stop>>

FeedRun ==
    /\ Alive
    /\ Run
    /\ UNCHANGED <<mainVars, omsVars, signalVars, pipelineVars>>

Network ==
    /\ Alive
    /\ Fault \/ Recover
    /\ UNCHANGED <<mainVars, omsVars, signalVars, pipelineVars>>

\* A turn of Shard::run; the strategy it calls may submit to the order manager.
ShardPoll ==
    /\ Alive /\ shard = "polling"
    /\ \/ /\ shard_stop
          /\ shard' = "done" /\ UNCHANGED routed
       \/ /\ ~shard_stop /\ routed > 0
          /\ shard' = "handling" /\ routed' = routed - 1
    /\ UNCHANGED <<feedVars, mainVars, omsVars, signalVars, popped, frames, shard_stop>>

ShardHandle ==
    /\ Alive /\ shard = "handling"
    /\ shard' = "polling"
    /\ UNCHANGED <<feedVars, mainVars, omsVars, signalVars, popped, frames, routed,
                   shard_stop>>

\* handle_shutdown_signal, or the default action
Signal ==
    /\ Alive
    /\ IF handlers_installed THEN shutdown_requested' = TRUE /\ UNCHANGED mainVars
       ELSE GoOn("killed") /\ UNCHANGED shutdown_requested
    /\ UNCHANGED <<feedVars, omsVars, handlers_installed, pipelineVars>>

-----------------------------------------------------------------------------
(* The specification                                                       *)

AppInit ==
    /\ FeedInit
    /\ main = "config" /\ exit_code = 0
    /\ execution_mode = "kLive" /\ oms = "none"
    /\ handlers_installed = FALSE /\ shutdown_requested = FALSE
    /\ popped = 0 /\ frames = 0 /\ routed = 0
    /\ shard = "none" /\ shard_stop = FALSE

Main ==
    \/ LoadConfig \/ FindCredentials \/ StartOms \/ StartPipeline \/ StartFeed
    \/ InstallHandlers \/ CheckShutdown \/ PumpIngest
    \/ StopFeed \/ CloseFeed \/ JoinFeed \/ StopPipeline \/ JoinShard \/ StopOms

Shard == ShardPoll \/ ShardHandle

AppNext == Main \/ FeedReceive \/ FeedRun \/ Shard \/ Network \/ Signal

AppSpec == AppInit /\ [][AppNext]_appVars

\* The threads are scheduled, and the calls into Beast return, except for a read
\* of an open connection: that is up to the exchange.  (A closing handshake ends
\* because the exchange answers it or the connection breaks.)  Nobody owes a
\* signal or a message.
FairAppSpec ==
    AppSpec /\ WF_appVars(Main) /\ WF_appVars(FeedRun) /\ WF_appVars(Shard)

-----------------------------------------------------------------------------
(* Properties                                                              *)

\* No thread outlives what it calls: as long as the feed's worker may push a
\* message the pipeline runs, and as long as a shard may submit an intent the
\* order manager does, unless the trader has none.  This is what the order of
\* the starts and of the stops in main() is for.
CalleesOutliveCallers ==
    Alive =>
        /\ worker # "none" => shard \in {"polling", "handling"} /\ ~shard_stop
        /\ shard \in {"polling", "handling", "done"} => oms \in {"running", "absent"}

\* main() returns with every thread joined, the feed closed and the order
\* manager stopped, on each of its paths.
ExitIsClean ==
    main = "exited" =>
        /\ worker = "none" /\ ~connected
        /\ shard \in {"none", "joined"}
        /\ oms # "running"

\* After the connection is lost, or cannot be made, the worker is back to
\* receiving on an open connection once the exchange stays reachable, until the
\* feed is stopped or the process killed.
FeedRecovers ==
    (reachable /\ endpoint_is_valid /\ credentials_sign /\ worker # "none")
        ~> \/ worker = "receive" /\ link = "open"
           \/ ~reachable \/ stop_requested \/ ~Alive

\* After a signal the trader ends, with exit code 0, whatever the feed, the
\* network and the shard are doing, and however fast messages arrive: a call of
\* pump_ingest takes at most a batch.
ShutdownCompletes == shutdown_requested ~> (main = "exited" /\ exit_code = 0)
=============================================================================
