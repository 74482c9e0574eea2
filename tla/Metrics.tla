------------------------------ MODULE Metrics ------------------------------
(***************************************************************************)
(* The metrics of a client (rust/src/metrics, rust/cxx and the part of     *)
(* src/client.cpp that sends records).  Threads of the client add to a     *)
(* collector; a runner task stores what was collected in the file of the   *)
(* current record, changes the id of that record as time passes, and sends *)
(* the other records, one at a time, oldest first.  A record id is a       *)
(* device id, which is a random number kept for a week, and a number.      *)
(*                                                                         *)
(* Between two steps of the runner there is an await, or a point where     *)
(* other threads may get hold of the collector.  What is collected is      *)
(* abstracted to the device id that was current then.  The process may end *)
(* at any point; a file that was being written then has its old or its new *)
(* content, or is cut short.  Left out: other I/O errors, the clock being  *)
(* set back, the length of pauses (so the content of backoff.json too) and *)
(* encryption.                                                             *)
(***************************************************************************)
EXTENDS Naturals, Sequences, FiniteSets

CONSTANTS
    Week,           \* hours in a week
    MaxTime,        \* bound on the hours that pass
    DELETE_AFTER,   \* hours after which a record is not sent any more
    MaxRuns,        \* bound on how often the client is started
    MaxOps          \* bound on what threads of the client do

VARIABLES
    now,            \* hours since the start of some week
    next,           \* the next Uuid::new_v4()
    \* on disk:
    device_file,    \* device_id.json: Missing or <<[id, created]>>
    number_file,    \* record_number.json: Missing or <<number>>
    records,        \* set of [id, created, data]
    \* of the store and the runner:
    client,         \* "none", "starting", "running" or "stopping"
    pc,             \* what the runner does
    then,           \* what it does after it stored a record
    device,         \* DeviceId: [id, week]
    number,         \* RecordNumber: [number, hour]
    record_id,      \* what the channel of RecordIdStore says
    oldest_record,  \* <<>> or <<record>>
    stopped,        \* of the backoff
    processor,      \* EventListener::record_processor is there
    alarm,          \* on_id_rotation: [event, at]
    buffer,         \* the data that are being stored
    \* shared with other threads:
    finished, unfinished,   \* what the collector holds
    has_new_data,
    wake, watch,    \* ConstantBackoffWatchSender: changed, and its task
    changed,        \* the receiver of the runner has not seen a change
    channel,        \* processors sent to the runner; NULL: none
    closed,         \* the sender is gone
    runs, ops       \* counters of starts and events

diskvars == <<device_file, number_file, records>>
idvars   == <<device, number, record_id>>
runvars  == <<pc, then, oldest_record, stopped, processor, alarm, buffer>>
collvars == <<finished, unfinished, has_new_data>>
watchvars == <<wake, watch, changed>>
chanvars == <<channel, closed>>
metricsvars == <<now, next, diskvars, client, runvars, idvars, collvars, watchvars, chanvars,
                 runs, ops>>

\* No file, or one that was cut short: Store::read takes it for missing.
Missing == <<>>
NoAlarm == [event |-> "none", at |-> 0]
Nobody  == [id |-> 0, week |-> 0]
NoNumber == [number |-> 0, hour |-> 0]
NoRecord == [device |-> 0, number |-> 0]

WeekOf(hour) == hour \div Week

MetricsInit ==
    /\ now = 0 /\ next = 1
    /\ device_file = Missing /\ number_file = Missing /\ records = {}
    /\ client = "none" /\ pc = "none" /\ then = "none"
    /\ device = Nobody /\ number = NoNumber /\ record_id = NoRecord
    /\ oldest_record = <<>> /\ stopped = FALSE /\ processor = FALSE
    /\ alarm = NoAlarm /\ buffer = {}
    /\ finished = {} /\ unfinished = {} /\ has_new_data = FALSE
    /\ wake = FALSE /\ watch = "wait" /\ changed = FALSE
    /\ channel = <<>> /\ closed = FALSE
    /\ runs = 0 /\ ops = 0

\* The process ends, and its memory with it.
Ends ==
    /\ client' = "none" /\ pc' = "none" /\ then' = "none"
    /\ device' = Nobody /\ number' = NoNumber /\ record_id' = NoRecord
    /\ oldest_record' = <<>> /\ stopped' = FALSE /\ processor' = FALSE
    /\ alarm' = NoAlarm /\ buffer' = {}
    /\ finished' = {} /\ unfinished' = {} /\ has_new_data' = FALSE
    /\ wake' = FALSE /\ watch' = "wait" /\ changed' = FALSE
    /\ channel' = <<>> /\ closed' = FALSE

Tick ==
    /\ now < MaxTime
    /\ now' = now + 1
    /\ UNCHANGED <<next, diskvars, client, runvars, idvars, collvars, watchvars, chanvars, runs,
                   ops>>

-----------------------------------------------------------------------------
(***************************************************************************)
(* Store.                                                                  *)
(***************************************************************************)
current_record_id == [device |-> device.id, number |-> number.number]

\* Those too old are removed.
load_stored_records == {r \in records : now - r.created < DELETE_AFTER}

WriteDevice(id) ==
    /\ device' = [id |-> id, week |-> WeekOf(now)]
    /\ device_file' = <<[id |-> id, created |-> now]>>
    /\ next' = next + 1

\* DeviceId::new: a missing or unreadable id, or one of another week, is
\* replaced.
NewDeviceId ==
    /\ client = "none" /\ runs < MaxRuns
    /\ runs' = runs + 1
    /\ client' = "starting"
    /\ IF device_file = Missing \/ WeekOf(device_file[1].created) # WeekOf(now)
       THEN WriteDevice(next)
       ELSE /\ device' = [id |-> device_file[1].id, week |-> WeekOf(now)]
            /\ UNCHANGED <<device_file, next>>
    /\ UNCHANGED <<now, number_file, records, runvars, number, record_id, collvars, watchvars,
                   chanvars, ops>>

\* RecordNumber::load, and metrics_runner starts.
LoadNumber ==
    /\ client = "starting"
    /\ client' = "running"
    /\ LET n == IF number_file = Missing THEN 0 ELSE number_file[1] + 1
       IN  /\ number' = [number |-> n, hour |-> now]
           /\ number_file' = <<n>>
           /\ record_id' = [device |-> device.id, number |-> n]
    /\ records' = load_stored_records
    /\ pc' = "top"
    /\ UNCHANGED <<now, next, device_file, then, oldest_record, stopped, processor, alarm,
                   buffer, device, collvars, watchvars, chanvars, runs, ops>>

-----------------------------------------------------------------------------
(***************************************************************************)
(* Collector and ConstantBackoffWatchSender.                               *)
(***************************************************************************)
Threads == client = "running" /\ ops < MaxOps /\ ops' = ops + 1

mark_modified(new_data) == has_new_data' = new_data /\ wake' = TRUE

\* bootstrap_start, add_request.
Started ==
    /\ Threads
    /\ unfinished' = unfinished \cup {record_id.device}
    /\ mark_modified(TRUE)
    /\ UNCHANGED <<now, next, diskvars, client, runvars, idvars, finished, watch, changed,
                   chanvars, runs>>

\* bootstrap_finish, remove_request.
Finished(d) ==
    /\ Threads
    /\ d \in unfinished
    /\ unfinished' = unfinished \ {d}
    /\ finished' = finished \cup {d}
    /\ mark_modified(TRUE)
    /\ UNCHANGED <<now, next, diskvars, client, runvars, idvars, watch, changed, chanvars, runs>>

\* set_aux_key_value, bridge_transfer_*; increment_transfer_size does not mark
\* the collector as modified.
Counted(id, marks) ==
    /\ Threads
    /\ id = record_id
    /\ finished' = finished \cup {id.device}
    /\ IF marks THEN mark_modified(TRUE) ELSE UNCHANGED <<has_new_data, wake>>
    /\ UNCHANGED <<now, next, diskvars, client, runvars, idvars, unfinished, watch, changed,
                   chanvars, runs>>

\* The task of the sender: it takes a change, sleeps, passes it on, and then
\* forgets those that came meanwhile.
WatchStep ==
    /\ client \in {"running", "stopping"}
    /\ \/ watch = "wait" /\ wake /\ watch' = "sleep" /\ wake' = FALSE /\ UNCHANGED changed
       \/ watch = "sleep" /\ watch' = "sent" /\ changed' = TRUE /\ UNCHANGED wake
       \/ watch = "sent" /\ watch' = "wait" /\ wake' = FALSE /\ UNCHANGED changed
    /\ UNCHANGED <<now, next, diskvars, client, runvars, idvars, collvars, chanvars, runs, ops>>

-----------------------------------------------------------------------------
(***************************************************************************)
(* EventListener::on_event.                                                *)
(***************************************************************************)
duration_to_end(end) == IF end > now THEN end - now ELSE 0

\* A turn of its loop, up to select!.  "Prefer ID rotation over sequence
\* number increment when equal".
on_event ==
    /\ pc = "top"
    /\ pc' = "select"
    /\ LET id_delay == duration_to_end((device.week + 1) * Week)
           sq_delay == duration_to_end(number.hour + 1)
       IN  alarm' = IF id_delay >= sq_delay
                    THEN [event |-> "rotate", at |-> now + id_delay]
                    ELSE [event |-> "increment", at |-> now + sq_delay]
    /\ UNCHANGED <<now, next, diskvars, client, then, oldest_record, stopped, processor, buffer,
                   idvars, collvars, watchvars, chanvars, runs, ops>>

\* An event whose handler first stores the record, if there is a processor.
StoreThen(what) ==
    /\ pc' = IF processor THEN "collect" ELSE what
    /\ then' = what

OnModified ==
    /\ pc = "select" /\ changed
    /\ changed' = FALSE
    /\ StoreThen("top")
    /\ UNCHANGED <<now, next, diskvars, client, oldest_record, stopped, processor, alarm, buffer,
                   idvars, collvars, wake, watch, chanvars, runs, ops>>

OnAlarm ==
    /\ pc = "select" /\ alarm.at <= now
    /\ StoreThen(alarm.event)
    /\ UNCHANGED <<now, next, diskvars, client, oldest_record, stopped, processor, alarm, buffer,
                   idvars, collvars, watchvars, chanvars, runs, ops>>

OnProcessor ==
    /\ pc = "select" /\ channel # <<>>
    /\ processor' = Head(channel)
    /\ channel' = Tail(channel)
    /\ pc' = IF Head(channel) THEN "top" ELSE "purge"
    /\ UNCHANGED <<now, next, diskvars, client, then, oldest_record, stopped, alarm, buffer,
                   idvars, collvars, watchvars, closed, runs, ops>>

OnClosed ==
    /\ pc = "select" /\ channel = <<>> /\ closed
    /\ StoreThen("ended")
    /\ UNCHANGED <<now, next, diskvars, client, oldest_record, stopped, processor, alarm, buffer,
                   idvars, collvars, watchvars, chanvars, runs, ops>>

OnBackoff ==
    /\ pc = "select" /\ processor /\ ~stopped
    /\ pc' = IF oldest_record = <<>> THEN "load" ELSE "execute"
    /\ UNCHANGED <<now, next, diskvars, client, then, oldest_record, stopped, processor, alarm,
                   buffer, idvars, collvars, watchvars, chanvars, runs, ops>>

-----------------------------------------------------------------------------
(***************************************************************************)
(* EventHandler::process_event.                                            *)
(***************************************************************************)
\* ProcessOneRecord without a record: the oldest that is not current, or the
\* backoff stops.
Load ==
    /\ pc = "load"
    /\ records' = load_stored_records
    /\ LET others == {r \in records' : r.id # current_record_id}
       IN  \/ /\ others = {}
              /\ stopped' = TRUE /\ pc' = "top"
              /\ UNCHANGED oldest_record
           \/ \E r \in others :
                 /\ \A q \in others : r.created <= q.created
                 /\ oldest_record' = <<r>> /\ pc' = "execute"
                 /\ UNCHANGED stopped
    /\ UNCHANGED <<now, next, device_file, number_file, client, then, processor, alarm, buffer,
                   idvars, collvars, watchvars, chanvars, runs, ops>>

\* send_metrics_record has sent the record to every server.
Sent ==
    /\ pc = "execute"
    /\ pc' = "discard"
    /\ UNCHANGED <<now, next, diskvars, client, then, oldest_record, stopped, processor, alarm,
                   buffer, idvars, collvars, watchvars, chanvars, runs, ops>>

\* It was cancelled because the client shuts down.
SendCancelled ==
    /\ pc = "execute" /\ client = "stopping"
    /\ pc' = "top"
    /\ UNCHANGED <<now, next, diskvars, client, then, oldest_record, stopped, processor, alarm,
                   buffer, idvars, collvars, watchvars, chanvars, runs, ops>>

\* The executor was destroyed: CxxDisconnected ends the runner.
SendDropped ==
    /\ pc = "execute" /\ client = "stopping"
    /\ pc' = "ended"
    /\ UNCHANGED <<now, next, diskvars, client, then, oldest_record, stopped, processor, alarm,
                   buffer, idvars, collvars, watchvars, chanvars, runs, ops>>

\* Its file is removed; if there is none, that error ends the runner.
Discard ==
    /\ pc = "discard"
    /\ IF \E r \in records : r.id = oldest_record[1].id
       THEN /\ records' = {r \in records : r.id # oldest_record[1].id}
            /\ oldest_record' = <<>>
            /\ pc' = "top"
       ELSE pc' = "ended" /\ UNCHANGED <<records, oldest_record>>
    /\ UNCHANGED <<now, next, device_file, number_file, client, then, stopped, processor, alarm,
                   buffer, idvars, collvars, watchvars, chanvars, runs, ops>>

\* Mutant of Collect: the backoff is resumed when the metrics change, and not
\* when the current record stops being current.
CollectOnChange ==
    /\ pc = "collect"
    /\ stopped' = (stopped /\ then # "top")
    /\ IF has_new_data THEN buffer' = finished \cup unfinished /\ pc' = "write"
                       ELSE pc' = then /\ UNCHANGED buffer
    /\ UNCHANGED <<now, next, diskvars, client, then, oldest_record, processor, alarm, idvars,
                   collvars, watchvars, chanvars, runs, ops>>

\* store_record: what was collected, with the backoff resumed in any case ...
Collect ==
    /\ pc = "collect"
    /\ stopped' = FALSE
    /\ IF has_new_data THEN buffer' = finished \cup unfinished /\ pc' = "write"
                       ELSE pc' = then /\ UNCHANGED buffer
    /\ UNCHANGED <<now, next, diskvars, client, then, oldest_record, processor, alarm, idvars,
                   collvars, watchvars, chanvars, runs, ops>>

\* ... is written to the file of the current record.
WithRecord(data) ==
    {r \in records : r.id # current_record_id}
        \cup {[id |-> current_record_id, created |-> now, data |-> data]}

Write ==
    /\ pc = "write"
    /\ records' = WithRecord(buffer)
    /\ buffer' = {}
    /\ pc' = then
    /\ UNCHANGED <<now, next, device_file, number_file, client, then, oldest_record, stopped,
                   processor, alarm, idvars, collvars, watchvars, chanvars, runs, ops>>

\* RecordIdStore::rotate and increment.  The new id is published when both
\* files are written.
Rotate ==
    /\ pc = "rotate"
    /\ WriteDevice(next)
    /\ pc' = "reset"
    /\ UNCHANGED <<now, number_file, records, client, then, oldest_record, stopped, processor,
                   alarm, buffer, number, record_id, collvars, watchvars, chanvars, runs, ops>>

SetNumber(n) ==
    /\ number' = [number |-> n, hour |-> now]
    /\ number_file' = <<n>>
    /\ record_id' = [device |-> device.id, number |-> n]

Reset ==
    /\ pc = "reset"
    /\ SetNumber(0)
    /\ pc' = "clear"
    /\ UNCHANGED <<now, next, device_file, records, client, then, oldest_record, stopped,
                   processor, alarm, buffer, device, collvars, watchvars, chanvars, runs, ops>>

Increment ==
    /\ pc = "increment"
    /\ SetNumber(number.number + 1)
    /\ pc' = "clear_finished"
    /\ UNCHANGED <<now, next, device_file, records, client, then, oldest_record, stopped,
                   processor, alarm, buffer, device, collvars, watchvars, chanvars, runs, ops>>

\* Mutant of Clear: a new device id clears no more than a new number.
ClearFinished ==
    /\ pc \in {"clear", "clear_finished"}
    /\ finished' = {}
    /\ mark_modified(FALSE)
    /\ pc' = "top"
    /\ UNCHANGED <<now, next, diskvars, client, then, oldest_record, stopped, processor, alarm,
                   buffer, idvars, unfinished, watch, changed, chanvars, runs, ops>>

\* on_device_id_changed, on_record_sequence_number_changed.
Clear ==
    /\ pc \in {"clear", "clear_finished"}
    /\ finished' = {}
    /\ unfinished' = IF pc = "clear" THEN {} ELSE unfinished
    /\ mark_modified(FALSE)
    /\ pc' = "top"
    /\ UNCHANGED <<now, next, diskvars, client, then, oldest_record, stopped, processor, alarm,
                   buffer, idvars, watch, changed, chanvars, runs, ops>>

\* delete_stored_records.
Purge ==
    /\ pc = "purge"
    /\ records' = {}
    /\ pc' = "top"
    /\ UNCHANGED <<now, next, device_file, number_file, client, then, oldest_record, stopped,
                   processor, alarm, buffer, idvars, collvars, watchvars, chanvars, runs, ops>>

RunnerStep ==
    \/ on_event \/ OnModified \/ OnAlarm \/ OnProcessor \/ OnClosed \/ OnBackoff
    \/ Load \/ SendCancelled \/ SendDropped \/ Discard
    \/ Collect \/ Write \/ Rotate \/ Reset \/ Increment \/ Clear \/ Purge

-----------------------------------------------------------------------------
(***************************************************************************)
(* The bridge to C++.                                                      *)
(***************************************************************************)
\* Client::enable and disable.
set_processor(p) ==
    /\ Threads
    /\ channel' = Append(channel, p)
    /\ UNCHANGED <<now, next, diskvars, client, runvars, idvars, collvars, watchvars, closed,
                   runs>>

stop ==
    /\ client = "running"
    /\ client' = "stopping"
    /\ closed' = TRUE
    /\ UNCHANGED <<now, next, diskvars, runvars, idvars, collvars, watchvars, channel, runs, ops>>

\* The files as a process leaves them that ends now.
DiskLeft ==
    /\ records' \in CASE pc = "write" -> {records, WithRecord(buffer), WithRecord({}),
                                         {r \in records : r.id # current_record_id}}
                      [] pc = "purge" -> SUBSET records
                      [] OTHER -> {records}
    /\ device_file' \in IF pc = "rotate" THEN {device_file, Missing} ELSE {device_file}
    /\ number_file' \in IF pc \in {"reset", "increment"} \/ client = "starting"
                        THEN {number_file, Missing} ELSE {number_file}

\* The runner has ended, or is aborted after five seconds.
Stopped ==
    /\ client = "stopping"
    /\ Ends
    /\ IF pc = "ended" THEN UNCHANGED diskvars ELSE DiskLeft
    /\ UNCHANGED <<now, next, runs, ops>>

MetricsCrash ==
    /\ client # "none"
    /\ Ends
    /\ DiskLeft
    /\ UNCHANGED <<now, next, runs, ops>>

\* A server or the way to it fails: the coroutine that sends to it throws, and
\* nothing catches what leaves a coroutine (handle_exception_ptr).
SendFails ==
    /\ pc = "execute" /\ client = "running"
    /\ Ends
    /\ UNCHANGED <<now, next, diskvars, runs, ops>>

ThreadStep ==
    \/ Started
    \/ \E d \in unfinished : Finished(d)
    \/ \E marks \in BOOLEAN : Counted(record_id, marks)
    \/ \E p \in BOOLEAN : set_processor(p)

MetricsNext ==
    \/ Tick
    \/ NewDeviceId \/ LoadNumber
    \/ ThreadStep
    \/ WatchStep
    \/ RunnerStep \/ Sent \/ SendFails
    \/ stop \/ Stopped \/ MetricsCrash

MetricsSpec == MetricsInit /\ [][MetricsNext]_metricsvars

\* The tasks run, and a record that is tried again and again is sent once.
MetricsFair ==
    /\ WF_metricsvars(RunnerStep)
    /\ WF_metricsvars(WatchStep)
    /\ SF_metricsvars(Sent)
    /\ WF_metricsvars(OnBackoff)

-----------------------------------------------------------------------------
(***************************************************************************)
(* Properties.                                                             *)
(***************************************************************************)
\* No record holds what was collected under another device id: the collector
\* is cleared when the id changes "to not leak more data into the next record".
RecordsDoNotMix ==
    \A r \in records \cup {oldest_record[i] : i \in DOMAIN oldest_record} :
        r.data \subseteq {r.id.device}

\* Is there a record to send, and somebody to send it?
Waiting ==
    /\ \E r \in records : r.id # current_record_id
    /\ processor /\ client = "running"

\* While there is a processor, stored records that are not current any more do
\* not stay: they are sent or become too old.  The backoff, which stops when
\* there is nothing to send, is resumed whenever there may be.
StoredAreSent == Waiting ~> ~Waiting

=============================================================================
