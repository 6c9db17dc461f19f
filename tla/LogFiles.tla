------------------------------- MODULE LogFiles --------------------------------
(***************************************************************************)
(* LogFilesImpl: listing the vehicle's logs and downloading one of them.   *)
(* What the vehicle sends may be lost, and comes in any order, in chunks   *)
(* which are the unit of the model.  Calls come from the user's thread,    *)
(* messages on the receive threads, timeouts on the system thread; each    *)
(* section under a mutex is one step.                                      *)
(***************************************************************************)
EXTENDS Integers, FiniteSets

CONSTANTS
    Logs,          \* the vehicle has the logs 0..Logs - 1
    Chunks,        \* chunks in each
    MaxListRetries,
    MaxLists, MaxDownloads, MaxLost   \* bounds: calls, and messages lost

ASSUME LogAssumption ==
    /\ Logs \in Nat \ {0} /\ Chunks \in Nat \ {0} /\ MaxListRetries \in Nat
    /\ MaxLists \in Nat /\ MaxDownloads \in Nat /\ MaxLost \in Nat

LogId == 0..(Logs - 1)
Chunk == 0..(Chunks - 1)
Nothing == -1

Thread == {"receive", "system"}

VARIABLES
    found,     \* the ids in _entries.entry_map
    listed,      \* _entries.max_list_id
    retries,     \* _entries.retries
    listTimers,  \* list timeouts in the timeout handler
    lists,       \* history: calls of get_entries_async
    listAnswer,  \* history: the answer to the last one
    id,          \* _data.id
    received,    \* _data.chunks_received, where true
    bytes,       \* _data.bytes: the log each chunk was copied from
    rerequesting,
    dataTimers,  \* data timeouts in the timeout handler
    dataCookie,      \* _data.cookie refers to one of them
    at,          \* where a thread is in the handling of a chunk or a timeout
    file,        \* the file written last
    reported,    \* history: a success was reported
    downloads,   \* history: calls of download_log_file_async that began
    mail,        \* messages on their way: entries and chunks
    lost         \* messages lost so far

listVars == <<found, listed, retries, listTimers, lists, listAnswer>>
dataVars == <<id, received, bytes, rerequesting, dataTimers, dataCookie, at, file, reported,
              downloads>>
logVars == <<listVars, dataVars, mail, lost>>

LogInit ==
    /\ found = {} /\ listed = 0 /\ retries = 0 /\ listTimers = 0
    /\ lists = 0 /\ listAnswer = "none"
    /\ id = Nothing /\ received = {} /\ bytes = [c \in Chunk |-> Nothing]
    /\ rerequesting = FALSE /\ dataTimers = 0 /\ dataCookie = FALSE
    /\ at = [t \in Thread |-> "idle"] /\ file = [c \in Chunk |-> Nothing]
    /\ reported = FALSE /\ downloads = 0
    /\ mail = {} /\ lost = 0

Entry(l) == [type |-> "entry", log |-> l]
Data(l, c) == [type |-> "data", log |-> l, chunk |-> c]

-----------------------------------------------------------------------------
(* get_entries_async                                                       *)

\* A timeout of a listing before is not removed
GetEntries ==
    /\ lists < MaxLists
    /\ lists' = lists + 1 /\ listAnswer' = "none"
    /\ found' = {} /\ listed' = 0 /\ retries' = 0
    /\ listTimers' = listTimers + 1
    /\ mail' = mail \cup {Entry(l) : l \in LogId}
    /\ UNCHANGED <<dataVars, lost>>

ProcessLogEntry ==
    /\ \E l \in LogId :
          /\ Entry(l) \in mail
          /\ mail' = mail \ {Entry(l)}
          /\ found' = found \cup {l}
    /\ listed' = Logs
    /\ UNCHANGED <<retries, listTimers, lists, listAnswer, dataVars, lost>>

\* list_timeout: it is erased when it expires, and armed again for the next try.
\* With no entry at all nobody is told.
ListTimeout ==
    /\ listTimers > 0
    /\ UNCHANGED <<found, listed, lists, dataVars, lost>>

ListEnded ==
    /\ ListTimeout
    /\ \/ found = {} /\ listAnswer' = IF listAnswer = "none" THEN "silence" ELSE listAnswer
       \/ found # {} /\ Cardinality(found) = listed /\ listAnswer' = "success"
       \/ /\ found # {} /\ Cardinality(found) # listed
          /\ retries > MaxListRetries /\ listAnswer' = "too_many_retries"
    /\ listTimers' = listTimers - 1
    /\ UNCHANGED <<retries, mail>>

\* (a faulty variant, for the properties: no timeout for the next try)
ListAgainOnce ==
    /\ ListTimeout
    /\ found # {} /\ Cardinality(found) # listed /\ retries <= MaxListRetries
    /\ mail' = mail \cup {Entry(l) : l \in LogId \ found}
    /\ retries' = retries + 1 /\ listTimers' = listTimers - 1
    /\ UNCHANGED listAnswer

ListAgain ==
    /\ ListTimeout
    /\ found # {} /\ Cardinality(found) # listed /\ retries <= MaxListRetries
    /\ mail' = mail \cup {Entry(l) : l \in LogId \ found}
    /\ retries' = retries + 1
    /\ UNCHANGED <<listTimers, listAnswer>>

-----------------------------------------------------------------------------
(* download_log_file_async                                                 *)

\* The flags and bytes of a former download stay, its timeout too.  (A log that is
\* not listed: the call returns without a word.)
Download(l) ==
    /\ l \in found /\ downloads < MaxDownloads
    /\ downloads' = downloads + 1
    /\ id' = l /\ rerequesting' = FALSE
    /\ dataTimers' = dataTimers + 1 /\ dataCookie' = TRUE
    /\ mail' = mail \cup {Data(l, c) : c \in Chunk}
    /\ UNCHANGED <<listVars, received, bytes, at, file, reported, lost>>

\* (faulty: the last chunk is taken for the sign that all have come)
ProcessLogDataTrusting(l, c) ==
    /\ Data(l, c) \in mail /\ at["receive"] = "idle"
    /\ mail' = mail \ {Data(l, c)}
    /\ bytes' = [bytes EXCEPT ![c] = l]
    /\ received' = IF c = Chunks - 1 THEN Chunk ELSE received \cup {c}
    /\ rerequesting' = (rerequesting \/ c = Chunks - 1)
    /\ at' = [at EXCEPT !["receive"] = "check"]
    /\ UNCHANGED <<listVars, id, dataTimers, dataCookie, file, reported, downloads, lost>>

\* the id of the message is not looked at
ProcessLogData(l, c) ==
    /\ Data(l, c) \in mail /\ at["receive"] = "idle"
    /\ mail' = mail \ {Data(l, c)}
    /\ bytes' = [bytes EXCEPT ![c] = l]
    /\ received' = received \cup {c}
    /\ rerequesting' = (rerequesting \/ c = Chunks - 1)
    /\ at' = [at EXCEPT !["receive"] = "check"]
    /\ UNCHANGED <<listVars, id, dataTimers, dataCookie, file, reported, downloads, lost>>

\* A data timeout is erased; it may be the one the cookie refers to
DataExpired ==
    /\ dataTimers > 0 /\ at["system"] = "idle"
    /\ dataTimers' = dataTimers - 1
    /\ \/ dataCookie' = FALSE
       \/ dataTimers > 1 /\ dataCookie' = dataCookie
    /\ at' = [at EXCEPT !["system"] = "expired"]
    /\ UNCHANGED <<listVars, id, received, bytes, rerequesting, file, reported, downloads,
                   mail, lost>>

\* data_timeout arms it again, even when the download has ended meanwhile
DataTimeout ==
    /\ at["system"] = "expired"
    /\ dataTimers' = dataTimers + 1 /\ dataCookie' = TRUE
    /\ at' = [at EXCEPT !["system"] = "check"]
    /\ UNCHANGED <<listVars, id, received, bytes, rerequesting, file, reported, downloads,
                   mail, lost>>

\* check_missing_log_data
NotYet(t) ==
    /\ at[t] = "check" /\ ~rerequesting
    /\ at' = [at EXCEPT ![t] = "idle"]
    /\ UNCHANGED <<listVars, id, received, bytes, rerequesting, dataTimers, dataCookie, file,
                   reported, downloads, mail, lost>>

FirstMissing == CHOOSE c \in Chunk \ received : \A d \in Chunk \ received : c <= d

Rerequest(t) ==
    /\ at[t] = "check" /\ rerequesting /\ received # Chunk
    /\ at' = [at EXCEPT ![t] = "idle"]
    /\ mail' = mail \cup {Data(id, FirstMissing)}
    /\ UNCHANGED <<listVars, id, received, bytes, rerequesting, dataTimers, dataCookie, file,
                   reported, downloads, lost>>

\* the flags stay: a chunk that comes once more completes the download once more
Complete(t) ==
    /\ at[t] = "check" /\ rerequesting /\ received = Chunk
    /\ at' = [at EXCEPT ![t] = "write"]
    /\ dataTimers' = IF dataCookie THEN dataTimers - 1 ELSE dataTimers
    /\ dataCookie' = FALSE
    /\ UNCHANGED <<listVars, id, received, bytes, rerequesting, file, reported, downloads,
                   mail, lost>>

\* write_log_data_to_disk, and the report to the callback
Write(t) ==
    /\ at[t] = "write"
    /\ at' = [at EXCEPT ![t] = "idle"]
    /\ file' = bytes /\ reported' = TRUE
    /\ UNCHANGED <<listVars, id, received, bytes, rerequesting, dataTimers, dataCookie,
                   downloads, mail, lost>>

LoseMail ==
    /\ lost < MaxLost
    /\ \E m \in mail : mail' = mail \ {m}
    /\ lost' = lost + 1
    /\ UNCHANGED <<listVars, dataVars>>

-----------------------------------------------------------------------------

Check(t) == NotYet(t) \/ Rerequest(t) \/ Complete(t) \/ Write(t)

ReceiveLogs ==
    \/ ProcessLogEntry
    \/ \E l \in LogId, c \in Chunk : ProcessLogData(l, c)
    \/ Check("receive")

SystemThread == DataExpired \/ DataTimeout \/ Check("system")

LogNext ==
    \/ GetEntries \/ ListEnded \/ ListAgain
    \/ \E l \in LogId : Download(l)
    \/ ReceiveLogs \/ SystemThread
    \/ LoseMail

\* what was sent and not lost arrives, timeouts expire and threads run
LogFairness ==
    WF_logVars(ReceiveLogs) /\ WF_logVars(SystemThread) /\ WF_logVars(ListEnded \/ ListAgain)

LogSpec == LogInit /\ [][LogNext]_logVars /\ LogFairness

-----------------------------------------------------------------------------
(* Properties                                                              *)

LogTypeOK ==
    /\ found \subseteq LogId /\ listed \in {0, Logs} /\ retries \in 0..(MaxListRetries + 1)
    /\ listTimers \in 0..MaxLists /\ lists \in 0..MaxLists
    /\ listAnswer \in {"none", "silence", "success", "too_many_retries"}
    /\ id \in LogId \cup {Nothing} /\ received \subseteq Chunk
    /\ bytes \in [Chunk -> LogId \cup {Nothing}] /\ file \in [Chunk -> LogId \cup {Nothing}]
    /\ rerequesting \in BOOLEAN /\ dataCookie \in BOOLEAN /\ dataTimers \in 0..MaxDownloads
    /\ at \in [Thread -> {"idle", "expired", "check", "write"}]
    /\ reported \in BOOLEAN /\ downloads \in 0..MaxDownloads /\ lost \in 0..MaxLost
    /\ mail \subseteq {Entry(l) : l \in LogId} \cup {Data(l, c) : l \in LogId, c \in Chunk}

\* However chunks are lost, repeated and reordered, the file of a first download
\* that is reported as a success is the log, whole.  (A later download starts with
\* the chunks and the bytes of the one before.)
FirstFileWhole == downloads = 1 /\ reported => \A c \in Chunk : file[c] = id

\* What has not ended is timed: a listing without an answer has a timeout that will end it
\* or try again, and until a download was reported there is a timeout, or a thread that
\* is about to arm it again or to report, although chunks and timeouts may complete a
\* download at the same time and each removes the timeout the cookie refers to.
LogsAreTimed ==
    /\ lists > 0 /\ listAnswer = "none" => listTimers > 0
    /\ dataCookie => dataTimers > 0
    /\ downloads > 0 /\ ~reported =>
          dataTimers > 0 \/ at["system"] = "expired" \/ \E t \in Thread : at[t] = "write"

\* A first download ends with a success, unless its last chunk is lost: then nothing
\* is asked for again, and the timeout is armed for ever.
DownloadEnds ==
    downloads = 1 ~> reported \/ downloads > 1 \/ (lost > 0 /\ ~rerequesting)

\* A listing is answered with all the logs there are or for too many retries, unless
\* a timeout finds no entry at all: then it ends in silence.
ListEnds == lists > 0 ~> listAnswer # "none"
===============================================================================
