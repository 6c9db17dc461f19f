------------------------------ MODULE SerialPort ------------------------------
(***************************************************************************)
(* The serial port library: serial::Serial with its read and write locks   *)
(* over the implementation for Unix (termios, select) or Windows (DCB,     *)
(* overlapped calls).                                                      *)
(*                                                                         *)
(* The bytes of the line are numbered as they arrive; even ones end a      *)
(* line.  on_wire names for each byte sent the call that wrote it.  The    *)
(* owner of the port opens, closes and configures it, as CYdLidar does;    *)
(* any thread reads and writes.  How long a timer runs is left open.       *)
(***************************************************************************)
EXTENDS Integers, Sequences, FiniteSets

CONSTANTS
    Owner, OtherUsers,   \* the threads
    Settings,            \* <<field, value>> pairs the owner may set
    Sizes,               \* of transfers
    MaxPortCalls, MaxBytes   \* bounds: calls, bytes that arrive

ASSUME SerialAssumption ==
    /\ Owner \notin OtherUsers /\ "nobody" \notin OtherUsers \cup {Owner}
    /\ \A s \in Settings : s[1] \in {"baud", "bits", "parity", "stop", "flow"}
    /\ \A s \in Settings :
          /\ s[1] = "parity" => s[2] \in {"none", "even", "odd", "space", "mark"}
          /\ s[1] = "stop" => s[2] \in {"one", "onehalf", "two"}
          /\ s[1] = "flow" => s[2] \in {"none", "hardware", "software"}
    /\ MaxPortCalls \in Nat /\ MaxBytes \in Nat /\ Sizes \subseteq Nat \ {0}

PortUsers == OtherUsers \cup {Owner}

VARIABLES
    platform,   \* "unix" or "windows", and does its driver know any baud rate (termios2)
    port,       \* SerialImpl: open, fd, the settings asked for, those a set agreed to
    line,       \* settings of the line, is the device gone
    input, incoming,     \* bytes in the buffer of the driver, bytes so far
    on_wire,    \* bytes sent
    holder,     \* of the read lock and the write lock
    call,       \* of each thread
    called      \* number of calls

serialVars == <<platform, port, line, input, incoming, on_wire, holder, call, called>>

Fields == {"baud", "bits", "parity", "stop", "flow"}
Nobody == "nobody"
NoCall == [op |-> "none", step |-> "none", size |-> 0, got |-> <<>>, sent |-> 0, id |-> 0,
           expired |-> FALSE, disturbed |-> FALSE]
Unix == platform.os = "unix"

-----------------------------------------------------------------------------
(* The settings of a line.  termios keeps them as flags and a character    *)
(* size, DCB by field.                                                     *)

\* the cases of is_standardbaudrate for which Linux has a constant; B500000 has none
is_standardbaudrate(b) ==
    b \in {0, 50, 75, 110, 134, 150, 200, 300, 600, 1200, 1800, 2400, 4800, 9600, 19200,
           38400, 57600, 115200, 230400, 460800, 576000, 921600, 1000000, 1152000, 1500000,
           2000000, 2500000, 3000000, 3500000, 4000000}

\* set_databits
TermiosBits(tio, v) == [tio EXCEPT !.bits = v]

\* faulty variant: even parity keeps the flag of odd parity
TermiosParityOdd(tio, v) ==
    [tio EXCEPT !.flags =
        CASE v = "none" -> @ \ {"PARENB"}
          [] v = "even" -> @ \cup {"PARENB"}
          [] OTHER -> @ \cup {"PARENB", "PARODD"}]

\* set_parity: CMSPAR is set for mark and space and never cleared
TermiosParity(tio, v) ==
    [tio EXCEPT !.flags =
        CASE v = "none"  -> @ \ {"PARENB"}
          [] v = "even"  -> (@ \ {"PARODD"}) \cup {"PARENB"}
          [] v = "odd"   -> @ \cup {"PARENB", "PARODD"}
          [] v = "space" -> (@ \ {"PARODD"}) \cup {"PARENB", "CMSPAR"}
          [] v = "mark"  -> @ \cup {"PARENB", "PARODD", "CMSPAR"}]

\* set_stopbits: one and a half becomes one
TermiosStop(tio, v) ==
    [tio EXCEPT !.flags = IF v = "two" THEN @ \cup {"CSTOPB"} ELSE @ \ {"CSTOPB"}]

\* set_flowcontrol; XON stands for IXON, IXOFF and IXANY
TermiosFlow(tio, v) ==
    [tio EXCEPT !.flags = (@ \ {"CRTSCTS", "XON"}) \cup
        (CASE v = "none" -> {} [] v = "hardware" -> {"CRTSCTS"} [] v = "software" -> {"XON"})]

\* setStandardBaudRate, setCustomBaudRate.  Without termios2 the divisor for a custom
\* rate is set and then cleared again by setStandardBaudRate(B38400)
TermiosBaud(tio, v) ==
    [tio EXCEPT !.baud = IF is_standardbaudrate(v) \/ platform.any_baud THEN v ELSE 38400]

\* one setter of the Unix implementation
TermiosSet(tio, f, v) ==
    CASE f = "baud"   -> TermiosBaud(tio, v)
      [] f = "bits"   -> TermiosBits(tio, v)
      [] f = "parity" -> TermiosParity(tio, v)
      [] f = "stop"   -> TermiosStop(tio, v)
      [] f = "flow"   -> TermiosFlow(tio, v)

\* the setters of the Windows implementation assign a field each; any baud rate is
\* passed on
DcbSet(dcb, f, v) == [dcb EXCEPT ![f] = v]

\* how the line behaves under the flags (termios(3))
TermiosParityOf(tio) ==
    IF "PARENB" \notin tio.flags THEN "none"
    ELSE IF "CMSPAR" \in tio.flags
    THEN IF "PARODD" \in tio.flags THEN "mark" ELSE "space"
    ELSE IF "PARODD" \in tio.flags THEN "odd" ELSE "even"
Effective(f) ==
    IF ~Unix \/ f \in {"baud", "bits"} THEN line[f] ELSE
    CASE f = "parity" -> TermiosParityOf(line)
      [] f = "stop" -> IF "CSTOPB" \in line.flags THEN "two" ELSE "one"
      [] f = "flow" -> IF "CRTSCTS" \in line.flags THEN "hardware"
                       ELSE IF "XON" \in line.flags THEN "software" ELSE "none"

NewLine == [baud |-> 9600, bits |-> 8, flags |-> {}, parity |-> "none", stop |-> "one",
            flow |-> "none", gone |-> FALSE]
NewPort == [open |-> FALSE, fd |-> "none", agreed |-> {},
            asked |-> [baud |-> 9600, bits |-> 8, parity |-> "none", stop |-> "one",
                       flow |-> "none"]]

\* open() and reconfigurePort() set every field
SetAll(l, asked) ==
    IF Unix
    THEN TermiosBaud(TermiosFlow(TermiosStop(TermiosParity(TermiosBits(l,
             asked.bits), asked.parity), asked.stop), asked.flow), asked.baud)
    ELSE [f \in DOMAIN l |-> IF f \in Fields THEN asked[f] ELSE l[f]]

Platforms == {[os |-> "unix", any_baud |-> TRUE], [os |-> "unix", any_baud |-> FALSE],
              [os |-> "windows", any_baud |-> TRUE]}

SerialInit ==
    /\ platform \in Platforms
    /\ port = NewPort /\ line = NewLine
    /\ input = <<>> /\ incoming = 0 /\ on_wire = <<>>
    /\ holder = [read |-> Nobody, write |-> Nobody]
    /\ call = [t \in PortUsers |-> NoCall] /\ called = 0

-----------------------------------------------------------------------------
(* Calls and their locks.                                                  *)

LineReads == {"readline", "readlines"}
TakesRead == LineReads \cup {"read", "flushInput", "flush", "setPort"}
TakesWrite == {"write", "flushOutput", "flush", "setPort"}
Operations(t) ==
    LineReads \cup {"read", "write", "flush", "flushInput", "flushOutput", "wait"}
    \cup (IF t = Owner THEN {"setPort"} ELSE {})
Working(t, ops) == call[t].op \in ops /\ call[t].step = "work"

SerialCall(t) ==
    /\ call[t] = NoCall /\ called < MaxPortCalls
    /\ called' = called + 1
    /\ \E op \in Operations(t), n \in Sizes :
          /\ call' = [call EXCEPT ![t] =
                 [NoCall EXCEPT !.op = op, !.size = n, !.id = called',
                     !.step = CASE op \in TakesRead -> "read lock"
                                [] op \in TakesWrite \ TakesRead -> "write lock"
                                [] OTHER -> "work"]]
    /\ UNCHANGED <<platform, port, line, input, incoming, on_wire, holder>>

\* faulty variant: one read does not wait for another
TakeReadLockAtOnce(t) ==
    /\ call[t].step = "read lock"
    /\ holder' = [holder EXCEPT !.read = t]
    /\ call' = [call EXCEPT ![t].step = IF call[t].op \in TakesWrite THEN "write lock" ELSE "work"]
    /\ UNCHANGED <<platform, port, line, input, incoming, on_wire, called>>

\* ScopedReadLock; setPort and flush take the write lock after it
TakeReadLock(t) ==
    /\ call[t].step = "read lock" /\ holder.read = Nobody
    /\ holder' = [holder EXCEPT !.read = t]
    /\ call' = [call EXCEPT ![t].step =
                   IF call[t].op \in TakesWrite THEN "write lock" ELSE "work"]
    /\ UNCHANGED <<platform, port, line, input, incoming, on_wire, called>>

TakeWriteLock(t) ==
    /\ call[t].step = "write lock" /\ holder.write = Nobody
    /\ holder' = [holder EXCEPT !.write = t]
    /\ call' = [call EXCEPT ![t].step = "work"]
    /\ UNCHANGED <<platform, port, line, input, incoming, on_wire, called>>

\* the call is over and its locks are released
Return(t) ==
    /\ call' = [call EXCEPT ![t] = NoCall]
    /\ holder' = [l \in DOMAIN holder |-> IF holder[l] = t THEN Nobody ELSE holder[l]]

\* the input is dropped, under whichever read goes on
Disturb == [t \in PortUsers |-> [call[t] EXCEPT !.disturbed = call[t].op # "none"]]

-----------------------------------------------------------------------------
(* Reading and writing.                                                    *)

Readable == port.fd = "open" /\ input # <<>>
Fewer(a, b) == IF a <= b THEN a ELSE b

\* ::read takes what is there, up to n bytes
Taking(t, n) ==
    LET k == Fewer(n, Len(input)) IN
    /\ call' = [call EXCEPT ![t].got = @ \o SubSeq(input, 1, k), ![t].step = "loop"]
    /\ input' = SubSeq(input, k + 1, Len(input))

\* a read of a port that is not open returns at once
ReadClosed(t) ==
    /\ Working(t, LineReads \cup {"read"}) /\ ~port.open
    /\ Return(t)
    /\ UNCHANGED <<platform, port, line, input, incoming, on_wire, called>>

\* SerialImpl::read, before its loop
UnixReadFirst(t) ==
    /\ Unix /\ Working(t, {"read"}) /\ port.open
    /\ Taking(t, call[t].size)
    /\ UNCHANGED <<platform, port, line, incoming, on_wire, holder, called>>

\* the loop: as long as there is time, wait until the port is readable and read.
\* A device that is gone is always readable and gives nothing
UnixReadMore(t) ==
    /\ Unix /\ call[t].op = "read" /\ call[t].step = "loop"
    /\ Len(call[t].got) < call[t].size /\ ~call[t].expired
    /\ Readable
    /\ Taking(t, call[t].size - Len(call[t].got))
    /\ UNCHANGED <<platform, port, line, incoming, on_wire, holder, called>>

\* on Windows an overlapped read that had to wait reports 0 bytes, whatever came
ReadReturns(t) ==
    /\ call[t].op = "read" /\ call[t].step = "loop"
    /\ Len(call[t].got) = call[t].size \/ call[t].expired
    /\ Return(t)
    /\ UNCHANGED <<platform, port, line, input, incoming, on_wire, called>>

\* readline and readlines read byte by byte, each byte with a timer of its own
ReadByte(t) ==
    /\ call[t].op \in LineReads /\ call[t].step \in {"work", "loop"} /\ port.open
    /\ ~call[t].expired /\ Readable
    /\ Len(call[t].got) < call[t].size
    /\ call[t].op = "readline" => \A i \in 1..Len(call[t].got) : call[t].got[i] % 2 # 0
    /\ Taking(t, 1)
    /\ UNCHANGED <<platform, port, line, incoming, on_wire, holder, called>>

\* they end with a byte that does not come, the size, and readline with an end of line
LineReturns(t) ==
    /\ call[t].op \in LineReads /\ call[t].step \in {"work", "loop"}
    /\ \/ call[t].expired \/ ~port.open
       \/ Len(call[t].got) = call[t].size
       \/ call[t].op = "readline" /\ \E i \in 1..Len(call[t].got) : call[t].got[i] % 2 = 0
    /\ Return(t)
    /\ UNCHANGED <<platform, port, line, input, incoming, on_wire, called>>

\* an overlapped read of one byte that had to wait reports 0: the byte is lost and the
\* line ends
WindowsByteLate(t) ==
    /\ ~Unix /\ call[t].op \in LineReads /\ call[t].step \in {"work", "loop"} /\ port.open
    /\ Readable
    /\ input' = Tail(input)
    /\ Return(t)
    /\ UNCHANGED <<platform, port, line, incoming, on_wire, called>>

\* ReadFile completes with all its bytes, or when the timeouts of the port have passed
WindowsRead(t) ==
    /\ ~Unix /\ Working(t, {"read"}) /\ port.open
    /\ Len(input) >= call[t].size \/ call[t].expired
    /\ Taking(t, call[t].size)
    /\ UNCHANGED <<platform, port, line, incoming, on_wire, holder, called>>

Put(t, n) == on_wire' = on_wire \o [i \in 1..n |-> call[t].id]

\* SerialImpl::write: the first round does not look at the timer, and a driver takes
\* as much as it can
UnixWriteSome(t) ==
    /\ Unix /\ call[t].op = "write" /\ call[t].step \in {"work", "loop"}
    /\ port.open \/ call[t].step = "loop"
    /\ port.fd = "open" /\ ~line.gone
    /\ call[t].step = "loop" => ~call[t].expired
    /\ \E n \in 1..(call[t].size - call[t].sent) :
          /\ Put(t, n)
          /\ call' = [call EXCEPT ![t].sent = @ + n, ![t].step = "loop"]
    /\ UNCHANGED <<platform, port, line, input, incoming, holder, called>>

\* WriteFile: all bytes go, but the call reports 0 when it has not finished at once
WindowsWrite(t) ==
    /\ ~Unix /\ Working(t, {"write"}) /\ port.open
    /\ Put(t, call[t].size)
    /\ call' = [call EXCEPT ![t].sent = call[t].size]
    /\ call[t].sent = 0
    /\ UNCHANGED <<platform, port, line, input, incoming, holder, called>>

WriteReturns(t) ==
    /\ call[t].op = "write" /\ call[t].step \in {"work", "loop"}
    /\ \/ call[t].sent = call[t].size \/ call[t].expired
       \/ ~port.open /\ call[t].step = "work"
    /\ Return(t)
    /\ UNCHANGED <<platform, port, line, input, incoming, on_wire, called>>

\* waitfordata, without a lock: until enough bytes are there, the time is over, the
\* port is closed or select is interrupted
Wait(t) ==
    /\ Working(t, {"wait"})
    /\ Len(input) >= call[t].size \/ call[t].expired \/ ~port.open
    /\ Return(t)
    /\ UNCHANGED <<platform, port, line, input, incoming, on_wire, called>>

\* flush and flushInput drop the input on one platform each
Flush(t) ==
    /\ Working(t, {"flush", "flushInput", "flushOutput"})
    /\ IF port.open /\ call[t].op = (IF Unix THEN "flushInput" ELSE "flush")
       THEN /\ input' = <<>>
            /\ call' = [Disturb EXCEPT ![t] = NoCall]
            /\ holder' = [l \in DOMAIN holder |-> IF holder[l] = t THEN Nobody ELSE holder[l]]
       ELSE Return(t) /\ UNCHANGED input
    /\ UNCHANGED <<platform, port, line, incoming, on_wire, called>>

-----------------------------------------------------------------------------
(* Opening, closing and settings: by the owner, without a lock.            *)

Idle == call[Owner] = NoCall /\ called < MaxPortCalls /\ called' = called + 1

\* open: each of its calls may fail.  On Unix a port that opened but could not be
\* configured keeps its descriptor, and close() will not close it
Opening ==
    \/ /\ ~port.open
       /\ port' = [port EXCEPT !.open = TRUE, !.fd = "open", !.agreed = Fields]
       /\ line' = SetAll(line, port.asked)
       /\ input' = <<>>
    \/ /\ ~port.open
       /\ port' = [port EXCEPT !.fd = IF Unix THEN "open" ELSE "none", !.agreed = {}]
       /\ UNCHANGED <<line, input>>
    \/ /\ ~port.open
       /\ port' = [port EXCEPT !.fd = "none", !.agreed = {}]
       /\ UNCHANGED <<line, input>>
    \/ port.open /\ UNCHANGED <<port, line, input>>

OpenPort ==
    /\ Idle
    /\ Opening
    /\ call' = Disturb
    /\ UNCHANGED <<platform, incoming, on_wire, holder>>

ClosePort ==
    /\ Idle /\ port.open
    /\ port' = [port EXCEPT !.open = FALSE, !.fd = "none"]
    /\ call' = Disturb
    /\ UNCHANGED <<platform, line, input, incoming, on_wire, holder>>

\* setBaudrate, setBytesize, setParity, setStopbits, setFlowcontrol.  What is asked
\* for is remembered before the line accepts it; Unix drops the input
Set ==
    /\ Idle /\ port.fd = "open"
    /\ \E s \in Settings, ok \in BOOLEAN :
          LET f == s[1]  v == s[2] IN
          /\ port' = [port EXCEPT !.asked[f] = v,
                         !.agreed = IF ok THEN @ \cup {f} ELSE @ \ {f}]
          /\ line' = IF ~ok THEN line
                     ELSE IF Unix THEN TermiosSet(line, f, v) ELSE DcbSet(line, f, v)
    /\ input' = IF Unix THEN <<>> ELSE input
    /\ call' = IF Unix THEN Disturb ELSE call
    /\ UNCHANGED <<platform, incoming, on_wire, holder>>

\* setPort, holding both locks: another device, opened if the first was
SetPortClose ==
    /\ Working(Owner, {"setPort"})
    /\ IF port.open
       THEN port' = [port EXCEPT !.open = FALSE, !.fd = "none"]
            /\ line' = [NewLine EXCEPT !.gone = line.gone]
            /\ input' = <<>>
            /\ call' = [Disturb EXCEPT ![Owner].step = "reopen"]
            /\ UNCHANGED holder
       ELSE Return(Owner) /\ UNCHANGED <<port, line, input>>
    /\ UNCHANGED <<platform, incoming, on_wire, called>>

SetPortOpen ==
    /\ call[Owner].op = "setPort" /\ call[Owner].step = "reopen"
    /\ Opening
    /\ Return(Owner)
    /\ UNCHANGED <<platform, incoming, on_wire, called>>

-----------------------------------------------------------------------------
(* The line and the clock.                                                 *)

Arrive ==
    /\ incoming < MaxBytes /\ port.fd = "open" /\ ~line.gone
    /\ incoming' = incoming + 1
    /\ input' = Append(input, incoming')
    /\ UNCHANGED <<platform, port, line, on_wire, holder, call, called>>

Unplug ==
    /\ ~line.gone /\ port.open
    /\ line' = [line EXCEPT !.gone = TRUE]
    /\ UNCHANGED <<platform, port, input, incoming, on_wire, holder, call, called>>

\* the MillisecondTimer of a call, or the timeouts of the Windows port
Expire(t) ==
    /\ call[t].step \in {"work", "loop"} /\ ~call[t].expired
    /\ call[t].op \in LineReads \cup {"read", "write", "wait"}
    /\ call' = [call EXCEPT ![t].expired = TRUE]
    /\ UNCHANGED <<platform, port, line, input, incoming, on_wire, holder, called>>

SerialStep(t) ==
    \/ TakeReadLock(t) \/ TakeWriteLock(t)
    \/ ReadClosed(t) \/ UnixReadFirst(t) \/ UnixReadMore(t) \/ ReadReturns(t)
    \/ ReadByte(t) \/ LineReturns(t) \/ WindowsByteLate(t) \/ WindowsRead(t)
    \/ UnixWriteSome(t) \/ WindowsWrite(t) \/ WriteReturns(t)
    \/ Wait(t) \/ Flush(t) \/ Expire(t)

SerialNext ==
    \/ \E t \in PortUsers : SerialCall(t) \/ SerialStep(t)
    \/ OpenPort \/ ClosePort \/ Set \/ SetPortClose \/ SetPortOpen
    \/ Arrive \/ Unplug

SerialTypeOK ==
    /\ platform \in Platforms
    /\ port.open \in BOOLEAN /\ port.fd \in {"open", "none"} /\ port.agreed \subseteq Fields
    /\ incoming \in 0..MaxBytes /\ input \in Seq(1..MaxBytes)
    /\ on_wire \in Seq(1..MaxPortCalls) /\ called \in 0..MaxPortCalls
    /\ \A l \in DOMAIN holder : holder[l] \in PortUsers \cup {Nobody}
    /\ \A t \in PortUsers : Len(call[t].got) <= call[t].size /\ call[t].sent <= call[t].size

-----------------------------------------------------------------------------
\* The bytes a read has taken follow each other on the line, whatever other
\* threads read, unless the input was dropped meanwhile, which the setters do
\* without the lock.
WholeReads ==
    \A t \in PortUsers :
       ~call[t].disturbed =>
          \A i \in 1..(Len(call[t].got) - 1) : call[t].got[i + 1] = call[t].got[i] + 1

\* The bytes of one write follow each other on the wire.
WholeWrites ==
    \A i, k \in 1..Len(on_wire) :
       i < k /\ on_wire[i] = on_wire[k] => \A j \in i..k : on_wire[j] = on_wire[i]

\* A transfer is not mixed with another thread's (the locks of serial.cpp).
WholeTransfers == WholeReads /\ WholeWrites

\* After a setter returned true, and after open, the line has the setting asked
\* for, except for the three cases in which the Unix code loses it: one and a half
\* stop bits, even or odd parity after mark or space, and a custom baud rate
\* without termios2.
LineAsAsked ==
    port.fd = "open" =>
        \A f \in port.agreed :
           \/ Effective(f) = port.asked[f]
           \/ Unix /\ f = "stop" /\ port.asked.stop = "onehalf"
           \/ Unix /\ f = "parity" /\ "CMSPAR" \in line.flags
           \/ Unix /\ f = "baud" /\ ~platform.any_baud

\* The thread that has the lock a call is about to take, if there is one.
LockWaitsFor(t) ==
    CASE t \in PortUsers /\ call[t].step = "read lock"  -> holder.read
      [] t \in PortUsers /\ call[t].step = "write lock" -> holder.write
      [] OTHER -> Nobody

\* No calls wait for each other in a circle: setPort and flush take the read lock
\* before the write lock, and nobody takes them the other way round
\* (serial.cpp:213-214,274-275).
LocksInOrder ==
    \A t \in PortUsers : LockWaitsFor(LockWaitsFor(LockWaitsFor(t))) = Nobody

\* Every call of the library ends: two locks taken by several threads, loops around
\* a device that sends nothing, or that is gone and always ready.
PortCallsReturn == \A t \in PortUsers : call[t] = NoCall
=============================================================================
