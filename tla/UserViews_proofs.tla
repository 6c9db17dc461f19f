--------------------------- MODULE UserViews_proofs ---------------------------
(***************************************************************************)
(* What telemetry promises its users, for any sensors, rates and bounds:   *)
(* who is told of a message, the remote control, the health, and the       *)
(* rates; the timers and answers of the mission protocol, for any          *)
(* missions, retries, losses and bounds; the progress of missions, and     *)
(* what a download gives back; and the settings of the camera, for any     *)
(* definition file.                                                        *)
(***************************************************************************)
EXTENDS UserViews, SequenceTheorems, WellFoundedInduction, TLAPS

-----------------------------------------------------------------------------
(* The handlers, and whom they tell                                        *)

\* Short sequences, by their elements
LEMMA One ==
  ASSUME NEW a, NEW h, h = <<a>>, NEW i \in DOMAIN h
  PROVE  h[i] = a
OBVIOUS

LEMMA Two ==
  ASSUME NEW S, NEW a \in S, NEW b \in S,
         NEW h, h = <<a, b>>
  PROVE  h \in Seq(S) /\ Len(h) = 2 /\ h[1] = a /\ h[2] = b
OBVIOUS

LEMMA Three ==
  ASSUME NEW S, NEW a \in S, NEW b \in S, NEW c \in S,
         NEW h, h = <<a, b, c>>
  PROVE  h \in Seq(S) /\ Len(h) = 3 /\ h[1] = a /\ h[2] = b /\ h[3] = c
OBVIOUS

LEMMA Four ==
  ASSUME NEW S, NEW a \in S, NEW b \in S, NEW c \in S, NEW d \in S,
         NEW h, h = <<a, b, c, d>>
  PROVE  h \in Seq(S) /\ Len(h) = 4 /\ h[1] = a /\ h[2] = b /\ h[3] = c /\ h[4] = d
OBVIOUS

LEMMA Six ==
  ASSUME NEW S, NEW a \in S, NEW b \in S, NEW c \in S, NEW d \in S, NEW e \in S, NEW f \in S,
         NEW h, h = <<a, b, c, d, e, f>>
  PROVE  /\ h \in Seq(S) /\ Len(h) = 6
         /\ h[1] = a /\ h[2] = b /\ h[3] = c /\ h[4] = d /\ h[5] = e /\ h[6] = f
OBVIOUS

\* What a handler does for a message
Names == {"local", "position", "speed", "home", "attitude", "quaternion", "euler", "mount",
          "camera quaternion", "camera euler", "gps", "air", "battery", "armed", "mode", "health",
          "all ok", "remote", "refresh", "version", "none"}
HandlerOp == [op : Names \cup {"store", "tell", "call"}, what : Names]

\* A handler that tells who subscribed to s does so after it has stored the field of s.
TellsOf(h, s) ==
  /\ h \in Seq(HandlerOp)
  /\ \E k \in 1..Len(h) : h[k] = Store(FieldOf(s))
  /\ \E i \in 1..Len(h) :
       h[i] = Tell(s) /\ \A j \in 1..Len(h) : j >= i => h[j] # Store(FieldOf(s))

\* The topics
LEMMA MessagesOf ==
  /\ DOMAIN PositionMessages = {"local", "global", "home"}
  /\ DOMAIN AttitudeMessages = {"attitude", "mount"}
  /\ DOMAIN StateMessages = {"gps", "landed", "battery"}
BY DEF PositionMessages, AttitudeMessages, StateMessages

\* What each topic's handler does
LEMMA Handlers ==
  /\ Handler("local") = <<Store("local"), Tell("local")>>
  /\ Handler("global") = <<Store("position"), Store("speed"), Tell("position"), Tell("speed")>>
  /\ Handler("home") = <<Store("home"), Do("home"), Tell("home")>>
  /\ Handler("attitude") = <<Store("attitude"), Tell("quaternion"), Tell("euler")>>
  /\ Handler("mount") = <<Store("mount"), Tell("camera quaternion"), Tell("camera euler")>>
  /\ Handler("gps") = <<Store("gps"), Do("gps"), Tell("gps")>>
  /\ Handler("landed") = <<Store("air"), Tell("air")>>
  /\ Handler("battery") = <<Store("battery"), Tell("battery")>>
  /\ Handler("heartbeat") = HeartbeatMessage
  /\ Handler("remote") = RemoteMessage
  /\ Handler("version") = <<Do("version")>>
<1>1. /\ Handler("local") = PositionMessages["local"]
      /\ Handler("global") = PositionMessages["global"]
      /\ Handler("home") = PositionMessages["home"]
  BY MessagesOf DEF Handler
<1>2. /\ Handler("attitude") = AttitudeMessages["attitude"]
      /\ Handler("mount") = AttitudeMessages["mount"]
  BY MessagesOf DEF Handler
<1>3. /\ Handler("gps") = StateMessages["gps"]
      /\ Handler("landed") = StateMessages["landed"]
      /\ Handler("battery") = StateMessages["battery"]
  BY MessagesOf DEF Handler
<1>4. /\ Handler("heartbeat") = HeartbeatMessage
      /\ Handler("remote") = RemoteMessage
      /\ Handler("version") = <<Do("version")>>
  BY MessagesOf DEF Handler
<1>5. /\ PositionMessages["local"] = <<Store("local"), Tell("local")>>
      /\ PositionMessages["global"] = <<Store("position"), Store("speed"), Tell("position"), Tell("speed")>>
      /\ PositionMessages["home"] = <<Store("home"), Do("home"), Tell("home")>>
  BY DEF PositionMessages
<1>6. /\ AttitudeMessages["attitude"] = <<Store("attitude"), Tell("quaternion"), Tell("euler")>>
      /\ AttitudeMessages["mount"] = <<Store("mount"), Tell("camera quaternion"), Tell("camera euler")>>
  BY DEF AttitudeMessages
<1>7. /\ StateMessages["gps"] = <<Store("gps"), Do("gps"), Tell("gps")>>
      /\ StateMessages["landed"] = <<Store("air"), Tell("air")>>
      /\ StateMessages["battery"] = <<Store("battery"), Tell("battery")>>
  BY DEF StateMessages
<1> QED
  BY <1>1, <1>2, <1>3, <1>4, <1>5, <1>6, <1>7

\* The operations of the handlers, by kind and field
LEMMA OpFields ==
  ASSUME NEW x \in Names
  PROVE  /\ Store(x) \in HandlerOp /\ Store(x).op = "store" /\ Store(x).what = x
         /\ Tell(x) \in HandlerOp /\ Tell(x).op = "tell" /\ Tell(x).what = x
         /\ Do(x) \in HandlerOp /\ Do(x).op = x /\ Do(x).what = "none"
<1>1. Store(x) \in HandlerOp /\ Store(x).op = "store" /\ Store(x).what = x
  BY DEF Store, HandlerOp
<1>2. Tell(x) \in HandlerOp /\ Tell(x).op = "tell" /\ Tell(x).what = x
  BY DEF Tell, HandlerOp
<1>3. Do(x) \in HandlerOp /\ Do(x).op = x /\ Do(x).what = "none"
  BY DEF Do, HandlerOp, Names
<1> QED
  BY <1>1, <1>2, <1>3

\* The field that a subscription is about
LEMMA Fields ==
  /\ \A s \in {"quaternion", "euler"} : FieldOf(s) = "attitude"
  /\ \A s \in {"camera quaternion", "camera euler"} : FieldOf(s) = "mount"
  /\ \A s \in {"local", "position", "speed", "home", "gps", "air", "battery", "armed", "mode",
               "remote"} : FieldOf(s) = s
BY DEF FieldOf

\* The shapes that the handlers have
LEMMA PlainTells ==
  ASSUME NEW f \in Names, FieldOf(f) = f,
         NEW h, h = <<Store(f), Tell(f)>>,
         NEW i \in DOMAIN h, h[i].op = "tell", NEW s, s = h[i].what
  PROVE  TellsOf(h, s)
<1>1. {Store(f), Tell(f)} \subseteq HandlerOp
  BY OpFields
<1>2. h \in Seq(HandlerOp) /\ Len(h) = 2
      /\ h[1] = Store(f) /\ h[2] = Tell(f)
  BY <1>1, Two
<1>3. DOMAIN h = 1..2
  BY <1>2
<1>4. /\ Store(f).op = "store" /\ Store(f).what = f /\ Tell(f).op = "tell"
      /\ Tell(f).what = f
  BY OpFields
<1>5. i = 2
  BY <1>2, <1>3, <1>4
<1>6. h[i] = Tell(s) /\ i \in 1..Len(h)
  BY <1>2, <1>4, <1>5
<1>7. \A j \in 1..Len(h) : j >= i => h[j] # Store(FieldOf(s))
  BY <1>2, <1>4, <1>5
<1>8. \E k \in 1..Len(h) : h[k] = Store(FieldOf(s))
  BY <1>2, <1>4, <1>5
<1> QED
  BY <1>2, <1>6, <1>7, <1>8 DEF TellsOf

\* The shapes of the handlers that look at the health between the two
LEMMA CheckedTells ==
  ASSUME NEW f \in Names, NEW d \in Names, d # "tell", FieldOf(f) = f,
         NEW h, h = <<Store(f), Do(d), Tell(f)>>,
         NEW i \in DOMAIN h, h[i].op = "tell", NEW s, s = h[i].what
  PROVE  TellsOf(h, s)
<1>1. {Do(d), Store(f), Tell(f)} \subseteq HandlerOp
  BY OpFields
<1>2. h \in Seq(HandlerOp) /\ Len(h) = 3
      /\ h[1] = Store(f) /\ h[2] = Do(d) /\ h[3] = Tell(f)
  BY <1>1, Three
<1>3. DOMAIN h = 1..3
  BY <1>2
<1>4. /\ Do(d).op = d /\ Store(f).op = "store" /\ Store(f).what = f
      /\ Tell(f).op = "tell" /\ Tell(f).what = f
  BY OpFields
<1>5. i = 3
  BY <1>2, <1>3, <1>4
<1>6. h[i] = Tell(s) /\ i \in 1..Len(h)
  BY <1>2, <1>4, <1>5
<1>7. \A j \in 1..Len(h) : j >= i => h[j] # Store(FieldOf(s))
  BY <1>2, <1>4, <1>5
<1>8. \E k \in 1..Len(h) : h[k] = Store(FieldOf(s))
  BY <1>2, <1>4, <1>5
<1> QED
  BY <1>2, <1>6, <1>7, <1>8 DEF TellsOf

\* those that tell of one field in two forms
LEMMA TwoFormsTells ==
  ASSUME NEW f \in Names, NEW a \in Names, NEW b \in Names, FieldOf(a) = f, FieldOf(b) = f,
         NEW h, h = <<Store(f), Tell(a), Tell(b)>>,
         NEW i \in DOMAIN h, h[i].op = "tell", NEW s, s = h[i].what
  PROVE  TellsOf(h, s)
<1>1. {Store(f), Tell(a), Tell(b)} \subseteq HandlerOp
  BY OpFields
<1>2. h \in Seq(HandlerOp) /\ Len(h) = 3
      /\ h[1] = Store(f) /\ h[2] = Tell(a) /\ h[3] = Tell(b)
  BY <1>1, Three
<1>3. DOMAIN h = 1..3
  BY <1>2
<1>4. /\ Store(f).op = "store" /\ Store(f).what = f /\ Tell(a).op = "tell"
      /\ Tell(a).what = a /\ Tell(b).op = "tell" /\ Tell(b).what = b
  BY OpFields
<1>5. i = 2 \/ i = 3
  BY <1>2, <1>3, <1>4
<1>6. h[i] = Tell(s) /\ i \in 1..Len(h)
  BY <1>2, <1>4, <1>5
<1>7. \A j \in 1..Len(h) : j >= i => h[j] # Store(FieldOf(s))
  BY <1>2, <1>4, <1>5
<1>8. \E k \in 1..Len(h) : h[k] = Store(FieldOf(s))
  BY <1>2, <1>4, <1>5
<1> QED
  BY <1>2, <1>6, <1>7, <1>8 DEF TellsOf

\* the one that stores two fields and tells of both
LEMMA TwoFieldsTells ==
  ASSUME NEW f \in Names, NEW g \in Names, f # g, FieldOf(f) = f, FieldOf(g) = g,
         NEW h, h = <<Store(f), Store(g), Tell(f), Tell(g)>>,
         NEW i \in DOMAIN h, h[i].op = "tell", NEW s, s = h[i].what
  PROVE  TellsOf(h, s)
<1>1. {Store(f), Store(g), Tell(f), Tell(g)} \subseteq HandlerOp
  BY OpFields
<1>2. h \in Seq(HandlerOp) /\ Len(h) = 4
      /\ h[1] = Store(f) /\ h[2] = Store(g) /\ h[3] = Tell(f)
      /\ h[4] = Tell(g)
  BY <1>1, Four
<1>3. DOMAIN h = 1..4
  BY <1>2
<1>4. /\ Store(f).op = "store" /\ Store(f).what = f /\ Store(g).op = "store"
      /\ Store(g).what = g /\ Tell(f).op = "tell" /\ Tell(f).what = f
      /\ Tell(g).op = "tell" /\ Tell(g).what = g
  BY OpFields
<1>5. i = 3 \/ i = 4
  BY <1>2, <1>3, <1>4
<1>6. h[i] = Tell(s) /\ i \in 1..Len(h)
  BY <1>2, <1>4, <1>5
<1>7. \A j \in 1..Len(h) : j >= i => h[j] # Store(FieldOf(s))
  BY <1>2, <1>4, <1>5
<1>8. \E k \in 1..Len(h) : h[k] = Store(FieldOf(s))
  BY <1>2, <1>4, <1>5
<1> QED
  BY <1>2, <1>6, <1>7, <1>8 DEF TellsOf

\* the remote control's
LEMMA RefreshedTells ==
  ASSUME NEW f \in Names, NEW d \in Names, d # "tell", d # "store", f # "tell", FieldOf(f) = f,
         NEW h, h = <<Store(f), Do(f), Tell(f), Do(d)>>,
         NEW i \in DOMAIN h, h[i].op = "tell", NEW s, s = h[i].what
  PROVE  TellsOf(h, s)
<1>1. {Do(d), Do(f), Store(f), Tell(f)} \subseteq HandlerOp
  BY OpFields
<1>2. h \in Seq(HandlerOp) /\ Len(h) = 4
      /\ h[1] = Store(f) /\ h[2] = Do(f) /\ h[3] = Tell(f)
      /\ h[4] = Do(d)
  BY <1>1, Four
<1>3. DOMAIN h = 1..4
  BY <1>2
<1>4. /\ Do(d).op = d /\ Do(f).op = f /\ Store(f).op = "store"
      /\ Store(f).what = f /\ Tell(f).op = "tell" /\ Tell(f).what = f
  BY OpFields
<1>5. i = 3
  BY <1>2, <1>3, <1>4
<1>6. h[i] = Tell(s) /\ i \in 1..Len(h)
  BY <1>2, <1>4, <1>5
<1>7. \A j \in 1..Len(h) : j >= i => h[j] # Store(FieldOf(s))
  BY <1>2, <1>4, <1>5
<1>8. \E k \in 1..Len(h) : h[k] = Store(FieldOf(s))
  BY <1>2, <1>4, <1>5
<1> QED
  BY <1>2, <1>6, <1>7, <1>8 DEF TellsOf

\* and the heartbeat's
LEMMA HeartbeatTells ==
  \A f, g, x, y \in Names : \A h, s : \A i \in DOMAIN h :
    /\ f # g /\ FieldOf(f) = f /\ FieldOf(g) = g
    /\ h = <<Store(f), Tell(f), Store(g), Tell(g), Tell(x), Tell(y)>>
    /\ h[i].op = "tell" /\ s = h[i].what /\ s # x /\ s # y
    => TellsOf(h, s)
<1> SUFFICES
      ASSUME NEW f \in Names, NEW g \in Names, NEW x \in Names, NEW y \in Names,
             f # g, FieldOf(f) = f, FieldOf(g) = g,
             NEW h, h = <<Store(f), Tell(f), Store(g), Tell(g), Tell(x), Tell(y)>>,
             NEW i \in DOMAIN h, h[i].op = "tell", NEW s, s = h[i].what, s # x, s # y
      PROVE  TellsOf(h, s)
  OBVIOUS
<1>1. {Store(f), Tell(f), Store(g), Tell(g), Tell(x), Tell(y)} \subseteq HandlerOp
  BY OpFields
<1>2. h \in Seq(HandlerOp) /\ Len(h) = 6
      /\ h[1] = Store(f) /\ h[2] = Tell(f) /\ h[3] = Store(g)
      /\ h[4] = Tell(g) /\ h[5] = Tell(x) /\ h[6] = Tell(y)
  BY <1>1, Six
<1>3. DOMAIN h = 1..6
  BY <1>2
<1>4. /\ Store(f).op = "store" /\ Store(f).what = f /\ Store(g).op = "store"
      /\ Store(g).what = g /\ Tell(f).op = "tell" /\ Tell(f).what = f
      /\ Tell(g).op = "tell" /\ Tell(g).what = g
      /\ Tell(x).what = x /\ Tell(y).what = y /\ Tell(x).op = "tell" /\ Tell(y).op = "tell"
  BY OpFields
<1>5. i = 2 \/ i = 4
  BY <1>2, <1>3, <1>4
<1>6. h[i] = Tell(s) /\ i \in 1..Len(h)
  BY <1>2, <1>4, <1>5
<1>7. \A j \in 1..Len(h) : j >= i => h[j] # Store(FieldOf(s))
  BY <1>2, <1>4, <1>5
<1>8. \E k \in 1..Len(h) : h[k] = Store(FieldOf(s))
  BY <1>2, <1>4, <1>5
<1> QED
  BY <1>2, <1>6, <1>7, <1>8 DEF TellsOf

\* A message tells of what its handler has stored before.
LEMMA TellsAfterStore ==
  ASSUME NEW t \in Topics, NEW s \in Effects(t, "tell") \ {"health", "all ok"}
  PROVE  TellsOf(Handler(t), s)
<1>1. PICK i \in DOMAIN Handler(t) : Handler(t)[i].op = "tell" /\ s = Handler(t)[i].what
  BY DEF Effects
<1>2. \A x \in {"local", "position", "speed", "home", "attitude", "quaternion", "euler", "mount",
                "camera quaternion", "camera euler", "gps", "air", "battery", "armed", "mode",
                "remote", "refresh"} : x \in Names
  BY DEF Names
<1>3. t \in {"local", "landed", "battery"} => TellsOf(Handler(t), s)
  BY <1>1, <1>2, Handlers, Fields, PlainTells
<1>4. t \in {"home", "gps"} => TellsOf(Handler(t), s)
  BY <1>1, <1>2, Handlers, Fields, CheckedTells, ZenonT(30)
<1>5. t \in {"attitude", "mount"} => TellsOf(Handler(t), s)
  <2>1. ASSUME t = "attitude" PROVE TellsOf(Handler(t), s)
    <3>1. Handler(t) = <<Store("attitude"), Tell("quaternion"), Tell("euler")>>
      BY <2>1, Handlers
    <3>2. FieldOf("quaternion") = "attitude" /\ FieldOf("euler") = "attitude"
      BY Fields
    <3>3. "attitude" \in Names /\ "quaternion" \in Names /\ "euler" \in Names
      BY <1>2
    <3> QED
      BY <1>1, <3>1, <3>2, <3>3, TwoFormsTells
  <2>2. ASSUME t = "mount" PROVE TellsOf(Handler(t), s)
    <3>1. Handler(t) = <<Store("mount"), Tell("camera quaternion"), Tell("camera euler")>>
      BY <2>2, Handlers
    <3>2. FieldOf("camera quaternion") = "mount" /\ FieldOf("camera euler") = "mount"
      BY Fields
    <3>3. "mount" \in Names /\ "camera quaternion" \in Names /\ "camera euler" \in Names
      BY <1>2
    <3> QED
      BY <1>1, <3>1, <3>2, <3>3, TwoFormsTells
  <2> QED
    BY <2>1, <2>2
<1>6. t = "global" => TellsOf(Handler(t), s)
  BY <1>1, <1>2, Handlers, Fields, TwoFieldsTells
<1>7. t = "remote" => TellsOf(Handler(t), s)
  BY <1>1, <1>2, Handlers, Fields, RefreshedTells DEF RemoteMessage
<1>8. t = "heartbeat" => TellsOf(Handler(t), s)
  <2> SUFFICES ASSUME t = "heartbeat" PROVE TellsOf(Handler(t), s)
    OBVIOUS
  <2>1. "armed" \in Names /\ "mode" \in Names /\ "health" \in Names /\ "all ok" \in Names
    BY DEF Names
  <2>3. FieldOf("armed") = "armed" /\ FieldOf("mode") = "mode" /\ "armed" # "mode"
    BY Fields
  <2>4. s # "health" /\ s # "all ok"
    OBVIOUS
  <2>2. Handler(t) = <<Store("armed"), Tell("armed"), Store("mode"), Tell("mode"), Tell("health"),
                       Tell("all ok")>>
    BY Handlers DEF HeartbeatMessage
  <2>5. \A x, y \in Names : \A h : \A j \in DOMAIN h :
           /\ h = <<Store("armed"), Tell("armed"), Store("mode"), Tell("mode"), Tell(x), Tell(y)>>
           /\ h[j].op = "tell" /\ s = h[j].what /\ s # x /\ s # y
           => TellsOf(h, s)
    BY <2>1, <2>3, HeartbeatTells
  <2>6. \A h : \A j \in DOMAIN h :
           /\ h = <<Store("armed"), Tell("armed"), Store("mode"), Tell("mode"), Tell("health"),
                     Tell("all ok")>>
           /\ h[j].op = "tell" /\ s = h[j].what
           => TellsOf(h, s)
    BY <2>1, <2>4, <2>5
  <2> QED
    BY <1>1, <2>2, <2>6
<1>9. t # "version"
  <2> SUFFICES ASSUME t = "version" PROVE FALSE
    OBVIOUS
  <2>1. Handler(t) = <<Do("version")>>
    BY Handlers
  <2>2. Handler(t)[i] = Do("version")
    BY <2>1, One
  <2>3. Do("version").op = "version"
    BY DEF Do
  <2> QED
    BY <1>1, <2>2, <2>3
<1> QED
  BY <1>3, <1>4, <1>5, <1>6, <1>7, <1>8, <1>9, MessagesOf DEF Topics
\* Of what is left to do: s will be told and its field is not stored after that, or its
\* field is not stored any more.
StoresAt(q, i, s) == q[i].op = "store" /\ q[i].what = FieldOf(s)
ToBeTold(q, s) ==
  \E i \in 1..Len(q) :
    /\ q[i].op \in {"tell", "call"} /\ q[i].what = s
    /\ \A j \in 1..Len(q) : j >= i => ~StoresAt(q, j, s)
NotStored(q, s) == \A j \in 1..Len(q) : ~StoresAt(q, j, s)

\* What is left of a handler, by its elements
LEMMA TailsOf ==
  ASSUME NEW S, NEW q \in Seq(S), q # <<>>
  PROVE  /\ Head(q) = q[1] /\ 1 \in 1..Len(q) /\ Head(q) \in S
         /\ Tail(q) \in Seq(S) /\ Len(Tail(q)) = Len(q) - 1
         /\ \A i \in 1..Len(Tail(q)) : Tail(q)[i] = q[i + 1] /\ i + 1 \in 1..Len(q)
         /\ Len(q) \in Nat
BY HeadTailProperties

\* An operation that does not tell s is done.
LEMMA ToldTail ==
  ASSUME NEW q \in Seq(HandlerOp), q # <<>>, NEW s
  PROVE  /\ NotStored(q, s) => NotStored(Tail(q), s)
         /\ ToBeTold(q, s) => ToBeTold(Tail(q), s) \/ 
              (Head(q).op \in {"tell", "call"} /\ Head(q).what = s /\ NotStored(Tail(q), s))
<1>1. /\ Head(q) = q[1] /\ Len(Tail(q)) = Len(q) - 1 /\ Len(q) \in Nat
      /\ \A i \in 1..Len(Tail(q)) : Tail(q)[i] = q[i + 1] /\ i + 1 \in 1..Len(q)
  BY TailsOf
<1>2. \A i \in 1..Len(Tail(q)) : StoresAt(Tail(q), i, s) <=> StoresAt(q, i + 1, s)
  BY <1>1 DEF StoresAt
<1>3. NotStored(q, s) => NotStored(Tail(q), s)
  BY <1>1, <1>2 DEF NotStored
<1>4. ASSUME ToBeTold(q, s)
      PROVE  ToBeTold(Tail(q), s) \/ 
              (Head(q).op \in {"tell", "call"} /\ Head(q).what = s /\ NotStored(Tail(q), s))
  <2>1. PICK i \in 1..Len(q) :
          /\ q[i].op \in {"tell", "call"} /\ q[i].what = s
          /\ \A j \in 1..Len(q) : j >= i => ~StoresAt(q, j, s)
    BY <1>4 DEF ToBeTold
  <2>2. CASE i = 1
    <3>1. \A j \in 1..Len(Tail(q)) : ~StoresAt(Tail(q), j, s)
      BY <1>1, <1>2, <2>1, <2>2
    <3> QED
      BY <1>1, <2>1, <2>2, <3>1 DEF NotStored
  <2>3. CASE i # 1
    <3> DEFINE k == i - 1
    <3>1. k \in 1..Len(Tail(q)) /\ i = k + 1
      BY <1>1, <2>3
    <3>2. Tail(q)[k] = q[i]
      BY <1>1, <3>1
    <3>3. \A j \in 1..Len(Tail(q)) : j >= k => ~StoresAt(Tail(q), j, s)
      BY <1>1, <1>2, <2>1, <3>1
    <3> HIDE DEF k
    <3> QED
      BY <2>1, <3>1, <3>2, <3>3 DEF ToBeTold
  <2> QED
    BY <2>2, <2>3
<1> QED
  BY <1>3, <1>4

\* The first operation is replaced by one that also tells.
LEMMA ToldCall ==
  ASSUME NEW q \in Seq(HandlerOp), q # <<>>, NEW s, NEW o \in HandlerOp, Head(q).op = "tell",
         o.op = "call", o.what = Head(q).what, NEW r, r = <<o>> \o Tail(q)
  PROVE  /\ r \in Seq(HandlerOp)
         /\ NotStored(q, s) => NotStored(r, s)
         /\ ToBeTold(q, s) => ToBeTold(r, s)
<1>1. /\ Head(q) = q[1] /\ Tail(q) \in Seq(HandlerOp) /\ Len(Tail(q)) = Len(q) - 1 /\ Len(q) \in Nat
      /\ \A i \in 1..Len(Tail(q)) : Tail(q)[i] = q[i + 1]
  BY TailsOf
<1>2. <<o>> \in Seq(HandlerOp) /\ Len(<<o>>) = 1 /\ <<o>>[1] = o
  OBVIOUS
<1>3. /\ r \in Seq(HandlerOp) /\ Len(r) = Len(q)
      /\ \A i \in 1..Len(r) : r[i] = IF i <= 1 THEN <<o>>[i] ELSE Tail(q)[i - 1]
  BY <1>1, <1>2, ConcatProperties
<1>4. r[1] = o /\ \A i \in 1..Len(q) : i # 1 => r[i] = q[i]
  <2>1. ASSUME NEW i \in 1..Len(q), i # 1 PROVE r[i] = q[i]
    <3>1. i - 1 \in 1..Len(Tail(q)) /\ (i - 1) + 1 = i /\ ~(i <= 1)
      BY <1>1, <2>1
    <3>2. Tail(q)[i - 1] = q[(i - 1) + 1]
      BY <1>1, <3>1
    <3> QED
      BY <1>3, <3>1, <3>2
  <2>2. 1 \in 1..Len(r)
    BY <1>1, <1>3, TailsOf
  <2> QED
    BY <1>2, <1>3, <2>1, <2>2
<1>5. \A i \in 1..Len(q) : /\ StoresAt(r, i, s) <=> StoresAt(q, i, s)
                           /\ r[i].what = q[i].what
                           /\ q[i].op \in {"tell", "call"} => r[i].op \in {"tell", "call"}
  BY <1>1, <1>4 DEF StoresAt
<1> QED
  BY <1>3, <1>5 DEF NotStored, ToBeTold

-----------------------------------------------------------------------------

\* Who was subscribed when the message came, and stayed, knows its field, or will be told.
ToldInv ==
  /\ steady \subseteq subscribed /\ subscribed \subseteq Effects(topic, "tell") /\ topic \in Topics
  /\ DOMAIN stored = StoredFields /\ DOMAIN informed = Subscriptions
  /\ steady \ {"health", "all ok"} # {} => recv \in Seq(HandlerOp)
  /\ \A s \in steady \ {"health", "all ok"} :
       \/ informed[s] = stored[FieldOf(s)] /\ NotStored(recv, s)
       \/ ToBeTold(recv, s)

\* Whoever is told of a message in this way
LEMMA ToldBy ==
  ASSUME NEW h, NEW s, TellsOf(h, s)
  PROVE  h \in Seq(HandlerOp) /\ ToBeTold(h, s)
<1>1. h \in Seq(HandlerOp)
  BY DEF TellsOf
<1>2. PICK i \in 1..Len(h) : h[i] = Tell(s) /\ \A j \in 1..Len(h) : j >= i => h[j] # Store(FieldOf(s))
  BY DEF TellsOf
<1>3. \A x \in HandlerOp : x.op = "store" /\ x.what = FieldOf(s) => x = Store(FieldOf(s))
  BY DEF HandlerOp, Store
<1>4. \A j \in 1..Len(h) : h[j] \in HandlerOp
  BY <1>1
<1>5. \A j \in 1..Len(h) : j >= i => ~StoresAt(h, j, s)
  BY <1>2, <1>3, <1>4 DEF StoresAt
<1>6. h[i].op = "tell" /\ h[i].what = s
  BY <1>2 DEF Tell
<1> QED
  BY <1>1, <1>5, <1>6 DEF ToBeTold

\* Its field is one of the stored ones.
LEMMA FieldStored ==
  ASSUME NEW t \in Topics, NEW s \in Effects(t, "tell") \ {"health", "all ok"}
  PROVE  FieldOf(s) \in StoredFields
<1>1. PICK k \in 1..Len(Handler(t)) : Handler(t)[k] = Store(FieldOf(s))
  BY TellsAfterStore DEF TellsOf
<1>2. Handler(t) \in Seq(HandlerOp)
  BY TellsAfterStore DEF TellsOf
<1>3. k \in DOMAIN Handler(t)
  <2>1. DOMAIN Handler(t) = 1..Len(Handler(t))
    BY <1>2, LenProperties
  <2> QED
    BY <1>1, <2>1
<1>4. Store(FieldOf(s)).op = "store" /\ Store(FieldOf(s)).what = FieldOf(s)
  BY DEF Store
<1>5. FieldOf(s) \in Effects(t, "store")
  BY <1>1, <1>3, <1>4 DEF Effects
<1> QED
  BY <1>5 DEF StoredFields

\* A message begins with a handler that tells everyone after storing his field.
LEMMA ReportStep ==
  ASSUME ToldInv, NEW full \in BOOLEAN, NEW ok \in BOOLEAN, Report(full, ok)
  PROVE  ToldInv'
<1>1. UNCHANGED <<topic, stored, subscribed, informed>>
  BY DEF Report
<1>2. CASE full
  <2>1. recv' = Handler(topic) /\ steady' = subscribed
    BY <1>2 DEF Report
  <2>2. ASSUME NEW s \in steady' \ {"health", "all ok"}
        PROVE  recv' \in Seq(HandlerOp) /\ ToBeTold(recv', s)
    <3>1. s \in Effects(topic, "tell") \ {"health", "all ok"} /\ topic \in Topics
      BY <2>1, <2>2 DEF ToldInv
    <3>2. TellsOf(Handler(topic), s)
      BY <3>1, TellsAfterStore
    <3> QED
      BY <2>1, <3>2, ToldBy
  <2> QED
    BY <1>1, <2>1, <2>2 DEF ToldInv
<1>3. CASE ~full
  <2>1. steady' = {}
    BY <1>3 DEF Report
  <2> QED
    BY <1>1, <2>1 DEF ToldInv
<1> QED
  BY <1>2, <1>3

\* The steps that take an operation which neither stores nor tells
LEMMA OtherOpStep ==
  ASSUME ToldInv, UNCHANGED <<topic, stored, subscribed, informed, steady>>,
         recv # <<>>, Head(recv).op \notin {"store", "tell", "call"}, recv' = Tail(recv)
  PROVE  ToldInv'
<1>1. ASSUME NEW s \in steady \ {"health", "all ok"}
      PROVE  \/ informed[s] = stored[FieldOf(s)] /\ NotStored(recv', s)
             \/ ToBeTold(recv', s)
  <2>1. recv \in Seq(HandlerOp)
    BY <1>1 DEF ToldInv
  <2>2. \/ informed[s] = stored[FieldOf(s)] /\ NotStored(recv, s)
        \/ ToBeTold(recv, s)
    BY <1>1 DEF ToldInv
  <2> QED
    BY <2>1, <2>2, ToldTail
<1>2. steady \ {"health", "all ok"} # {} => recv' \in Seq(HandlerOp)
  BY TailsOf DEF ToldInv
<1> QED
  BY <1>1, <1>2 DEF ToldInv

\* A field is stored before who is subscribed is told of it.
LEMMA StoreFieldStep ==
  ASSUME ToldInv, StoreField
  PROVE  ToldInv'
<1> DEFINE f == Head(recv).what
<1>1. /\ recv # <<>> /\ Head(recv).op = "store" /\ recv' = Tail(recv)
      /\ stored' = [stored EXCEPT ![f] = reports]
      /\ UNCHANGED <<topic, subscribed, informed, steady>>
  BY DEF StoreField, Next1
<1> HIDE DEF f
<1>2. ASSUME NEW s \in steady \ {"health", "all ok"}
      PROVE  \/ informed[s] = stored'[FieldOf(s)] /\ NotStored(recv', s)
             \/ ToBeTold(recv', s)
  <2>1. recv \in Seq(HandlerOp)
    BY <1>2 DEF ToldInv
  <2>2. CASE ToBeTold(recv, s)
    BY <1>1, <2>1, <2>2, ToldTail
  <2>3. CASE informed[s] = stored[FieldOf(s)] /\ NotStored(recv, s)
    <3>1. ~StoresAt(recv, 1, s)
      BY <1>1, <2>1, <2>3, TailsOf DEF NotStored
    <3>2. FieldOf(s) # f
      BY <1>1, <2>1, <3>1, TailsOf DEF StoresAt, f
    <3>3. FieldOf(s) \in DOMAIN stored
      BY <1>2, FieldStored DEF ToldInv
    <3>4. stored'[FieldOf(s)] = stored[FieldOf(s)]
      BY <1>1, <3>2, <3>3
    <3> QED
      BY <1>1, <2>1, <2>3, <3>4, ToldTail
  <2> QED
    BY <1>2, <2>2, <2>3 DEF ToldInv
<1>3. steady \ {"health", "all ok"} # {} => recv' \in Seq(HandlerOp)
  BY <1>1, TailsOf DEF ToldInv
<1>4. DOMAIN stored' = DOMAIN stored
  BY <1>1
<1> QED
  BY <1>1, <1>2, <1>3, <1>4 DEF ToldInv

\* Whoever stays is subscribed, so that he is not passed over.
LEMMA CheckSubscriptionStep ==
  ASSUME ToldInv, CheckSubscription
  PROVE  ToldInv'
<1> DEFINE o == [Head(recv) EXCEPT !.op = "call"]
<1>1. /\ recv # <<>> /\ Head(recv).op = "tell"
      /\ Head(recv).what \in subscribed => recv' = <<o>> \o Tail(recv)
      /\ Head(recv).what \notin subscribed => recv' = Tail(recv)
      /\ UNCHANGED <<topic, stored, subscribed, informed, steady>>
  BY DEF CheckSubscription
<1>2. recv \in Seq(HandlerOp) => o \in HandlerOp /\ o.op = "call" /\ o.what = Head(recv).what
  <2>1. recv \in Seq(HandlerOp) => Head(recv) \in HandlerOp
    BY <1>1, TailsOf
  <2> QED
    BY <2>1 DEF HandlerOp
<1> HIDE DEF o
<1>3. ASSUME NEW s \in steady \ {"health", "all ok"}
      PROVE  \/ informed[s] = stored[FieldOf(s)] /\ NotStored(recv', s)
             \/ ToBeTold(recv', s)
  <2>1. recv \in Seq(HandlerOp) /\ s \in subscribed
    BY <1>3 DEF ToldInv
  <2>2. \/ informed[s] = stored[FieldOf(s)] /\ NotStored(recv, s)
        \/ ToBeTold(recv, s)
    BY <1>3 DEF ToldInv
  <2>3. CASE Head(recv).what \in subscribed
    BY <1>1, <1>2, <2>1, <2>2, <2>3, ToldCall
  <2>4. CASE Head(recv).what \notin subscribed
    <3>1. Head(recv).what # s
      BY <2>1, <2>4
    <3>2. recv \in Seq(HandlerOp) /\ recv # <<>> /\ recv' = Tail(recv)
      BY <1>1, <2>1, <2>4
    <3>3. /\ NotStored(recv, s) => NotStored(Tail(recv), s)
          /\ ToBeTold(recv, s) => ToBeTold(Tail(recv), s)
      BY <3>1, <3>2, ToldTail
    <3> QED
      BY <2>2, <3>2, <3>3
  <2> QED
    BY <2>3, <2>4
<1>4. steady \ {"health", "all ok"} # {} => recv' \in Seq(HandlerOp)
  <2>1. ASSUME recv \in Seq(HandlerOp) PROVE recv' \in Seq(HandlerOp)
    <3>1. CASE Head(recv).what \in subscribed
      BY <1>1, <1>2, <2>1, <3>1, ToldCall
    <3>2. CASE Head(recv).what \notin subscribed
      BY <1>1, <2>1, <3>2, TailsOf
    <3> QED
      BY <3>1, <3>2
  <2> QED
    BY <2>1 DEF ToldInv
<1> QED
  BY <1>1, <1>3, <1>4 DEF ToldInv

\* The callback is called with what the field is now.
LEMMA CallSubscriptionStep ==
  ASSUME ToldInv, CallSubscription
  PROVE  ToldInv'
<1> DEFINE w == Head(recv).what
<1>1. /\ recv # <<>> /\ Head(recv).op = "call" /\ recv' = Tail(recv)
      /\ w \in subscribed => informed' = [informed EXCEPT ![w] = Value(w)]
      /\ w \notin subscribed => informed' = informed
      /\ UNCHANGED <<topic, stored, subscribed, steady>>
  BY DEF CallSubscription, Next1
<1>2. ASSUME NEW s \in steady \ {"health", "all ok"}
      PROVE  \/ informed'[s] = stored[FieldOf(s)] /\ NotStored(recv', s)
             \/ ToBeTold(recv', s)
  <2>1. recv \in Seq(HandlerOp) /\ s \in subscribed /\ s \in DOMAIN informed
    <3>1. s \in Effects(topic, "tell") /\ topic \in Topics
      BY <1>2 DEF ToldInv
    <3>2. s \in Subscriptions
      BY <3>1 DEF Subscriptions
    <3> QED
      BY <1>2, <3>2 DEF ToldInv
  <2>2. \/ informed[s] = stored[FieldOf(s)] /\ NotStored(recv, s)
        \/ ToBeTold(recv, s)
    BY <1>2 DEF ToldInv
  <2>3. w = s => informed'[s] = stored[FieldOf(s)]
    BY <1>1, <1>2, <2>1 DEF Value
  <2>4. w # s => informed'[s] = informed[s]
    <3> HIDE DEF w
    <3> QED
      BY <1>1, <2>1
  <2> QED
    BY <1>1, <2>1, <2>2, <2>3, <2>4, ToldTail
<1>3. steady \ {"health", "all ok"} # {} => recv' \in Seq(HandlerOp)
  BY <1>1, TailsOf DEF ToldInv
<1>4. DOMAIN informed' = DOMAIN informed
  BY <1>1
<1> QED
  BY <1>1, <1>2, <1>3, <1>4 DEF ToldInv

\* Who subscribes or leaves is not among those who stayed.
LEMMA SubscribeStep ==
  ASSUME ToldInv, NEW s \in Subscriptions, Subscribe(s)
  PROVE  ToldInv'
<1>1. /\ UNCHANGED <<topic, stored, informed, recv>> /\ s \in Effects(topic, "tell")
      /\ subscribed' = subscribed \ {s} \/ subscribed' = subscribed \cup {s}
      /\ steady' = steady \ {s}
  BY DEF Subscribe
<1>2. steady' \subseteq subscribed' /\ subscribed' \subseteq Effects(topic, "tell")
  BY <1>1 DEF ToldInv
<1> QED
  BY <1>1, <1>2 DEF ToldInv

\* What the other operations leave alone
LEMMA ToldUnchanged ==
  ASSUME ToldInv, UNCHANGED <<topic, stored, subscribed, informed, steady, recv>>
  PROVE  ToldInv'
BY DEF ToldInv

\* Every step of telemetry keeps what is told.
LEMMA ToldStepInv ==
  ASSUME ToldInv, TelemetryNext
  PROVE  ToldInv'
<1>1. CASE SetHealth \/ RemoteReported \/ RefreshRemote \/ VersionReported
  <2>1. /\ UNCHANGED <<topic, stored, subscribed, informed, steady>> /\ recv # <<>>
        /\ recv' = Tail(recv) /\ Head(recv).op \in {"home", "gps", "remote", "refresh", "version"}
    BY <1>1 DEF SetHealth, RemoteReported, RefreshRemote, VersionReported, Next1
  <2> QED
    BY <2>1, OtherOpStep
<1>2. CASE FireRemote \/ RemoteLost \/ EnableTelemetry \/ DisableTelemetry \/ ParameterAnswered
           \/ ParameterFailed \/ RateAnswered
  BY <1>2, ToldUnchanged DEF FireRemote, RemoteLost, EnableTelemetry, DisableTelemetry,
     ParameterAnswered, ParameterFailed, RateAnswered, reportVars
<1>3. CASE (\E w \in DOMAIN rates, r \in RateValues : SetRate(w, r))
           \/ \E r \in RateValues : SetOtherRate(r)
  BY <1>3, ToldUnchanged DEF SetRate, SetOtherRate, reportVars
<1> QED
  BY <1>1, <1>2, <1>3, ReportStep, StoreFieldStep, CheckSubscriptionStep, CallSubscriptionStep,
     SubscribeStep DEF TelemetryNext

-----------------------------------------------------------------------------
(* The remote control                                                      *)

\* The timeout is armed as long as it has not run out since the plugin was enabled; a
\* timeout that has not been handled yet has run out.
WatchInv ==
    /\ enabled /\ ~ranOut => timer = "armed"
    /\ timer = "fired" => ranOut

\* Every step of telemetry keeps the watch.
LEMMA WatchStepInv ==
  ASSUME WatchInv, TelemetryNext
  PROVE  WatchInv'
<1>1. CASE UNCHANGED <<enabled, ranOut, timer>>
  BY <1>1 DEF WatchInv
<1>2. CASE FireRemote \/ RemoteLost \/ EnableTelemetry \/ DisableTelemetry
  BY <1>2 DEF WatchInv, FireRemote, RemoteLost, EnableTelemetry, DisableTelemetry
<1>3. \/ UNCHANGED <<enabled, ranOut, timer>>
      \/ FireRemote \/ RemoteLost \/ EnableTelemetry \/ DisableTelemetry
  BY DEF TelemetryNext, Report, StoreField, CheckSubscription, CallSubscription, SetHealth,
     RemoteReported, RefreshRemote, ParameterAnswered, ParameterFailed, Subscribe, SetRate,
     SetOtherRate, RateAnswered, VersionReported, remoteVars
<1> QED
  BY <1>1, <1>2, <1>3

-----------------------------------------------------------------------------
(* The health                                                              *)

HealthFields == Parameters \cup {"level", "position", "home"}

HealthInv ==
    health \in [HealthFields -> BOOLEAN] /\ content \in BOOLEAN /\ CalibrationKnown

\* No sensor is one of the other fields.
LEMMA SensorFields ==
  /\ "hitl" \in HealthFields /\ Sensors \subseteq HealthFields
  /\ \A p \in Sensors : p \notin {"hitl", "level", "position", "home"}
BY TelemetryAssumption DEF HealthFields, Parameters

\* What the handlers of messages and of the level write is no sensor's.
LEMMA OtherFieldKept ==
  ASSUME HealthInv, NEW x \in {"level", "position", "home"}, NEW v \in BOOLEAN,
         health' = [health EXCEPT ![x] = v], UNCHANGED <<answered, truth, content>>
  PROVE  HealthInv'
<1>1. health' \in [HealthFields -> BOOLEAN]
  BY DEF HealthInv
<1>2. health'["hitl"] = health["hitl"] /\ \A p \in Sensors : health'[p] = health[p]
  BY SensorFields DEF HealthInv
<1> QED
  BY <1>1, <1>2 DEF HealthInv, CalibrationKnown

\* An answer about the simulation counts for all sensors.
LEMMA HitlKept ==
  ASSUME NEW h \in [HealthFields -> BOOLEAN], NEW v \in BOOLEAN, NEW K,
         \A p \in Sensors : h[p] <=> p \in K \/ h["hitl"],
         h["hitl"] => v
  PROVE  /\ ReceiveHitl(h, v) \in [HealthFields -> BOOLEAN]
         /\ ReceiveHitl(h, v)["hitl"] = v
         /\ \A p \in Sensors : ReceiveHitl(h, v)[p] <=> p \in K \/ v
<1> DEFINE g == ReceiveHitl(h, v)
<1>0. g = [x \in HealthFields |-> CASE x = "hitl" -> v
                                    [] x \in Sensors -> v \/ h[x]
                                    [] OTHER -> h[x]]
  BY DEF ReceiveHitl
<1>1. ASSUME NEW x \in HealthFields
      PROVE  /\ x = "hitl" => g[x] = v
             /\ x \in Sensors => g[x] = (v \/ h[x])
             /\ x # "hitl" /\ x \notin Sensors => g[x] = h[x]
  BY <1>0, SensorFields
<1>2. DOMAIN g = HealthFields /\ g = [x \in HealthFields |-> g[x]]
  BY <1>0
<1> HIDE DEF g
<1>3. ASSUME NEW x \in HealthFields PROVE g[x] \in BOOLEAN
  <2>1. h[x] \in BOOLEAN /\ (v \/ h[x]) \in BOOLEAN
    OBVIOUS
  <2>2. CASE x = "hitl"
    BY <1>1, <2>2
  <2>3. CASE x \in Sensors
    BY <1>1, <2>1, <2>3
  <2>4. CASE x # "hitl" /\ x \notin Sensors
    BY <1>1, <2>1, <2>4
  <2> QED
    BY <2>2, <2>3, <2>4
<1>4. g \in [HealthFields -> BOOLEAN]
  BY <1>2, <1>3
<1>5. ASSUME NEW p \in Sensors PROVE g[p] <=> p \in K \/ v
  BY <1>1, SensorFields
<1>6. g["hitl"] = v
  BY <1>1, SensorFields
<1> QED
  BY <1>4, <1>5, <1>6 DEF g

\* An answer makes known just the parameter it is about, or the simulation.
LEMMA AnsweredStep ==
  ASSUME HealthInv, ParameterAnswered
  PROVE  HealthInv'
<1> DEFINE p == Head(queried)
<1>1. /\ health' = Received(health, p) /\ answered' = answered \cup {p} /\ truth' = truth
  BY DEF ParameterAnswered
<1>0. content' = content
  BY DEF ParameterAnswered, reportVars
<1> HIDE DEF p
<1>2. CASE p = "hitl"
  <2>1. health' = ReceiveHitl(health, "hitl" \in truth)
    BY <1>1, <1>2 DEF Received
  <2>2. /\ health \in [HealthFields -> BOOLEAN] /\ ("hitl" \in truth) \in BOOLEAN
        /\ \A q \in Sensors : health[q] <=> q \in answered \cap truth \/ health["hitl"]
        /\ health["hitl"] => "hitl" \in truth
    BY DEF HealthInv, CalibrationKnown
  <2>3. /\ health' \in [HealthFields -> BOOLEAN]
        /\ health'["hitl"] = ("hitl" \in truth)
        /\ \A q \in Sensors : health'[q] <=> q \in answered \cap truth \/ "hitl" \in truth
    BY <2>1, <2>2, HitlKept
  <2> QED
    BY <1>0, <1>1, <1>2, <2>3, SensorFields DEF HealthInv, CalibrationKnown
<1>3. CASE p # "hitl"
  <2>1. health' = [health EXCEPT ![p] = p \in truth \/ health["hitl"]]
    BY <1>1, <1>3 DEF Received, ReceiveCalibration, Calibrated
  <2>2. health' \in [HealthFields -> BOOLEAN]
    BY <2>1 DEF HealthInv
  <2>3. health'["hitl"] = health["hitl"]
    BY <1>3, <2>1, SensorFields DEF HealthInv
  <2>4. ASSUME NEW q \in Sensors
        PROVE  health'[q] <=> q \in answered' \cap truth \/ health'["hitl"]
    <3>1. CASE q = p
      BY <1>1, <2>1, <2>3, <3>1, SensorFields DEF HealthInv
    <3>2. CASE q # p
      BY <1>1, <2>1, <2>3, <3>2, SensorFields DEF HealthInv, CalibrationKnown
    <3> QED
      BY <3>1, <3>2
  <2> QED
    BY <1>0, <1>1, <1>3, <2>2, <2>3, <2>4 DEF HealthInv, CalibrationKnown
<1> QED
  BY <1>2, <1>3

\* Enabling again does not lose what is known: what is in the cache is received again.
LEMMA EnableStep ==
  ASSUME HealthInv, EnableTelemetry
  PROVE  HealthInv'
<1> DEFINE known == [x \in DOMAIN health |->
                       IF x \in Sensors \cap answered THEN x \in truth \/ health["hitl"]
                       ELSE health[x]]
<1>1. /\ health' = [FromCache(health) EXCEPT !["level"] = TRUE \/ FromCache(health)["hitl"]]
      /\ answered' = answered /\ truth' = truth /\ content' = content
  BY DEF EnableTelemetry, Calibrated, reportVars
<1>2. /\ known \in [HealthFields -> BOOLEAN] /\ known["hitl"] = health["hitl"]
      /\ \A q \in Sensors : known[q] <=> q \in answered \cap truth \/ known["hitl"]
  BY SensorFields DEF HealthInv, CalibrationKnown
<1>3. known["hitl"] <=> "hitl" \in answered \cap truth
  BY <1>2 DEF HealthInv, CalibrationKnown
<1>4. FromCache(health) = IF "hitl" \in answered THEN ReceiveHitl(known, "hitl" \in truth) ELSE known
  BY DEF FromCache
<1> HIDE DEF known
<1>5. /\ FromCache(health) \in [HealthFields -> BOOLEAN]
      /\ FromCache(health)["hitl"] <=> "hitl" \in answered \cap truth
      /\ \A q \in Sensors : FromCache(health)[q] <=> q \in answered \cap truth \/ FromCache(health)["hitl"]
  <2>1. CASE "hitl" \in answered
    <3>1. /\ ("hitl" \in truth) \in BOOLEAN
          /\ known["hitl"] => "hitl" \in truth
          /\ FromCache(health) = ReceiveHitl(known, "hitl" \in truth)
      BY <1>3, <1>4, <2>1
    <3> DEFINE g == ReceiveHitl(known, "hitl" \in truth)
    <3>2. /\ g \in [HealthFields -> BOOLEAN] /\ g["hitl"] = ("hitl" \in truth)
          /\ \A q \in Sensors : g[q] <=> q \in answered \cap truth \/ "hitl" \in truth
      BY <1>2, <3>1, HitlKept
    <3> HIDE DEF g
    <3>3. FromCache(health) = g
      BY <3>1 DEF g
    <3> QED
      BY <2>1, <3>2, <3>3
  <2>2. CASE "hitl" \notin answered
    BY <1>2, <1>3, <1>4, <2>2
  <2> QED
    BY <2>1, <2>2
<1> DEFINE h == FromCache(health)
<1>6. /\ h \in [HealthFields -> BOOLEAN] /\ health' = [h EXCEPT !["level"] = TRUE]
      /\ h["hitl"] <=> "hitl" \in answered \cap truth
      /\ \A q \in Sensors : h[q] <=> q \in answered \cap truth \/ h["hitl"]
  BY <1>1, <1>5
<1> HIDE DEF h
<1>7. /\ health' \in [HealthFields -> BOOLEAN] /\ health'["hitl"] = h["hitl"]
      /\ \A q \in Sensors : health'[q] = h[q]
  BY <1>6, SensorFields
<1> QED
  BY <1>1, <1>6, <1>7 DEF HealthInv, CalibrationKnown

\* Every step of telemetry keeps the health.
LEMMA HealthStepInv ==
  ASSUME HealthInv, TelemetryNext
  PROVE  HealthInv'
<1>1. CASE UNCHANGED <<health, answered, truth>> /\ content' \in BOOLEAN
  BY <1>1 DEF HealthInv, CalibrationKnown
<1>2. CASE SetHealth
  <2>1. \/ health' = [health EXCEPT !["home"] = TRUE]
        \/ health' = [health EXCEPT !["position"] = content]
    BY <1>2 DEF SetHealth
  <2>2. UNCHANGED <<answered, truth, content>>
    BY <1>2 DEF SetHealth
  <2>3. content \in BOOLEAN
    BY DEF HealthInv
  <2> QED
    BY <2>1, <2>2, <2>3, OtherFieldKept
<1>3. \/ UNCHANGED <<health, answered, truth, content>>
      \/ UNCHANGED <<health, answered, truth>> /\ content' \in BOOLEAN
      \/ SetHealth \/ EnableTelemetry \/ ParameterAnswered
  BY DEF TelemetryNext, Report, StoreField, CheckSubscription, CallSubscription,
     RemoteReported, RefreshRemote, FireRemote, RemoteLost, DisableTelemetry, ParameterFailed,
     Subscribe, SetRate, SetOtherRate, RateAnswered, VersionReported, healthVars,
     reportVars
<1>4. content \in BOOLEAN
  BY DEF HealthInv
<1> QED
  BY <1>1, <1>2, <1>3, <1>4, EnableStep, AnsweredStep

-----------------------------------------------------------------------------
(* The rates                                                               *)

\* The rate that the vehicle will use once it has answered what it was sent
Ordered == IF ordered = <<>> THEN granted ELSE ordered[Len(ordered)]

RateInv ==
    /\ rates \in [{"position", "speed"} -> Int] /\ ordered \in Seq(Int) /\ granted \in Int
    /\ topic # "global" => rates["position"] <= 0 /\ rates["speed"] <= 0
    /\ ~refused => \A w \in {"position", "speed"} : rates[w] <= Ordered

\* What was sent last is what will be used in the end.
LEMMA SentLast ==
  ASSUME NEW q \in Seq(Int), NEW r \in Int
  PROVE  Append(q, r) \in Seq(Int) /\ Append(q, r) # <<>>
         /\ Append(q, r)[Len(Append(q, r))] = r
<1>1. Append(q, r) \in Seq(Int) /\ Len(Append(q, r)) = Len(q) + 1
      /\ Append(q, r)[Len(q) + 1] = r
  BY AppendProperties
<1> QED
  BY <1>1, EmptySeq, LenProperties

\* The last of several stays the last when the first is answered.
LEMMA AnsweredFirst ==
  ASSUME NEW q \in Seq(Int), q # <<>>
  PROVE  /\ Head(q) \in Int /\ Tail(q) \in Seq(Int)
         /\ Tail(q) = <<>> => Head(q) = q[Len(q)]
         /\ Tail(q) # <<>> => Tail(q)[Len(Tail(q))] = q[Len(q)]
<1>1. /\ Len(q) \in Nat \ {0} /\ Head(q) = q[1] /\ Head(q) \in Int /\ Tail(q) \in Seq(Int)
      /\ Len(Tail(q)) = Len(q) - 1 /\ \A i \in 1..Len(Tail(q)) : Tail(q)[i] = q[i + 1]
  BY HeadTailProperties, LenProperties, EmptySeq
<1>2. Tail(q) = <<>> => Len(q) = 1
  <2>1. ASSUME Tail(q) = <<>> PROVE Len(q) - 1 = 0
    BY <1>1, <2>1
  <2> QED
    BY <1>1, <2>1
<1>3. Tail(q) # <<>> => Len(Tail(q)) \in 1..Len(Tail(q))
  BY <1>1, EmptySeq, LenProperties
<1> QED
  BY <1>1, <1>2, <1>3

\* What is sent is the faster of the two.
LEMMA SetRateStep ==
  ASSUME RateInv, NEW w \in {"position", "speed"}, NEW r \in RateValues, SetRate(w, r)
  PROVE  RateInv'
<1>1. /\ topic = "global" /\ rates' = [rates EXCEPT ![w] = r]
      /\ ordered' = Append(ordered, Faster(rates')) /\ UNCHANGED <<topic, granted, refused>>
  BY DEF SetRate
<1>2. rates' \in [{"position", "speed"} -> Int]
  BY <1>1, TelemetryAssumption DEF RateInv
<1>3. /\ Faster(rates') \in Int
      /\ rates'["position"] <= Faster(rates') /\ rates'["speed"] <= Faster(rates')
  BY <1>2 DEF Faster
<1>4. ordered' \in Seq(Int) /\ ordered' # <<>> /\ ordered'[Len(ordered')] = Faster(rates')
  BY <1>1, <1>3, SentLast DEF RateInv
<1>5. Ordered' = Faster(rates')
  BY <1>4 DEF Ordered
<1> QED
  BY <1>1, <1>2, <1>3, <1>4, <1>5 DEF RateInv

\* The other messages' rates are positive, and those two are not set then.
LEMMA SetOtherRateStep ==
  ASSUME RateInv, NEW r \in RateValues, SetOtherRate(r)
  PROVE  RateInv'
<1>1. /\ topic # "global" /\ ordered' = Append(ordered, r)
      /\ UNCHANGED <<topic, rates, granted, refused>>
  BY DEF SetOtherRate
<1>2. r \in Int /\ r > 0
  BY TelemetryAssumption
<1>3. ordered' \in Seq(Int) /\ ordered' # <<>> /\ ordered'[Len(ordered')] = r
  BY <1>1, <1>2, SentLast DEF RateInv
<1>4. Ordered' = r
  BY <1>3 DEF Ordered
<1>5. \A w \in {"position", "speed"} : rates[w] \in Int /\ rates[w] <= 0
  BY <1>1 DEF RateInv
<1> QED
  BY <1>1, <1>2, <1>3, <1>4, <1>5 DEF RateInv

\* An answer that grants the last rate leaves nothing to be answered.
LEMMA RateAnsweredStep ==
  ASSUME RateInv, RateAnswered
  PROVE  RateInv'
<1>1. /\ ordered # <<>> /\ ordered' = Tail(ordered) /\ UNCHANGED <<topic, rates>>
      /\ \/ granted' = Head(ordered) /\ refused' = refused
         \/ refused' = TRUE /\ granted' = granted
  BY DEF RateAnswered
<1>2. /\ Head(ordered) \in Int /\ ordered' \in Seq(Int)
      /\ ordered' = <<>> => Head(ordered) = ordered[Len(ordered)]
      /\ ordered' # <<>> => ordered'[Len(ordered')] = ordered[Len(ordered)]
  BY <1>1, AnsweredFirst DEF RateInv
<1>3. ~refused' => Ordered' = Ordered /\ ~refused
  BY <1>1, <1>2 DEF Ordered
<1> QED
  BY <1>1, <1>2, <1>3 DEF RateInv

\* Every step of telemetry keeps the rates.
LEMMA RateStepInv ==
  ASSUME RateInv, TelemetryNext
  PROVE  RateInv'
<1>1. CASE UNCHANGED <<topic, rates, ordered, granted, refused>>
  BY <1>1 DEF RateInv, Ordered
<1>2. \/ UNCHANGED <<topic, rates, ordered, granted, refused>>
      \/ \E w \in DOMAIN rates, r \in RateValues : SetRate(w, r)
      \/ \E r \in RateValues : SetOtherRate(r)
      \/ RateAnswered
  BY DEF TelemetryNext, Report, StoreField, CheckSubscription, CallSubscription, SetHealth,
     RemoteReported, RefreshRemote, FireRemote, RemoteLost, EnableTelemetry, DisableTelemetry,
     ParameterAnswered, ParameterFailed, Subscribe, VersionReported, rateVars
<1>3. DOMAIN rates = {"position", "speed"}
  BY DEF RateInv
<1> QED
  BY <1>1, <1>2, <1>3, SetRateStep, SetOtherRateStep, RateAnsweredStep

-----------------------------------------------------------------------------
(* Telemetry                                                               *)

TelemetryInv == ToldInv /\ WatchInv /\ HealthInv /\ RateInv

\* When a handler has nothing left to do, nobody is still to be told.
LEMMA NobodyIsToBeTold ==
  ASSUME NEW q, Len(q) = 0, NEW s
  PROVE  ~ToBeTold(q, s)
<1>1. \A i \in 1..Len(q) : FALSE
  OBVIOUS
<1> QED
  BY <1>1 DEF ToBeTold

\* The invariant holds at first,
LEMMA TelemetryStarts ==
  Init => TelemetryInv
<1> SUFFICES ASSUME TelemetryInit PROVE TelemetryInv
  BY DEF Init
<1>1. ToldInv
  BY DEF TelemetryInit, ToldInv
<1>2. WatchInv
  BY DEF TelemetryInit, WatchInv
<1>3. HealthInv
  <2>1. /\ health = [h \in HealthFields |-> FALSE] /\ content = FALSE /\ answered = {}
    BY DEF TelemetryInit, HealthFields
  <2> QED
    BY <2>1, SensorFields DEF HealthInv, CalibrationKnown
<1>4. RateInv
  BY DEF TelemetryInit, RateInv, Ordered
<1> QED
  BY <1>1, <1>2, <1>3, <1>4 DEF TelemetryInv

\* is kept by every step, of the other views as well,
LEMMA TelemetryPreserved ==
  TelemetryInv /\ [Next]_viewVars => TelemetryInv'
<1> SUFFICES ASSUME TelemetryInv, [Next]_viewVars PROVE TelemetryInv'
  OBVIOUS
<1>1. CASE TelemetryNext
  BY <1>1, ToldStepInv, WatchStepInv, HealthStepInv, RateStepInv DEF TelemetryInv
<1>2. CASE UNCHANGED telemetryVars
  <2>1. UNCHANGED <<topic, stored, subscribed, informed, steady, recv, content, timer, ranOut, enabled,
                    health, answered, truth, rates, ordered, granted, refused>>
    BY <1>2 DEF telemetryVars, reportVars, remoteVars, healthVars, rateVars
  <2>2. WatchInv' /\ RateInv'
    BY <2>1 DEF TelemetryInv, WatchInv, RateInv, Ordered
  <2>3. HealthInv'
    BY <2>1 DEF TelemetryInv, HealthInv, CalibrationKnown
  <2> QED
    BY <2>1, <2>2, <2>3, ToldUnchanged DEF TelemetryInv
<1> QED
  BY <1>1, <1>2 DEF Next, MissionView, TransferView, SettingsView,
     TelemetryView, viewVars

\* and implies what users are promised.
LEMMA TelemetryInvServes ==
  TelemetryInv => TelemetryServed
<1> SUFFICES ASSUME TelemetryInv PROVE TelemetryServed
  OBVIOUS
<1>1. RemoteWatched
  BY DEF TelemetryInv, WatchInv, RemoteWatched
<1>2. CalibrationKnown
  BY DEF TelemetryInv, HealthInv
<1>3. RateServesBoth
  <2>1. DOMAIN rates = {"position", "speed"}
    BY DEF TelemetryInv, RateInv
  <2> QED
    BY <2>1 DEF TelemetryInv, RateInv, Ordered, RateServesBoth
<1>4. AllTold
  <2>1. ASSUME recv = <<>>, NEW s \in steady \ {"health", "all ok"}
        PROVE  informed[s] = stored[FieldOf(s)]
    <3>1. Len(recv) = 0
      BY <2>1
    <3>2. ~ToBeTold(recv, s)
      BY <3>1, NobodyIsToBeTold
    <3> QED
      BY <2>1, <3>2 DEF TelemetryInv, ToldInv
  <2> QED
    BY <2>1 DEF AllTold
<1> QED
  BY <1>1, <1>2, <1>3, <1>4 DEF TelemetryServed

\* Users of telemetry are served: who stays subscribed is told of each message with what it
\* brought, a remote control that is there is watched, a sensor counts as calibrated just if
\* the vehicle said so, and positions come as often as either of their two users asked.
THEOREM TelemetryIsServed ==
  Spec => []TelemetryServed
<1>1. Init => TelemetryInv
  BY TelemetryStarts
<1>2. TelemetryInv /\ [Next]_viewVars => TelemetryInv'
  BY TelemetryPreserved
<1>3. TelemetryInv => TelemetryServed
  BY TelemetryInvServes
<1> QED
  BY <1>1, <1>2, <1>3, PTL DEF Spec

-----------------------------------------------------------------------------
(* Missions under transfer: timers                                         *)

\* The kind of the last request.
Kind == requests[Request]

\* The user thread is in an operation only if one was called.
RequestsOK == requests \in Seq(Kinds) /\ (user # "idle" => requests # <<>>)

\* With a timely vehicle, timers and the activity agree at every step of the three
\* threads: there is one timer at most, the one of the cookie, and it is armed from
\* the moment that the first message is out, two steps before the activity says so;
\* no message is accepted while the user thread or the system thread is in between;
\* a command is under way in its own activity only, which has no timer.
WaitingInv ==
  /\ user \in {"idle", "send", "activity", "callback"}
  /\ timers \subseteq {cookie}
  /\ sys # "idle"
       => user = "idle" /\ activity \in Transfers /\ timers = {} /\ accepted = NoMessage
  /\ sys = "retry" => activity = "GET_MISSION"
  /\ accepted # NoMessage =>
       accepted.type \in DOMAIN Expected /\ activity = Expected[accepted.type] /\ user = "idle"
  /\ commands # {} => activity = "SEND_COMMAND"
  /\ \A r, s \in commands: r = s
  /\ user = "send" =>
       /\ activity = (IF Kind = "start" THEN "SEND_COMMAND" ELSE "NONE")
       /\ timers = {} /\ commands = {}
  /\ user = "activity" => activity = "NONE"
  /\ user = "callback" => activity = ActivityOf[Kind]
  /\ user \in {"activity", "callback"}
       => Kind # "start" /\ (timers = {} <=> Kind = "set_current")
  /\ (activity \in Transfers /\ user = "idle" /\ sys = "idle")
       => timers # {} \/ abandoned # "no"
  /\ (activity \notin Transfers /\ user \in {"idle", "send"}) => timers = {}

LEMMA RequestsStart == TransferInit => RequestsOK
BY DEF TransferInit, RequestsOK

\* In an operation there is a request, of a kind.
LEMMA KindIs == ASSUME RequestsOK, user # "idle" PROVE Kind \in Kinds
BY DEF RequestsOK, Kind, Request

\* What a call leaves.
LEMMA CallAsks ==
  ASSUME RequestsOK, NEW kind \in Kinds, Call(kind)
  PROVE  requests' \in Seq(Kinds) /\ Kind' = kind /\ requests' # <<>>
BY DEF RequestsOK, Kind, Request, Call

\* Only a call adds a request, and only requests enter the user thread.
LEMMA RequestsStep == ASSUME RequestsOK, TransferNext PROVE RequestsOK'
<1>1. ASSUME NEW kind \in Kinds, Call(kind) PROVE RequestsOK'
  BY <1>1, CallAsks DEF RequestsOK
<1>2. CASE UserThread
  BY <1>2 DEF UserThread, SendCount, SendRequestList, SendSetCurrent, SendCommand,
     SendFails, SetActivity, SetCallback, Sending, historyVars, UserUnchanged, RequestsOK
<1>3. CASE ReceiveThread
  BY <1>3 DEF ReceiveThread, Receive, ReceiveRequest, UploadItem, MissionAccepted,
     MissionRefused, CurrentSet, CountReceived, ItemUnexpected, ItemReceived,
     LastItemReceived, RecvUnchanged, RequestsOK
<1>4. CASE SystemThread \/ Disable
  BY <1>4 DEF SystemThread, FireTimer, UploadTimedOut, DownloadTimedOut, UnknownTimeout,
     RetryDownload, GiveUpDownload, Disable, SysUnchanged, RequestsOK
<1>5. ASSUME NEW r \in commands, NEW ok \in BOOLEAN, ReceiveCommandResult(r, ok)
      PROVE  RequestsOK'
  BY <1>5 DEF ReceiveCommandResult, RequestsOK
<1>6. CASE Delivery \/ VehicleRepeats \/ FallsSilent \/ Lose
  BY <1>6 DEF Delivery, VehicleRepeats, FallsSilent, Lose, VehicleCount, VehicleItem,
     VehicleNack, VehicleList, VehicleSendsItem, VehicleAck, VehicleSetCurrent, Unheard,
     VehicleReceives, PluginUnchanged, historyVars, RequestsOK
<1> QED BY <1>1, <1>2, <1>3, <1>4, <1>5, <1>6 DEF TransferNext

\* The vehicle and the link leave the plugin alone.
LEMMA VehicleDoes ==
  ASSUME Delivery \/ VehicleRepeats \/ FallsSilent \/ Lose
  PROVE  PluginUnchanged
BY DEF Delivery, VehicleRepeats, FallsSilent, Lose, VehicleCount, VehicleItem, VehicleNack,
   VehicleList, VehicleSendsItem, VehicleAck, VehicleSetCurrent, Unheard, VehicleReceives

\* The schedule is fixed.
LEMMA TimelyStays == ASSUME TransferNext PROVE timely' = timely
BY VehicleDoes DEF TransferNext, Call, UserThread, SendCount, SendRequestList,
   SendSetCurrent, SendCommand, SendFails, SetActivity, SetCallback, UserUnchanged,
   ReceiveThread, Receive, ReceiveRequest, UploadItem, MissionAccepted, MissionRefused,
   CurrentSet, CountReceived, ItemUnexpected, ItemReceived, LastItemReceived,
   RecvUnchanged, SystemThread, FireTimer, UploadTimedOut, DownloadTimedOut,
   UnknownTimeout, RetryDownload, GiveUpDownload, Disable, SysUnchanged,
   ReceiveCommandResult, PluginUnchanged

\* The operations: the timer comes first, then the activity, then the callback.
LEMMA WaitingUser == ASSUME RequestsOK, WaitingInv, UserThread PROVE WaitingInv'
<1> USE KindIs DEF WaitingInv, Kinds, Transfers, UserUnchanged, linkVars, timerVars,
         historyVars, cbVars, Sending, Kind, Request, Register
<1>1. ASSUME NEW n \in 1..MaxSize, SendCount(n) PROVE WaitingInv'
  BY <1>1 DEF SendCount
<1>2. CASE SendRequestList
  BY <1>2 DEF SendRequestList
<1>3. CASE SendSetCurrent
  BY <1>3 DEF SendSetCurrent
<1>4. CASE SendCommand
  BY <1>4 DEF SendCommand
<1>5. CASE SendFails
  BY <1>5 DEF SendFails
<1>6. CASE SetActivity
  BY <1>6 DEF SetActivity
<1>7. CASE SetCallback
  BY <1>7 DEF SetCallback, ActivityOf
<1> QED BY <1>1, <1>2, <1>3, <1>4, <1>5, <1>6, <1>7 DEF UserThread

\* A call finds the activity its own, and the timer gone.
LEMMA WaitingCall ==
  ASSUME RequestsOK, WaitingInv, NEW kind \in Kinds, Call(kind)
  PROVE  WaitingInv'
<1>1. /\ requests' \in Seq(Kinds) /\ Kind' = kind
      /\ user = "idle" /\ UNCHANGED <<timers, cookie, commands, sys, accepted, abandoned>>
  BY CallAsks DEF Call, UserUnchanged, timerVars
<1>2. CASE activity # "NONE" /\ UNCHANGED <<activity, user>>
  BY <1>1, <1>2 DEF WaitingInv
<1>3. CASE /\ activity = "NONE" /\ user' = "send"
           /\ activity' = IF kind = "start" THEN "SEND_COMMAND" ELSE activity
  <2>1. accepted = NoMessage
    BY <1>3 DEF WaitingInv, Expected
  <2> QED BY <1>1, <1>3, <2>1 DEF WaitingInv, Transfers
<1> QED BY <1>2, <1>3 DEF Call

\* A message is handled in the activity that it was accepted for.
LEMMA Accepted ==
  ASSUME WaitingInv, NEW type \in DOMAIN Expected, Handle(type)
  PROVE  /\ activity = Expected[type] /\ user = "idle" /\ sys = "idle"
         /\ accepted' = NoMessage
BY DEF WaitingInv, Handle, NoMessage, Message, Expected, Transfers

\* The same for each message, with the values.
LEMMA HandledIn ==
  ASSUME WaitingInv
  PROVE  /\ Handle("REQUEST_INT") \/ Handle("ACK")
              => activity = "SET_MISSION" /\ user = "idle" /\ sys = "idle" /\ accepted' = NoMessage
         /\ Handle("COUNT") \/ Handle("ITEM")
              => activity = "GET_MISSION" /\ user = "idle" /\ sys = "idle" /\ accepted' = NoMessage
         /\ Handle("CURRENT")
              => activity = "SET_CURRENT" /\ user = "idle" /\ sys = "idle" /\ accepted' = NoMessage
BY Accepted DEF Expected

\* The receive thread: what ends a transfer takes its timer with it.
LEMMA WaitingRecv == ASSUME timely, WaitingInv, ReceiveThread PROVE WaitingInv'
<1> DEFINE Rest == UNCHANGED <<user, sys, commands, requests>>
<1>0. Rest
  BY DEF ReceiveThread, Receive, ReceiveRequest, UploadItem, MissionAccepted,
     MissionRefused, CurrentSet, CountReceived, ItemUnexpected, ItemReceived,
     LastItemReceived, RecvUnchanged
<1>1. CASE Receive
  <2>1. /\ user \notin {"activity", "callback"}
        /\ sys = "idle" /\ UNCHANGED <<activity, timers, cookie, abandoned>>
    BY <1>1 DEF Receive, Prompt, timerVars
  <2> DEFINE m == Head(toPlugin)
  <2>2. /\ m.type \in DOMAIN Expected
        /\ accepted' = IF activity = Expected[m.type] THEN m ELSE NoMessage
    BY <1>1 DEF Receive
  <2>3. accepted' # NoMessage =>
           activity = Expected[accepted'.type] /\ accepted'.type \in DOMAIN Expected
    BY <2>2
  <2>4. accepted' # NoMessage => user # "send"
    BY <2>3 DEF WaitingInv, Expected
  <2> HIDE DEF m
  <2> QED BY <1>0, <2>1, <2>3, <2>4 DEF WaitingInv, Kind, Request
<1>2. CASE ReceiveRequest
  BY <1>0, <1>2 DEF ReceiveRequest, WaitingInv, timerVars, Kind, Request
<1>3. CASE UploadItem \/ ItemUnexpected \/ ItemReceived
  BY <1>0, <1>3 DEF UploadItem, ItemUnexpected, ItemReceived, Handle, WaitingInv,
     timerVars, Kind, Request
<1>4. CASE MissionAccepted \/ CurrentSet
  <2>1. /\ user = "idle" /\ sys = "idle" /\ accepted' = NoMessage /\ activity' = "NONE"
        /\ activity # "SEND_COMMAND" /\ Unregister
    BY <1>4, HandledIn DEF MissionAccepted, CurrentSet
  <2> QED BY <1>0, <2>1 DEF WaitingInv, Unregister, Kind, Request, Transfers
<1>5. CASE MissionRefused
  <2>1. /\ user = "idle" /\ sys = "idle" /\ accepted' = NoMessage
        /\ activity = "SET_MISSION"
        /\ abandoned' # "no" /\ Unregister /\ UNCHANGED activity
    BY <1>5, HandledIn DEF MissionRefused
  <2> QED BY <1>0, <2>1 DEF WaitingInv, Unregister, Kind, Request, Transfers
<1>6. ASSUME NEW first \in BOOLEAN, LastItemReceived(first) PROVE WaitingInv'
  <2>1. /\ user = "idle" /\ sys = "idle" /\ accepted' = NoMessage
        /\ activity = "GET_MISSION" /\ Unregister
        /\ activity' = "NONE" \/ (abandoned' # "no" /\ UNCHANGED activity)
    BY <1>6, HandledIn DEF LastItemReceived
  <2> QED BY <1>0, <2>1 DEF WaitingInv, Unregister, Kind, Request, Transfers
<1>7. CASE CountReceived
  <2>1. /\ user = "idle" /\ sys = "idle" /\ accepted' = NoMessage
        /\ activity = "GET_MISSION"
        /\ UNCHANGED <<activity, abandoned>>
        /\ timers' = (timers \ {cookie}) \cup {cookie'}
    BY <1>7, HandledIn DEF CountReceived
  <2> QED BY <1>0, <2>1 DEF WaitingInv, Kind, Request, Transfers
<1> QED BY <1>1, <1>2, <1>3, <1>4, <1>5, <1>6, <1>7 DEF ReceiveThread

\* The system thread: a timer that ran out ends the transfer or is renewed.
LEMMA WaitingSys == ASSUME timely, WaitingInv, SystemThread \/ Disable PROVE WaitingInv'
<1> USE DEF WaitingInv, Transfers, SysUnchanged, timerVars, Prompt, Kind, Request,
         Unregister, Register
<1>1. CASE FireTimer
  <2>1. /\ sys = "idle" /\ sys' = "timeout"
        /\ accepted = NoMessage
        /\ UNCHANGED <<activity, user, accepted, commands, abandoned, requests>>
    BY <1>1 DEF FireTimer
  <2>2. PICK t \in timers: timers' = timers \ {t}
    BY <1>1 DEF FireTimer
  <2>3. user = "idle" /\ activity \in Transfers /\ timers' = {} /\ UNCHANGED cookie
    BY <1>1, <2>1, <2>2 DEF FireTimer
  <2> QED BY <2>1, <2>3
<1>2. CASE UploadTimedOut
  BY <1>2 DEF UploadTimedOut
<1>3. CASE DownloadTimedOut
  BY <1>3 DEF DownloadTimedOut
<1>4. CASE UnknownTimeout
  BY <1>4 DEF UnknownTimeout
<1>5. CASE RetryDownload
  BY <1>5 DEF RetryDownload
<1>6. CASE GiveUpDownload
  BY <1>6 DEF GiveUpDownload
<1>7. CASE Disable
  BY <1>7 DEF Disable
<1> QED BY <1>1, <1>2, <1>3, <1>4, <1>5, <1>6, <1>7 DEF SystemThread

\* Every step with a timely vehicle.
LEMMA WaitingStep == ASSUME timely, RequestsOK, WaitingInv, TransferNext PROVE WaitingInv'
<1>1. ASSUME NEW r \in commands, NEW ok \in BOOLEAN, ReceiveCommandResult(r, ok)
      PROVE  WaitingInv'
  <2>1. /\ UNCHANGED <<user, accepted, sys, requests, abandoned>>
        /\ activity = "SEND_COMMAND" => activity' = "NONE"
        /\ commands' \subseteq commands /\ commands # {} /\ timers' \subseteq timers
        /\ cookie' = cookie
        /\ commands' = commands \ {r}
    BY <1>1 DEF ReceiveCommandResult, Unregister
  <2>2. /\ activity = "SEND_COMMAND" /\ activity' = "NONE"
        /\ user # "send" /\ user # "activity"
    BY <2>1 DEF WaitingInv
  <2>3. user = "idle" /\ timers = {} /\ accepted = NoMessage /\ sys = "idle"
    BY <2>2, KindIs DEF WaitingInv, ActivityOf, Kinds, Expected, Transfers
  <2>4. commands' = {}
    BY <2>1 DEF WaitingInv
  <2> QED BY <2>1, <2>2, <2>3, <2>4 DEF WaitingInv, Transfers
<1>2. CASE Delivery \/ VehicleRepeats \/ FallsSilent \/ Lose
  BY <1>2, VehicleDoes DEF PluginUnchanged, timerVars, historyVars, WaitingInv, Kind, Request
<1> QED BY <1>1, <1>2, WaitingCall, WaitingUser, WaitingRecv, WaitingSys DEF TransferNext

LEMMA WaitingStart == TransferInit => WaitingInv
BY DEF TransferInit, WaitingInv, Transfers

LEMMA WaitingStutter == ASSUME WaitingInv, UNCHANGED vars PROVE WaitingInv'
BY DEF WaitingInv, vars, Kind, Request

LEMMA WaitingIsTidy == ASSUME WaitingInv, RequestsOK PROVE TimerMatchesTransfer
BY DEF WaitingInv, TimerMatchesTransfer, Transfers

\* With a timely vehicle a transfer that waits has a timer unless it was abandoned, and
\* one that is over has left none: mission_impl.cpp arms and cancels the one timer in
\* three threads.
THEOREM TimersMatchTransfers == TransferSpec => []TimerMatchesTransfer
<1>1. TransferInit => RequestsOK /\ (timely => WaitingInv)
  BY RequestsStart, WaitingStart
<1>2. RequestsOK /\ (timely => WaitingInv) /\ [TransferNext]_vars
        => (RequestsOK /\ (timely => WaitingInv))'
  <2>1. ASSUME RequestsOK, timely => WaitingInv, TransferNext
        PROVE  (RequestsOK /\ (timely => WaitingInv))'
    BY <2>1, RequestsStep, TimelyStays, WaitingStep
  <2>2. ASSUME RequestsOK, timely => WaitingInv, UNCHANGED vars
        PROVE  (RequestsOK /\ (timely => WaitingInv))'
    <3>1. UNCHANGED <<timely, requests, user>>
      BY <2>2 DEF vars
    <3> QED
      BY <2>2, <3>1, WaitingStutter DEF RequestsOK
  <2> QED
    BY <2>1, <2>2
<1>3. RequestsOK /\ (timely => WaitingInv) => TimerMatchesTransfer
  <2>1. ~timely => TimerMatchesTransfer
    BY DEF TimerMatchesTransfer
  <2> QED
    BY <2>1, WaitingIsTidy
<1> QED
  BY <1>1, <1>2, <1>3, PTL DEF TransferSpec

-----------------------------------------------------------------------------
(* Missions under transfer: answers                                        *)

\* A queue of messages; whether it holds one of a type, and no second one.
Queue(q) == \E S : q \in Seq(S)
Holds(q, type) == \E i \in 1 .. Len(q) : q[i].type = type
AtMostOne(q, type) == \A i, j \in 1 .. Len(q) : q[i].type = type /\ q[j].type = type => i = j

LEMMA EmptyQueue == Queue(<<>>) /\ \A type : ~Holds(<<>>, type) /\ AtMostOne(<<>>, type)
<1>1. <<>> \in Seq({}) /\ Len(<<>>) = 0
  OBVIOUS
<1> QED
  BY <1>1 DEF Queue, Holds, AtMostOne

\* One more message is the only new one.
LEMMA Appended ==
  ASSUME NEW q, Queue(q), NEW m, NEW type
  PROVE  /\ Queue(Append(q, m))
         /\ Holds(Append(q, m), type) => Holds(q, type) \/ m.type = type
         /\ AtMostOne(q, type) /\ ~(Holds(q, type) /\ m.type = type)
              => AtMostOne(Append(q, m), type)
<1> PICK S : q \in Seq(S)
  BY DEF Queue
<1> DEFINE p == Append(q, m)
<1>1. q \in Seq(S \cup {m}) /\ m \in S \cup {m}
  BY SeqDef
<1>2. p \in Seq(S \cup {m})
  BY <1>1, AppendProperties
<1>3. /\ Len(q) \in Nat /\ Len(p) = Len(q) + 1
      /\ \A i \in 1 .. Len(q) : p[i] = q[i]
      /\ p[Len(q) + 1] = m
  BY <1>1, AppendProperties, LenProperties
<1> HIDE DEF p
<1>4. \A i \in 1 .. Len(p) : i \in 1 .. Len(q) \/ i = Len(q) + 1
  BY <1>3
<1>5. Holds(p, type) => Holds(q, type) \/ m.type = type
  BY <1>3, <1>4 DEF Holds
<1>6. ASSUME AtMostOne(q, type), ~(Holds(q, type) /\ m.type = type)
      PROVE  AtMostOne(p, type)
  <2> SUFFICES ASSUME NEW i \in 1 .. Len(p), NEW j \in 1 .. Len(p),
                      p[i].type = type, p[j].type = type
               PROVE  i = j
    BY DEF AtMostOne
  <2>1. CASE i \in 1 .. Len(q) /\ j \in 1 .. Len(q)
    BY <1>3, <1>6, <2>1 DEF AtMostOne
  <2>2. CASE i \in 1 .. Len(q) /\ j = Len(q) + 1
    BY <1>3, <1>6, <2>2 DEF Holds
  <2>3. CASE j \in 1 .. Len(q) /\ i = Len(q) + 1
    BY <1>3, <1>6, <2>3 DEF Holds
  <2> QED
    BY <1>4, <2>1, <2>2, <2>3
<1> QED
  BY <1>2, <1>5, <1>6 DEF Queue, p

\* The rest of a queue holds nothing new, and not the one message that was first.
LEMMA Tailed ==
  ASSUME NEW q, Queue(q), q # <<>>, NEW type
  PROVE  /\ Queue(Tail(q))
         /\ Holds(Tail(q), type) => Holds(q, type)
         /\ AtMostOne(q, type) => AtMostOne(Tail(q), type)
         /\ Head(q).type = type => Holds(q, type)
         /\ Head(q).type = type /\ AtMostOne(q, type) => ~Holds(Tail(q), type)
<1> PICK S : q \in Seq(S)
  BY DEF Queue
<1> DEFINE p == Tail(q)
<1>1. /\ p \in Seq(S) /\ Len(p) = Len(q) - 1 /\ Len(q) \in Nat /\ Len(q) > 0
      /\ Head(q) = q[1]
      /\ \A i \in 1 .. Len(p) : p[i] = q[i + 1]
  BY HeadTailProperties, LenProperties, EmptySeq
<1> HIDE DEF p
<1>2. \A i \in 1 .. Len(p) : i + 1 \in 1 .. Len(q) /\ i + 1 # 1
  BY <1>1
<1>3. 1 \in 1 .. Len(q)
  BY <1>1
<1>4. Holds(p, type) => Holds(q, type)
  BY <1>1, <1>2 DEF Holds
<1>5. AtMostOne(q, type) => AtMostOne(p, type)
  <2> SUFFICES ASSUME AtMostOne(q, type), NEW i \in 1 .. Len(p), NEW j \in 1 .. Len(p),
                      p[i].type = type, p[j].type = type
               PROVE  i = j
    BY DEF AtMostOne
  <2>1. i + 1 = j + 1
    BY <1>1, <1>2 DEF AtMostOne
  <2> QED
    BY <2>1
<1>6. Head(q).type = type => Holds(q, type)
  BY <1>1, <1>3 DEF Holds
<1>7. Head(q).type = type /\ AtMostOne(q, type) => ~Holds(p, type)
  BY <1>1, <1>2, <1>3 DEF Holds, AtMostOne
<1> QED
  BY <1>1, <1>4, <1>5, <1>6, <1>7 DEF Queue, p

QueuesOK == Queue(toVehicle) /\ Queue(toPlugin)

\* What a step does to a queue.
QueueMoved(q, qq) ==
  \/ qq = q \/ qq = <<>>
  \/ q # <<>> /\ qq = Tail(q)
  \/ \E m : qq = Append(q, m)

LEMMA QueueMoves == ASSUME NEW q, NEW qq, Queue(q), QueueMoved(q, qq) PROVE Queue(qq)
<1>1. \A m : Queue(Append(q, m))
  BY Appended
<1>2. q # <<>> => Queue(Tail(q))
  BY Tailed
<1> QED
  BY <1>1, <1>2, EmptyQueue DEF QueueMoved

\* The links stay queues.
LEMMA QueuesStep ==
  ASSUME QueuesOK, TransferNext
  PROVE  QueuesOK'
<1> SUFFICES QueueMoved(toVehicle, toVehicle') /\ QueueMoved(toPlugin, toPlugin')
  BY QueueMoves DEF QueuesOK
<1> USE DEF QueueMoved
<1>1. ASSUME NEW kind \in Kinds, Call(kind)
      PROVE  QueueMoved(toVehicle, toVehicle') /\ QueueMoved(toPlugin, toPlugin')
  BY <1>1 DEF Call, UserUnchanged
<1>2. CASE UserThread
  BY <1>2 DEF UserThread, SendCount, SendRequestList, SendSetCurrent, SendCommand, SendFails,
     SetActivity, SetCallback, UserUnchanged, Send, linkVars
<1>3. CASE ReceiveThread
  BY <1>3 DEF ReceiveThread, Receive, ReceiveRequest, UploadItem, MissionAccepted,
     MissionRefused, CurrentSet, CountReceived, ItemUnexpected, ItemReceived, LastItemReceived,
     Handle, Send
<1>4. CASE SystemThread \/ Disable
  BY <1>4 DEF SystemThread, FireTimer, UploadTimedOut, DownloadTimedOut, UnknownTimeout,
     RetryDownload, GiveUpDownload, Disable, SysUnchanged, Send
<1>5. ASSUME NEW r \in commands, NEW ok \in BOOLEAN, ReceiveCommandResult(r, ok)
      PROVE  QueueMoved(toVehicle, toVehicle') /\ QueueMoved(toPlugin, toPlugin')
  BY <1>5 DEF ReceiveCommandResult, linkVars
<1>6. CASE VehicleCount \/ VehicleItem \/ VehicleNack \/ VehicleList
  BY <1>6 DEF VehicleCount, VehicleItem, VehicleNack, VehicleList, VehicleReceives, Reply,
     AskFor
<1>7. CASE VehicleSendsItem \/ VehicleAck \/ VehicleSetCurrent \/ Unheard
  BY <1>7 DEF VehicleSendsItem, VehicleAck, VehicleSetCurrent, Unheard, VehicleReceives, Reply
<1>8. CASE VehicleRepeats \/ FallsSilent \/ Lose
  BY <1>8 DEF VehicleRepeats, FallsSilent, Lose, Reply, AskFor, linkVars
<1> QED
  BY <1>1, <1>2, <1>3, <1>4, <1>5, <1>6, <1>7, <1>8 DEF TransferNext, Delivery

\* A request that nothing was done for yet.
Untouched ==
  /\ accepted = NoMessage /\ sys # "retry" /\ commands = {} /\ answers = <<>>
  /\ resultCb = 0 /\ itemsCb = 0
  /\ toVehicle = <<>> /\ toPlugin = <<>> /\ vehicle.state \in {"IDLE", "SILENT"}

\* What there is once of an upload: its COUNT, the vehicle that takes the mission, its
\* ACK, the ACK accepted, and the answer, each when those before it are gone.
Unique ==
  /\ AtMostOne(toVehicle, "COUNT") /\ AtMostOne(toPlugin, "ACK")
  /\ Holds(toVehicle, "COUNT") => vehicle.state # "GETLIST"
  /\ Holds(toVehicle, "COUNT") \/ vehicle.state = "GETLIST" => ~Holds(toPlugin, "ACK")
  /\ Holds(toVehicle, "COUNT") \/ vehicle.state = "GETLIST" \/ Holds(toPlugin, "ACK")
       => accepted.type # "ACK"
  /\ Holds(toVehicle, "COUNT") \/ vehicle.state = "GETLIST" \/ Holds(toPlugin, "ACK")
       \/ accepted.type = "ACK" => answers = <<>>

\* Nobody is answered before the operation has recorded its callback.
Calling ==
  /\ user \in {"idle", "send", "activity", "callback"}
  /\ user = "send"
       => Untouched /\ activity = (IF Kind = "start" THEN "SEND_COMMAND" ELSE "NONE")
  /\ user = "activity" => activity = "NONE" /\ accepted = NoMessage
  /\ user \in {"activity", "callback"} =>
       Kind # "start" /\ answers = <<>> /\ resultCb = 0 /\ itemsCb = 0 /\ commands = {}

\* Who can still answer the request: its own activity, command and callback, and only
\* an upload lets its activity outlast the answer.
Answering ==
  /\ answers = <<>> \/ Len(answers) = 1
  /\ activity \in {"NONE", ActivityOf[Kind]}
  /\ sys = "retry" => Kind = "download"
  /\ accepted # NoMessage =>
       accepted.type \in DOMAIN Expected /\ Expected[accepted.type] = ActivityOf[Kind]
  /\ commands # {} => commands = {1} /\ Kind = "start" /\ answers = <<>> /\ user = "idle"
  /\ resultCb \in {0, 1} /\ (resultCb = 1 => Kind \in {"upload", "set_current"})
  /\ itemsCb \in {0, 1} /\ (itemsCb = 1 => Kind = "download")
  /\ Kind \in {"set_current", "download"} /\ answers # <<>> =>
       activity = "NONE" /\ accepted = NoMessage /\ user = "idle"

OnceInv ==
  /\ requests = <<>> => Untouched /\ activity = "NONE" /\ user = "idle"
  /\ Len(requests) = 1 => Calling /\ Answering /\ (Kind = "upload" => Unique)

\* Nothing was called.
LEMMA OnceStart == TransferInit => OnceInv /\ QueuesOK
BY EmptyQueue DEF TransferInit, OnceInv, QueuesOK, Untouched, Quiet

\* Nothing happens before the first request.
LEMMA BeforeRequests ==
  ASSUME RequestsOK, OnceInv, TransferNext, requests = <<>>, requests' = <<>>
  PROVE  OnceInv'
<1>0. Untouched /\ activity = "NONE" /\ user = "idle" /\ Len(requests') = 0
  BY DEF OnceInv
<1>1. ASSUME NEW kind \in Kinds, Call(kind) PROVE FALSE
  BY <1>1, AppendProperties DEF Call, RequestsOK
<1>2. ~UserThread
  BY <1>0 DEF UserThread, SendCount, SendRequestList, SendSetCurrent, SendCommand, SendFails,
     SetActivity, SetCallback, Sending
<1>3. ~ReceiveThread
  BY <1>0 DEF ReceiveThread, Receive, ReceiveRequest, UploadItem, MissionAccepted,
     MissionRefused, CurrentSet, CountReceived, ItemUnexpected, ItemReceived, LastItemReceived,
     Handle, Untouched, NoMessage, Message
<1>4. CASE SystemThread \/ Disable
  <2>1. FireTimer \/ UnknownTimeout
    BY <1>0, <1>4 DEF SystemThread, UploadTimedOut, DownloadTimedOut, RetryDownload,
       GiveUpDownload, Disable, Untouched, Transfers
  <2> QED
    BY <1>0, <2>1 DEF FireTimer, UnknownTimeout, SysUnchanged, cbVars, vehicleVars,
       OnceInv, Untouched
<1>5. ~(\E r \in commands, ok \in BOOLEAN: ReceiveCommandResult(r, ok))
  BY <1>0 DEF Untouched
<1>6. ~Delivery /\ ~VehicleRepeats /\ ~Lose
  BY <1>0 DEF Delivery, VehicleCount, VehicleItem, VehicleNack, VehicleList, VehicleSendsItem,
     VehicleAck, VehicleSetCurrent, VehicleReceives, Unheard, VehicleRepeats, Lose, Untouched
<1>7. CASE FallsSilent
  BY <1>0, <1>7 DEF FallsSilent, PluginUnchanged, Quiet, linkVars, cbVars, historyVars,
     OnceInv, Untouched
<1> QED
  BY <1>1, <1>2, <1>3, <1>4, <1>5, <1>6, <1>7 DEF TransferNext

\* The first call starts the request, and the second ends what is claimed.
LEMMA FirstCall ==
  ASSUME RequestsOK, OnceInv, NEW kind \in Kinds, Call(kind)
  PROVE  OnceInv'
<1>1. requests' = Append(requests, kind) /\ requests \in Seq(Kinds)
  BY DEF Call, RequestsOK
<1>2. Len(requests') = Len(requests) + 1 /\ Len(requests) \in Nat
  BY <1>1, AppendProperties, LenProperties
<1>3. CASE requests = <<>>
  <2>1. /\ Untouched /\ activity = "NONE" /\ Len(requests') = 1 /\ requests' # <<>>
        /\ Kind' = kind
    BY <1>1, <1>2, <1>3, AppendProperties DEF OnceInv, Kind, Request
  <2>2. /\ user' = "send" /\ UNCHANGED answers
        /\ activity' = IF kind = "start" THEN "SEND_COMMAND" ELSE activity
    BY <2>1 DEF Call
  <2>3. Untouched'
    BY <2>1, <2>2 DEF Call, UserUnchanged, Untouched, cbVars, vehicleVars
  <2>4. Calling' /\ Answering'
    BY <2>1, <2>2, <2>3 DEF Calling, Answering, Untouched, ActivityOf, Kinds
  <2>5. Unique'
    <3>1. NoMessage.type # "ACK"
      BY DEF NoMessage, Message
    <3> QED
      BY <2>3, <3>1, EmptyQueue DEF Unique, Untouched
  <2> QED
    BY <2>1, <2>4, <2>5 DEF OnceInv
<1>4. CASE requests # <<>>
  <2>1. Len(requests) # 0
    BY <1>1, <1>4, EmptySeq
  <2>2. Len(requests') # 1 /\ Len(requests') # 0
    BY <1>2, <2>1
  <2> QED
    BY <2>2 DEF OnceInv
<1> QED
  BY <1>3, <1>4

OneRequest == Calling /\ Answering /\ (Kind = "upload" => Unique)
SingleRequest == RequestsOK /\ QueuesOK /\ OneRequest /\ Len(requests) = 1

\* The one request keeps its kind.
LEMMA SingleKind ==
  ASSUME SingleRequest, UNCHANGED requests
  PROVE  Request = 1 /\ Kind \in Kinds /\ Kind' = Kind
<1>1. Kind' = Kind /\ Request = 1
  BY DEF SingleRequest, Kind, Request
<1>2. Kind \in Kinds
  BY <1>1 DEF SingleRequest, RequestsOK, Kind
<1> QED
  BY <1>1, <1>2

\* The link: no second COUNT is sent, and no second ACK.
LEMMA Sent ==
  ASSUME QueuesOK, AtMostOne(toVehicle, "COUNT"), NEW type, type # "COUNT", NEW arg, Send(type, arg)
  PROVE  /\ AtMostOne(toVehicle, "COUNT")'
         /\ Holds(toVehicle, "COUNT")' => Holds(toVehicle, "COUNT")
<1>1. /\ toVehicle' = Append(toVehicle, Message(type, arg))
      /\ Message(type, arg).type # "COUNT"
  BY DEF Send, Message
<1> QED
  BY <1>1, Appended DEF QueuesOK

\* The same for the vehicle.
LEMMA Replied ==
  ASSUME QueuesOK, AtMostOne(toPlugin, "ACK"), NEW type, type # "ACK", NEW arg, Reply(type, arg)
  PROVE  /\ AtMostOne(toPlugin, "ACK")'
         /\ Holds(toPlugin, "ACK")' => Holds(toPlugin, "ACK")
<1>1. toPlugin' = Append(toPlugin, Message(type, arg)) /\ Message(type, arg).type # "ACK"
  BY DEF Reply, Message
<1> QED
  BY <1>1, Appended DEF QueuesOK

\* A step that adds none of these, and answers no more than an accepted ACK lets it.
LEMMA UniqueKept ==
  ASSUME Unique,
         AtMostOne(toVehicle, "COUNT")', Holds(toVehicle, "COUNT")' => Holds(toVehicle, "COUNT"),
         AtMostOne(toPlugin, "ACK")', Holds(toPlugin, "ACK")' => Holds(toPlugin, "ACK"),
         vehicle'.state = "GETLIST" => vehicle.state = "GETLIST",
         accepted'.type = "ACK" => accepted.type = "ACK",
         answers' = answers \/ (accepted.type = "ACK" /\ accepted'.type # "ACK")
  PROVE  Unique'
BY DEF Unique

\* A step of the user thread.
LEMMA UserOnce ==
  ASSUME SingleRequest, UserThread
  PROVE  OneRequest'
<1>0. UNCHANGED requests
  BY DEF UserThread, SendCount, SendRequestList, SendSetCurrent, SendCommand, SendFails,
     SetActivity, SetCallback, historyVars
<1>1. /\ Request = 1 /\ Kind \in Kinds /\ Kind' = Kind /\ QueuesOK
      /\ Calling /\ Answering /\ (Kind = "upload" => Unique)
  BY <1>0, SingleKind DEF SingleRequest, OneRequest
<1>2. UNCHANGED <<accepted, sys, vehicle, toPlugin>>
  BY DEF UserThread, SendCount, SendRequestList, SendSetCurrent, SendCommand, SendFails,
     SetActivity, SetCallback, UserUnchanged, vehicleVars, linkVars
<1>3. NoMessage.type # "ACK"
  BY DEF NoMessage, Message
<1>4. ASSUME NEW n \in 1 .. MaxSize, SendCount(n) PROVE OneRequest'
  <2>1. /\ user = "send" /\ Kind = "upload" /\ user' = "activity" /\ Untouched
        /\ activity = "NONE"
        /\ UNCHANGED <<activity, resultCb, itemsCb, commands, answers>>
        /\ Send("COUNT", n)
    BY <1>1, <1>4 DEF SendCount, Sending, Kind, Calling, cbVars, historyVars
  <2>2. Calling' /\ Answering'
    BY <1>1, <1>2, <2>1 DEF Calling, Answering, Untouched
  <2>3. AtMostOne(toVehicle, "COUNT")'
    BY <1>1, <2>1, EmptyQueue, Appended DEF Send, Untouched, QueuesOK
  <2>4. Unique'
    BY <1>2, <1>3, <2>1, <2>3, EmptyQueue DEF Unique, Untouched
  <2> QED
    BY <2>2, <2>4 DEF OneRequest
<1>5. CASE SendRequestList \/ SendSetCurrent
  <2>1. /\ user = "send" /\ Kind \in {"download", "set_current"} /\ user' = "activity"
        /\ Untouched
        /\ activity = "NONE"
        /\ UNCHANGED <<activity, resultCb, itemsCb, commands, answers>>
    BY <1>1, <1>5 DEF SendRequestList, SendSetCurrent, Sending, Kind, Calling, cbVars,
       historyVars
  <2>2. Calling' /\ Answering'
    BY <1>1, <1>2, <2>1 DEF Calling, Answering, Untouched
  <2> QED
    BY <1>1, <2>1, <2>2 DEF OneRequest
<1>6. CASE SendCommand
  <2>1. /\ user = "send" /\ Kind = "start" /\ user' = "idle" /\ Untouched
        /\ commands' = {1}
        /\ UNCHANGED <<activity, resultCb, itemsCb, answers>>
    BY <1>1, <1>6 DEF SendCommand, Sending, Kind, Calling, cbVars, historyVars, Untouched
  <2>2. Calling' /\ Answering'
    BY <1>1, <1>2, <2>1 DEF Calling, Answering, Untouched
  <2> QED
    BY <1>1, <2>1, <2>2 DEF OneRequest
<1>7. CASE SendFails
  <2>1. /\ user = "send" /\ Kind # "start" /\ user' = "idle" /\ Untouched
        /\ activity = "NONE"
        /\ answers' = Append(<<>>, [req |-> 1, result |-> "ERROR", items |-> <<>>])
        /\ UNCHANGED <<activity, resultCb, itemsCb, commands, toVehicle>>
    BY <1>1, <1>7 DEF SendFails, Answer, Kind, Calling, cbVars, Untouched
  <2>2. answers' # <<>> /\ Len(answers') = 1
    BY <2>1, AppendProperties
  <2>3. Calling' /\ Answering'
    BY <1>1, <1>2, <2>1, <2>2 DEF Calling, Answering, Untouched
  <2>4. Unique'
    BY <1>2, <1>3, <2>1, EmptyQueue DEF Unique, Untouched
  <2> QED
    BY <2>3, <2>4 DEF OneRequest
<1>8. CASE SetActivity
  <2>1. /\ user = "activity" /\ user' = "callback" /\ activity' = ActivityOf[Kind]
        /\ UNCHANGED <<resultCb, itemsCb, commands, answers, toVehicle>>
    BY <1>8 DEF SetActivity, Kind, cbVars, historyVars
  <2>2. Calling' /\ Answering'
    BY <1>1, <1>2, <2>1 DEF Calling, Answering
  <2>3. Unique => Unique'
    BY <1>2, <2>1 DEF Unique
  <2> QED
    BY <1>1, <2>2, <2>3 DEF OneRequest
<1>9. CASE SetCallback
  <2>1. /\ user = "callback" /\ user' = "idle"
        /\ IF Kind = "download" THEN itemsCb' = 1 /\ UNCHANGED resultCb
                                ELSE resultCb' = 1 /\ UNCHANGED itemsCb
        /\ UNCHANGED <<activity, commands, answers, toVehicle>>
    BY <1>1, <1>9 DEF SetCallback, Kind, historyVars, linkVars
  <2>2. Calling' /\ Answering'
    BY <1>1, <1>2, <2>1 DEF Calling, Answering, Kinds
  <2>3. Unique => Unique'
    BY <1>2, <2>1 DEF Unique
  <2> QED
    BY <1>1, <2>2, <2>3 DEF OneRequest
<1> QED
  BY <1>4, <1>5, <1>6, <1>7, <1>8, <1>9 DEF UserThread

\* One answer, or none if there is no callback.
LEMMA FirstAnswer ==
  ASSUME answers = <<>>, NEW r, NEW result, NEW got, Answer(r, result, got)
  PROVE  /\ answers' = <<>> \/ Len(answers') = 1
         /\ r = 0 => answers' = <<>>
BY AppendProperties DEF Answer

\* A message that was accepted is about the request.
LEMMA HandledKind ==
  ASSUME SingleRequest
  PROVE  /\ NoMessage.type \notin DOMAIN Expected
         /\ accepted # NoMessage => user # "send" /\ user # "activity"
         /\ Handle("REQUEST_INT") \/ Handle("ACK")
              => accepted # NoMessage /\ Kind = "upload" /\ accepted' = NoMessage
         /\ Handle("COUNT") \/ Handle("ITEM")
              => accepted # NoMessage /\ Kind = "download" /\ accepted' = NoMessage
         /\ Handle("CURRENT")
              => accepted # NoMessage /\ Kind = "set_current" /\ accepted' = NoMessage
<1>1. NoMessage.type \notin DOMAIN Expected
  BY DEF NoMessage, Message, Expected
<1>2. accepted # NoMessage => user # "send" /\ user # "activity"
  BY DEF SingleRequest, OneRequest, Calling, Untouched
<1>3. Kind \in Kinds
  BY DEF SingleRequest, RequestsOK, Kind, Request
<1>4. accepted # NoMessage => Expected[accepted.type] = ActivityOf[Kind]
  BY DEF SingleRequest, OneRequest, Answering
<1> QED
  BY <1>1, <1>2, <1>3, <1>4 DEF Handle, Expected, ActivityOf, Kinds

\* A step of the receive thread: whom it answers is not answered yet, and it leaves
\* nothing behind that could answer again.
LEMMA ReceiveOnce ==
  ASSUME SingleRequest, ReceiveThread
  PROVE  OneRequest'
<1>0. UNCHANGED <<requests, user, sys, commands, vehicle, resultCb, itemsCb>>
  BY DEF ReceiveThread, Receive, ReceiveRequest, UploadItem, MissionAccepted, MissionRefused,
     CurrentSet, CountReceived, ItemUnexpected, ItemReceived, LastItemReceived, RecvUnchanged,
     cbVars, vehicleVars
<1>1. /\ Request = 1 /\ Kind \in Kinds /\ Kind' = Kind /\ QueuesOK
      /\ Calling /\ Answering /\ (Kind = "upload" => Unique)
      /\ NoMessage.type # "ACK"
  BY <1>0, SingleKind, HandledKind DEF SingleRequest, OneRequest, Expected
<1>2. CASE Receive
  <2> DEFINE m == Head(toPlugin)
  <2>1. /\ accepted = NoMessage /\ toPlugin # <<>> /\ m.type \in DOMAIN Expected
        /\ toPlugin' = Tail(toPlugin)
        /\ accepted' = IF activity = Expected[m.type] THEN m ELSE NoMessage
        /\ UNCHANGED <<activity, answers, toVehicle>>
    BY <1>2 DEF Receive
  <2>2. user # "send"
    BY <1>1, <2>1 DEF Calling, Untouched
  <2>3. accepted' # NoMessage => /\ activity = Expected[accepted'.type] /\ accepted' = m
                                 /\ accepted'.type \in DOMAIN Expected /\ activity # "NONE"
    BY <2>1 DEF Expected
  <2>4. Calling'
    BY <1>0, <1>1, <2>1, <2>2, <2>3 DEF Calling
  <2>5. Answering'
    BY <1>0, <1>1, <2>1, <2>3 DEF Answering
  <2>6. ASSUME Unique PROVE Unique'
    <3>1. /\ Holds(toPlugin, "ACK")' => Holds(toPlugin, "ACK")
          /\ AtMostOne(toPlugin, "ACK")'
          /\ m.type = "ACK" => Holds(toPlugin, "ACK") /\ ~Holds(toPlugin, "ACK")'
      BY <1>1, <2>1, <2>6, Tailed DEF QueuesOK, Unique
    <3>2. CASE accepted'.type = "ACK"
      BY <1>0, <1>1, <2>1, <2>3, <2>6, <3>1, <3>2 DEF Unique
    <3>3. CASE accepted'.type # "ACK"
      BY <1>0, <2>1, <2>6, <3>1, <3>3 DEF Unique
    <3> QED
      BY <3>2, <3>3
  <2> QED
    BY <1>1, <2>4, <2>5, <2>6 DEF OneRequest
<1>3. CASE ReceiveRequest
  <2>1. /\ toPlugin # <<>> /\ toPlugin' = Tail(toPlugin) /\ Send("NACK", 0)
        /\ UNCHANGED <<activity, answers, accepted>>
    BY <1>3 DEF ReceiveRequest
  <2>2. user # "send"
    BY <1>1, <2>1 DEF Calling, Untouched
  <2>3. Calling' /\ Answering'
    BY <1>0, <1>1, <2>1, <2>2 DEF Calling, Answering
  <2>4. ASSUME Unique PROVE Unique'
    <3>1. /\ Holds(toPlugin, "ACK")' => Holds(toPlugin, "ACK")
          /\ AtMostOne(toPlugin, "ACK")'
      BY <1>1, <2>1, <2>4, Tailed DEF QueuesOK, Unique
    <3>2. AtMostOne(toVehicle, "COUNT")' /\ (Holds(toVehicle, "COUNT")' => Holds(toVehicle, "COUNT"))
      BY <1>1, <2>1, <2>4, Sent DEF Unique
    <3> QED
      BY <1>0, <2>1, <2>4, <3>1, <3>2, UniqueKept
  <2> QED
    BY <1>1, <2>3, <2>4 DEF OneRequest
<1>4. CASE UploadItem \/ CountReceived \/ ItemUnexpected \/ ItemReceived
  <2>1. /\ accepted # NoMessage /\ accepted' = NoMessage /\ user # "send"
        /\ user # "activity"
        /\ UNCHANGED <<activity, answers, toPlugin>>
    BY <1>4, HandledKind DEF UploadItem, CountReceived, ItemUnexpected, ItemReceived, Handle
  <2>2. UNCHANGED toVehicle \/ \E type, arg : type # "COUNT" /\ Send(type, arg)
    BY <1>4 DEF UploadItem, CountReceived, ItemUnexpected, ItemReceived
  <2>3. Calling' /\ Answering'
    BY <1>0, <1>1, <2>1 DEF Calling, Answering
  <2>4. ASSUME Unique PROVE Unique'
    <3>1. AtMostOne(toVehicle, "COUNT")' /\ (Holds(toVehicle, "COUNT")' => Holds(toVehicle, "COUNT"))
      BY <1>1, <2>2, <2>4, Sent DEF Unique
    <3>2. /\ Holds(toPlugin, "ACK")' => Holds(toPlugin, "ACK")
          /\ AtMostOne(toPlugin, "ACK")'
      BY <2>1, <2>4 DEF Unique
    <3> QED
      BY <1>0, <1>1, <2>1, <2>4, <3>1, <3>2, UniqueKept
  <2> QED
    BY <1>1, <2>3, <2>4 DEF OneRequest
<1>5. CASE MissionAccepted \/ MissionRefused
  <2>1. /\ accepted.type = "ACK" /\ accepted' = NoMessage /\ Kind = "upload"
        /\ user # "send" /\ user # "activity"
        /\ UNCHANGED <<toPlugin, toVehicle>>
        /\ activity' \in {"NONE", activity}
        /\ \E result: Answer(resultCb, result, <<>>)
    BY <1>5, HandledKind DEF MissionAccepted, MissionRefused, Handle
  <2>2. answers = <<>> /\ Unique
    BY <1>1, <2>1 DEF Unique
  <2>3. /\ answers' = <<>> \/ Len(answers') = 1
        /\ resultCb = 0 => answers' = <<>>
    BY <2>1, <2>2, FirstAnswer
  <2>4. Calling' /\ Answering'
    <3>1. Calling'
      BY <1>0, <1>1, <2>1, <2>3 DEF Calling
    <3>2. commands = {}
      BY <1>1, <2>1 DEF Answering
    <3>3. Answering'
      BY <1>0, <1>1, <2>1, <2>3, <3>2 DEF Answering
    <3> QED
      BY <3>1, <3>3
  <2>5. Unique'
    BY <1>0, <1>1, <2>1, <2>2 DEF Unique
  <2> QED
    BY <2>4, <2>5 DEF OneRequest
<1>6. CASE CurrentSet
  <2>1. /\ accepted # NoMessage /\ accepted' = NoMessage /\ Kind = "set_current"
        /\ activity' = "NONE"
        /\ user # "send" /\ user # "activity"
        /\ \E result: Answer(resultCb, result, <<>>)
    BY <1>6, HandledKind DEF CurrentSet
  <2>2. answers = <<>> /\ commands = {}
    BY <1>1, <2>1 DEF Answering
  <2>3. /\ answers' = <<>> \/ Len(answers') = 1
        /\ resultCb = 0 => answers' = <<>>
    BY <2>1, <2>2, FirstAnswer
  <2>4. Calling'
    BY <1>0, <1>1, <2>1, <2>3 DEF Calling
  <2>5. resultCb # 0 => user = "idle"
    BY <1>1, <2>1 DEF Calling
  <2>6. Answering'
    BY <1>0, <1>1, <2>1, <2>2, <2>3, <2>5 DEF Answering
  <2> QED
    BY <1>1, <2>1, <2>4, <2>6 DEF OneRequest
<1>7. ASSUME NEW first \in BOOLEAN, LastItemReceived(first) PROVE OneRequest'
  <2>1. /\ accepted # NoMessage /\ accepted' = NoMessage /\ Kind = "download"
        /\ user # "send" /\ user # "activity"
        /\ \/ activity' = "NONE" /\ \E result, got: Answer(itemsCb, result, got)
           \/ UNCHANGED <<activity, answers>>
    BY <1>7, HandledKind DEF LastItemReceived
  <2>2. answers = <<>> /\ commands = {}
    BY <1>1, <2>1 DEF Answering
  <2>3. /\ answers' = <<>> \/ Len(answers') = 1
        /\ itemsCb = 0 => answers' = <<>>
        /\ answers' # <<>> => activity' = "NONE"
    BY <2>1, <2>2, FirstAnswer
  <2>4. Calling'
    BY <1>0, <1>1, <2>1, <2>3 DEF Calling
  <2>5. itemsCb # 0 => user = "idle"
    BY <1>1, <2>1 DEF Calling
  <2>6. Answering'
    BY <1>0, <1>1, <2>1, <2>2, <2>3, <2>5 DEF Answering
  <2> QED
    BY <1>1, <2>1, <2>4, <2>6 DEF OneRequest
<1> QED
  BY <1>2, <1>3, <1>4, <1>5, <1>6, <1>7 DEF ReceiveThread

\* A step of the system thread: giving up a download finds no callback to tell.
LEMMA SystemOnce ==
  ASSUME SingleRequest, SystemThread \/ Disable
  PROVE  OneRequest'
<1>0. UNCHANGED <<requests, user, accepted, commands, vehicle, resultCb, itemsCb, toPlugin>>
  BY DEF SystemThread, FireTimer, UploadTimedOut, DownloadTimedOut, UnknownTimeout,
     RetryDownload, GiveUpDownload, Disable, SysUnchanged, cbVars, vehicleVars
<1>1. /\ Request = 1 /\ Kind \in Kinds /\ Kind' = Kind /\ QueuesOK
      /\ Calling /\ Answering /\ (Kind = "upload" => Unique)
  BY <1>0, SingleKind DEF SingleRequest, OneRequest
<1>2. CASE FireTimer \/ UploadTimedOut \/ DownloadTimedOut \/ UnknownTimeout \/ Disable
  <2>1. /\ activity' \in {"NONE", activity} /\ UNCHANGED <<answers, toVehicle>>
        /\ sys' = "retry" => sys = "retry" \/ activity = "GET_MISSION"
        /\ activity' = activity \/ activity = "SET_MISSION"
    BY <1>2 DEF FireTimer, UploadTimedOut, DownloadTimedOut, UnknownTimeout, Disable,
       SysUnchanged
  <2>2. sys' = "retry" => Kind = "download"
    BY <1>1, <2>1 DEF Answering, ActivityOf, Kinds
  <2>3. Answering'
    BY <1>0, <1>1, <2>1, <2>2 DEF Answering
  <2>4. user = "send" => sys' # "retry" /\ activity' = activity
    BY <1>1, <2>1 DEF Calling, Untouched
  <2>5. Calling'
    BY <1>0, <1>1, <2>1, <2>4 DEF Calling, Untouched
  <2>6. Unique => Unique'
    BY <1>0, <2>1 DEF Unique
  <2> QED
    BY <1>1, <2>3, <2>5, <2>6 DEF OneRequest
<1>3. CASE RetryDownload
  <2>1. /\ sys = "retry" /\ sys' = "idle" /\ UNCHANGED <<activity, answers>>
    BY <1>3 DEF RetryDownload, SysUnchanged
  <2>2. Kind = "download" /\ user # "send"
    BY <1>1, <2>1 DEF Answering, Calling, Untouched
  <2>3. Calling' /\ Answering'
    BY <1>0, <1>1, <2>1, <2>2 DEF Calling, Answering
  <2> QED
    BY <1>1, <2>2, <2>3 DEF OneRequest
<1>4. CASE GiveUpDownload
  <2>1. /\ sys = "retry" /\ sys' = "idle"
        /\ activity' = "NONE" /\ Answer(resultCb, "TIMEOUT", <<>>)
    BY <1>4 DEF GiveUpDownload
  <2>2. Kind = "download" /\ user # "send" /\ resultCb = 0
    BY <1>1, <2>1 DEF Answering, Calling, Untouched
  <2>3. answers' = answers
    BY <2>1, <2>2 DEF Answer
  <2>4. Calling' /\ Answering'
    BY <1>0, <1>1, <2>1, <2>2, <2>3 DEF Calling, Answering
  <2> QED
    BY <1>1, <2>2, <2>4 DEF OneRequest
<1> QED
  BY <1>2, <1>3, <1>4 DEF SystemThread

\* The result of a command.
LEMMA ResultOnce ==
  ASSUME SingleRequest, NEW r \in commands, NEW ok \in BOOLEAN, ReceiveCommandResult(r, ok)
  PROVE  OneRequest'
<1>0. UNCHANGED <<requests, user, accepted, sys, vehicle, resultCb, itemsCb, toPlugin, toVehicle>>
  BY DEF ReceiveCommandResult, cbVars, vehicleVars, linkVars
<1>1. /\ Request = 1 /\ Kind \in Kinds /\ Kind' = Kind
      /\ Calling /\ Answering /\ (Kind = "upload" => Unique)
  BY <1>0, SingleKind DEF SingleRequest, OneRequest
<1>2. commands = {1} /\ Kind = "start" /\ answers = <<>> /\ user = "idle"
  BY <1>1 DEF Answering
<1>3. commands' = {} /\ activity' \in {"NONE", activity}
  BY <1>2 DEF ReceiveCommandResult
<1>4. answers' = <<>> \/ Len(answers') = 1
  BY <1>2, FirstAnswer DEF ReceiveCommandResult
<1>5. Calling' /\ Answering'
  BY <1>0, <1>1, <1>2, <1>3, <1>4 DEF Calling, Answering
<1> QED
  BY <1>1, <1>2, <1>5 DEF OneRequest

\* While a request is being sent, the vehicle has nothing to do.
LEMMA VehicleIdle ==
  ASSUME Untouched, activity # "SET_CURRENT", Delivery \/ VehicleRepeats \/ FallsSilent \/ Lose
  PROVE  FallsSilent
BY DEF Delivery, VehicleCount, VehicleItem, VehicleNack, VehicleList, VehicleSendsItem,
   VehicleAck, VehicleSetCurrent, VehicleReceives, Unheard, VehicleRepeats, Lose, Untouched

\* The vehicle and the link: a COUNT makes the vehicle take the mission, and the last
\* item makes it send its ACK.
LEMMA VehicleUnique ==
  ASSUME QueuesOK, Unique, Delivery \/ VehicleRepeats \/ FallsSilent \/ Lose
  PROVE  Unique'
<1>0. UNCHANGED <<accepted, answers>>
  BY VehicleDoes DEF PluginUnchanged, historyVars
<1>1. CASE VehicleCount
  <2>1. /\ toVehicle # <<>> /\ toVehicle' = Tail(toVehicle)
        /\ Head(toVehicle).type = "COUNT"
        /\ AskFor(0)
    BY <1>1 DEF VehicleCount, VehicleReceives
  <2>2. /\ Holds(toVehicle, "COUNT")
        /\ ~Holds(toVehicle, "COUNT")' /\ AtMostOne(toVehicle, "COUNT")'
    BY <2>1, Tailed DEF QueuesOK, Unique
  <2>3. AtMostOne(toPlugin, "ACK")' /\ (Holds(toPlugin, "ACK")' => Holds(toPlugin, "ACK"))
    BY <2>1, Replied DEF AskFor, Unique
  <2> QED
    BY <1>0, <2>2, <2>3 DEF Unique
<1>2. CASE /\ toVehicle # <<>> /\ toVehicle' = Tail(toVehicle)
           /\ vehicle'.state = "GETLIST" => vehicle.state = "GETLIST"
           /\ UNCHANGED toPlugin \/ \E type, arg : type # "ACK" /\ Reply(type, arg)
  <2>1. AtMostOne(toVehicle, "COUNT")' /\ (Holds(toVehicle, "COUNT")' => Holds(toVehicle, "COUNT"))
    BY <1>2, Tailed DEF QueuesOK, Unique
  <2>2. AtMostOne(toPlugin, "ACK")' /\ (Holds(toPlugin, "ACK")' => Holds(toPlugin, "ACK"))
    BY <1>2, Replied DEF Unique
  <2> QED
    BY <1>0, <1>2, <2>1, <2>2, UniqueKept
<1>3. CASE VehicleItem
  <2>1. toVehicle # <<>> /\ toVehicle' = Tail(toVehicle)
    BY <1>3 DEF VehicleItem, VehicleReceives
  <2>2. CASE UNCHANGED <<vehicle, toPlugin>>
    BY <1>2, <2>1, <2>2
  <2>3. CASE vehicle.state = "GETLIST" /\ \E seq : Reply("REQUEST_INT", seq)
    BY <1>2, <2>1, <2>3
  <2>4. CASE vehicle.state = "GETLIST" /\ vehicle' = Quiet /\ \E a \in Ack : Reply("ACK", a)
    <3>1. AtMostOne(toVehicle, "COUNT")' /\ (Holds(toVehicle, "COUNT")' => Holds(toVehicle, "COUNT"))
      BY <2>1, Tailed DEF QueuesOK, Unique
    <3>2. /\ ~Holds(toPlugin, "ACK") /\ ~Holds(toVehicle, "COUNT")
          /\ accepted.type # "ACK" /\ answers = <<>>
      BY <2>4 DEF Unique
    <3>3. AtMostOne(toPlugin, "ACK")'
      BY <2>4, <3>2, Appended DEF Reply, QueuesOK, Unique
    <3>4. vehicle'.state # "GETLIST"
      BY <2>4 DEF Quiet
    <3> QED
      BY <1>0, <3>1, <3>2, <3>3, <3>4 DEF Unique
  <2> QED
    BY <1>3, <2>2, <2>3, <2>4 DEF VehicleItem
<1>4. CASE VehicleNack \/ VehicleSendsItem \/ VehicleAck \/ VehicleSetCurrent \/ VehicleList
  <2>1. /\ toVehicle # <<>> /\ toVehicle' = Tail(toVehicle)
        /\ vehicle'.state = "GETLIST" => vehicle.state = "GETLIST"
    BY <1>4 DEF VehicleNack, VehicleSendsItem, VehicleAck, VehicleSetCurrent, VehicleList,
       VehicleReceives, vehicleVars, Quiet
  <2>2. UNCHANGED toPlugin \/ \E type, arg : type # "ACK" /\ Reply(type, arg)
    BY <1>4 DEF VehicleNack, VehicleSendsItem, VehicleAck, VehicleSetCurrent, VehicleList
  <2> QED
    BY <1>2, <2>1, <2>2
<1>5. CASE VehicleRepeats
  <2>1. UNCHANGED <<toVehicle, vehicle>> /\ \E type, arg : type # "ACK" /\ Reply(type, arg)
    BY <1>5 DEF VehicleRepeats, vehicleVars, AskFor
  <2>2. AtMostOne(toPlugin, "ACK")' /\ (Holds(toPlugin, "ACK")' => Holds(toPlugin, "ACK"))
    BY <2>1, Replied DEF Unique
  <2> QED
    BY <1>0, <2>1, <2>2 DEF Unique
<1>6. CASE FallsSilent \/ Unheard
  <2>1. /\ toVehicle' \in {toVehicle, <<>>} /\ UNCHANGED toPlugin
        /\ vehicle'.state = "GETLIST" => vehicle.state = "GETLIST"
    BY <1>6 DEF FallsSilent, Unheard, linkVars, vehicleVars, Quiet
  <2> QED
    BY <1>0, <2>1, EmptyQueue DEF Unique
<1>7. CASE Lose
  <2>1. /\ UNCHANGED vehicle
        /\ \/ toVehicle # <<>> /\ toVehicle' = Tail(toVehicle) /\ UNCHANGED toPlugin
           \/ toPlugin # <<>> /\ toPlugin' = Tail(toPlugin) /\ UNCHANGED toVehicle
    BY <1>7 DEF Lose, vehicleVars
  <2>2. CASE toVehicle # <<>> /\ toVehicle' = Tail(toVehicle) /\ UNCHANGED toPlugin
    <3>1. AtMostOne(toVehicle, "COUNT")' /\ (Holds(toVehicle, "COUNT")' => Holds(toVehicle, "COUNT"))
      BY <2>2, Tailed DEF QueuesOK, Unique
    <3> QED
      BY <1>0, <2>1, <2>2, <3>1 DEF Unique
  <2>3. CASE toPlugin # <<>> /\ toPlugin' = Tail(toPlugin) /\ UNCHANGED toVehicle
    <3>1. AtMostOne(toPlugin, "ACK")' /\ (Holds(toPlugin, "ACK")' => Holds(toPlugin, "ACK"))
      BY <2>3, Tailed DEF QueuesOK, Unique
    <3> QED
      BY <1>0, <2>1, <2>3, <3>1 DEF Unique
  <2> QED
    BY <2>1, <2>2, <2>3
<1> QED
  BY <1>1, <1>3, <1>4, <1>5, <1>6, <1>7 DEF Delivery

\* A step of the vehicle or the link.
LEMMA VehicleOnce ==
  ASSUME SingleRequest, Delivery \/ VehicleRepeats \/ FallsSilent \/ Lose
  PROVE  OneRequest'
<1>0. UNCHANGED <<requests, user, accepted, sys, commands, resultCb, itemsCb, activity, answers>>
  BY VehicleDoes DEF PluginUnchanged, historyVars, cbVars
<1>1. /\ Request = 1 /\ Kind \in Kinds /\ Kind' = Kind /\ QueuesOK
      /\ Calling /\ Answering /\ (Kind = "upload" => Unique)
  BY <1>0, SingleKind DEF SingleRequest, OneRequest
<1>2. Answering'
  BY <1>0, <1>1 DEF Answering
<1>3. user = "send" => Untouched'
  <2> SUFFICES ASSUME user = "send" PROVE Untouched'
    OBVIOUS
  <2>1. Untouched /\ activity # "SET_CURRENT"
    BY <1>1 DEF Calling
  <2>2. FallsSilent
    BY <2>1, VehicleIdle
  <2> QED
    BY <1>0, <2>1, <2>2 DEF FallsSilent, Quiet, linkVars, Untouched
<1>4. Calling'
  BY <1>0, <1>1, <1>3 DEF Calling
<1> QED
  BY <1>1, <1>2, <1>4, VehicleUnique DEF OneRequest

\* Every step.
LEMMA OnceStep ==
  ASSUME RequestsOK, QueuesOK, OnceInv, TransferNext
  PROVE  OnceInv'
<1>1. ASSUME NEW kind \in Kinds, Call(kind) PROVE OnceInv'
  BY <1>1, FirstCall
<1>2. CASE ~\E kind \in Kinds : Call(kind)
  <2>1. UNCHANGED requests
    BY <1>2, VehicleDoes
       DEF TransferNext, UserThread, SendCount, SendRequestList, SendSetCurrent, SendCommand,
           SendFails, SetActivity, SetCallback, ReceiveThread, Receive, ReceiveRequest,
           UploadItem, MissionAccepted, MissionRefused, CurrentSet, CountReceived,
           ItemUnexpected, ItemReceived, LastItemReceived, RecvUnchanged, SystemThread,
           FireTimer, UploadTimedOut, DownloadTimedOut, UnknownTimeout, RetryDownload,
           GiveUpDownload, Disable, SysUnchanged, ReceiveCommandResult, PluginUnchanged,
           historyVars
  <2>2. CASE requests = <<>>
    BY <2>1, <2>2, BeforeRequests
  <2>3. CASE Len(requests) = 1
    <3>1. SingleRequest
      BY <2>3 DEF SingleRequest, OneRequest, OnceInv
    <3>2. OneRequest'
      BY <1>2, <3>1, UserOnce, ReceiveOnce, SystemOnce, ResultOnce, VehicleOnce DEF TransferNext
    <3>3. requests' # <<>>
      BY <2>1, <2>3
    <3> QED
      BY <3>2, <3>3 DEF OnceInv, OneRequest
  <2>4. CASE requests # <<>> /\ Len(requests) # 1
    BY <2>1, <2>4 DEF OnceInv
  <2> QED
    BY <2>2, <2>3, <2>4
<1> QED
  BY <1>1, <1>2

\* What the invariant is for.
LEMMA OnceIsAnsweredOnce == ASSUME OnceInv, RequestsOK PROVE AnsweredOnce
<1>1. Len(requests) <= 1 => requests = <<>> \/ Len(requests) = 1
  <2>1. requests \in Seq(Kinds) /\ Len(requests) \in Nat
    BY LenProperties DEF RequestsOK
  <2>2. Len(requests) = 0 => requests = <<>>
    BY <2>1, EmptySeq
  <2>3. \A n \in Nat : n <= 1 => n = 0 \/ n = 1
    OBVIOUS
  <2>4. Len(requests) <= 1 => Len(requests) = 0 \/ Len(requests) = 1
    BY <2>1, <2>3
  <2> QED
    BY <2>2, <2>4
<1>2. requests = <<>> \/ Len(requests) = 1 => answers = <<>> \/ Len(answers) = 1
  BY DEF OnceInv, Untouched, Answering
<1>3. Len(answers) <= 1 \/ (answers # <<>> /\ Len(answers) # 1)
  <2>1. Len(<<>>) = 0
    BY EmptySeq
  <2> QED
    BY <2>1
<1> QED
  BY <1>1, <1>2, <1>3 DEF AnsweredOnce

LEMMA OnceStutter == ASSUME OnceInv, QueuesOK, UNCHANGED vars PROVE OnceInv' /\ QueuesOK'
BY DEF OnceInv, QueuesOK, Untouched, Calling, Answering, Unique, Kind, Request, vars,
   Holds, AtMostOne

\* "Callback to receive result of this request" (mission.h:99,147,173): an operation on
\* its own is answered at most once, however late the vehicle's messages are.
THEOREM LoneRequestsAreAnsweredOnce == TransferSpec => []AnsweredOnce
<1>1. TransferInit => RequestsOK /\ QueuesOK /\ OnceInv
  BY RequestsStart, OnceStart
<1>2. RequestsOK /\ QueuesOK /\ OnceInv /\ [TransferNext]_vars
        => (RequestsOK /\ QueuesOK /\ OnceInv)'
  <2>1. ASSUME RequestsOK, QueuesOK, OnceInv, TransferNext
        PROVE  (RequestsOK /\ QueuesOK /\ OnceInv)'
    BY <2>1, RequestsStep, QueuesStep, OnceStep
  <2>2. ASSUME RequestsOK, QueuesOK, OnceInv, UNCHANGED vars
        PROVE  (RequestsOK /\ QueuesOK /\ OnceInv)'
    <3>1. UNCHANGED <<requests, user>>
      BY <2>2 DEF vars
    <3> QED
      BY <2>2, <3>1, OnceStutter DEF RequestsOK
  <2> QED
    BY <2>1, <2>2
<1>3. RequestsOK /\ QueuesOK /\ OnceInv => AnsweredOnce
  BY OnceIsAnsweredOnce
<1> QED
  BY <1>1, <1>2, <1>3, PTL DEF TransferSpec

\* No timer is missing or left over, and nobody is answered twice.
THEOREM TransfersAreTidy == TransferSpec => []TransfersTidy
BY TimersMatchTransfers, LoneRequestsAreAnsweredOnce, PTL DEF TransfersTidy

-----------------------------------------------------------------------------
(* Missions under transfer: uploads                                        *)

\* What is claimed: with a vehicle that answers in time, or of one operation on its own,
\* as long as no announcement is lost to a vehicle that waits for an earlier mission.
Certain == ~lost.announcement /\ (timely \/ Len(requests) <= 1)

\* An upload is under way, from its COUNT on; an operation on its own stays so.
Current ==
  IF timely
  THEN activity = "SET_MISSION" \/ (user \in {"activity", "callback"} /\ Kind = "upload")
  ELSE requests # <<>> /\ Kind = "upload" /\ user # "send"

\* The mission is the one of request r; and an item is the message of its number.
Of(r) == \E n \in 0 .. MaxSize : outgoing = Mission(r, n)
Fits(item, mission) == item.seq \in 0 .. Len(mission) - 1 /\ item = mission[item.seq + 1]

\* A COUNT under way is one only, and that of the mission.
Announced ==
  /\ AtMostOne(toVehicle, "COUNT")
  /\ \A i \in 1 .. Len(toVehicle) : toVehicle[i].type = "COUNT" =>
       toVehicle[i].arg = Len(outgoing) /\ Len(outgoing) >= 1

\* What a vehicle that takes the mission has is its beginning.
Taken ==
  vehicle.state = "GETLIST" /\ Current /\ ~Holds(toVehicle, "COUNT") =>
    /\ vehicle.count = Len(outgoing) /\ Len(vehicle.have) < vehicle.count
    /\ \A k \in 1 .. Len(vehicle.have) : vehicle.have[k] = outgoing[k]

\* An item that the vehicle can take, now or after a COUNT before it, is of the mission.
ItemsFit ==
  \A i \in 1 .. Len(toVehicle) :
    /\ toVehicle[i].type = "ITEM"
    /\ vehicle.state = "GETLIST" \/ \E j \in 1 .. i - 1 : toVehicle[j].type = "COUNT"
    => /\ Fits(toVehicle[i].arg, outgoing)
       /\ \A j \in i .. Len(toVehicle) : toVehicle[j].type # "COUNT"

\* An ACK is the last of an upload; and a good one speaks of what the vehicle has.
Acks ==
  /\ AtMostOne(toPlugin, "ACK")
  /\ accepted.type = "ACK" => ~Holds(toPlugin, "ACK")
  /\ Holds(toPlugin, "ACK") \/ accepted.type = "ACK" =>
        vehicle.state # "GETLIST" /\ ~Holds(toVehicle, "COUNT")
  /\ \A i \in 1 .. Len(toPlugin) :
       toPlugin[i].type = "ACK" /\ toPlugin[i].arg = "ACCEPTED" => onboard = outgoing
  /\ accepted.type = "ACK" /\ accepted.arg = "ACCEPTED" => onboard = outgoing

\* No message is under way that matters for an upload.
Nothing ==
  /\ ~Holds(toVehicle, "COUNT") /\ ~Holds(toPlugin, "ACK") /\ accepted.type # "ACK"
  /\ vehicle.state = "GETLIST" => ~Holds(toVehicle, "ITEM")

\* Items are asked for by their numbers.
Asked ==
  /\ \A i \in 1 .. Len(toPlugin) : toPlugin[i].type = "REQUEST_INT" => toPlugin[i].arg \in Nat
  /\ accepted.type = "REQUEST_INT" => accepted.arg \in Nat
  /\ Queue(vehicle.have)

Transferred ==
  /\ \E r : Of(r)
  /\ Announced /\ Taken /\ ItemsFit /\ Acks /\ Asked
  /\ ~Current => Nothing

\* A timely timeout finds the links empty.
Stillness == timely /\ sys # "idle" => toVehicle = <<>> /\ toPlugin = <<>> /\ accepted = NoMessage

\* The callbacks belong to requests of their kinds, and result_callback to the mission.
Owned ==
  /\ timely /\ activity = "SET_MISSION" /\ user = "idle" => resultCb # 0 /\ Of(resultCb)
  /\ user \in {"activity", "callback"} /\ Kind = "upload" => Of(Request)
  /\ ~timely => Of(1)
  /\ timely /\ activity = "SET_CURRENT" /\ user = "idle"
       => resultCb # 0 /\ requests[resultCb] = "set_current"
  /\ itemsCb # 0 => itemsCb \in 1 .. Len(requests) /\ requests[itemsCb] = "download"
  /\ resultCb # 0 => resultCb \in 1 .. Len(requests)
  /\ \A r \in commands : r \in 1 .. Len(requests) /\ requests[r] = "start"

UploadInv == Certain => Transferred /\ Stillness /\ Owned

-----------------------------------------------------------------------------

\* The places of a queue that has one message more, or one less.
LEMMA AppendedAt ==
  ASSUME NEW q, Queue(q), NEW m, NEW p, p = Append(q, m)
  PROVE  /\ Len(q) \in Nat /\ Len(p) = Len(q) + 1
         /\ \A i \in 1 .. Len(q) : p[i] = q[i]
         /\ p[Len(q) + 1] = m
<1> PICK S : q \in Seq(S)
  BY DEF Queue
<1>1. q \in Seq(S \cup {m}) /\ m \in S \cup {m}
  BY SeqDef
<1> QED
  BY <1>1, AppendProperties, LenProperties

LEMMA TailedAt ==
  ASSUME NEW q, Queue(q), q # <<>>, NEW p, p = Tail(q)
  PROVE  /\ Len(q) \in Nat /\ Len(p) = Len(q) - 1 /\ Len(q) > 0
         /\ Head(q) = q[1]
         /\ \A i \in 1 .. Len(p) : p[i] = q[i + 1]
<1> PICK S : q \in Seq(S)
  BY DEF Queue
<1> QED
  BY HeadTailProperties, LenProperties, EmptySeq

\* A message more for the vehicle: not a COUNT, and an item only if it is the mission's.
LEMMA OutAppended ==
  ASSUME QueuesOK, Announced, Taken, ItemsFit,
         NEW m, toVehicle' = Append(toVehicle, m), m.type # "COUNT",
         m.type = "ITEM" => Fits(m.arg, outgoing),
         UNCHANGED <<vehicle, outgoing>>, Current' => Current
  PROVE  /\ Announced' /\ Taken' /\ ItemsFit'
         /\ Holds(toVehicle, "COUNT")' => Holds(toVehicle, "COUNT")
         /\ m.type # "ITEM" /\ Holds(toVehicle, "ITEM")' => Holds(toVehicle, "ITEM")
<1> DEFINE q == toVehicle
           p == toVehicle'
<1>1. /\ Len(q) \in Nat /\ Len(p) = Len(q) + 1
      /\ \A i \in 1 .. Len(q) : p[i] = q[i]
      /\ p[Len(q) + 1] = m
  BY AppendedAt DEF QueuesOK
<1>2. /\ AtMostOne(p, "COUNT")
      /\ Holds(p, "COUNT") => Holds(q, "COUNT")
      /\ m.type # "ITEM" /\ Holds(p, "ITEM") => Holds(q, "ITEM")
  BY Appended DEF QueuesOK, Announced
<1>3. \A i \in 1 .. Len(p) : i \in 1 .. Len(q) \/ i = Len(q) + 1
  BY <1>1
<1>4. Announced'
  BY <1>1, <1>2, <1>3 DEF Announced
<1>5. Holds(q, "COUNT") => Holds(p, "COUNT")
  BY <1>1 DEF Holds
<1>6. Taken'
  BY <1>2, <1>5 DEF Taken
<1>7. ItemsFit'
  <2> SUFFICES ASSUME NEW i \in 1 .. Len(p), p[i].type = "ITEM",
                      vehicle.state = "GETLIST" \/ \E j \in 1 .. i - 1 : p[j].type = "COUNT"
               PROVE  /\ Fits(p[i].arg, outgoing)
                      /\ \A j \in i .. Len(p) : p[j].type # "COUNT"
    BY DEF ItemsFit
  <2>2. CASE i \in 1 .. Len(q)
    <3>1. \A j \in 1 .. i - 1 : j \in 1 .. Len(q) /\ p[j] = q[j]
      BY <1>1, <2>2
    <3>2. Fits(q[i].arg, outgoing) /\ \A j \in i .. Len(q) : q[j].type # "COUNT"
      BY <1>1, <2>2, <3>1 DEF ItemsFit
    <3>3. \A j \in i .. Len(p) : (j \in i .. Len(q) /\ p[j] = q[j]) \/ j = Len(q) + 1
      BY <1>1, <2>2
    <3> QED
      BY <1>1, <2>2, <3>2, <3>3
  <2>3. CASE i = Len(q) + 1
    <3>1. \A j \in i .. Len(p) : j = Len(q) + 1
      BY <1>1, <2>3
    <3> QED
      BY <1>1, <2>3, <3>1
  <2> QED
    BY <1>3, <2>2, <2>3
<1> QED
  BY <1>2, <1>4, <1>6, <1>7

\* The first message for the vehicle is gone: no COUNT that the vehicle was to hear.
LEMMA OutTailed ==
  ASSUME QueuesOK, Announced, Taken, ItemsFit,
         toVehicle # <<>>, toVehicle' = Tail(toVehicle),
         vehicle'.state = "GETLIST" =>
            vehicle.state = "GETLIST" /\ Head(toVehicle).type # "COUNT",
         UNCHANGED outgoing, Current' => Current
  PROVE  /\ Announced' /\ ItemsFit' /\ ((vehicle'.state = "GETLIST" => UNCHANGED vehicle) => Taken')
         /\ Holds(toVehicle, "COUNT")' => Holds(toVehicle, "COUNT")
         /\ Holds(toVehicle, "ITEM")' => Holds(toVehicle, "ITEM")
<1> DEFINE q == toVehicle
           p == toVehicle'
<1>1. /\ Len(q) \in Nat /\ Len(p) = Len(q) - 1 /\ Len(q) > 0
      /\ Head(q) = q[1]
      /\ \A i \in 1 .. Len(p) : p[i] = q[i + 1]
  BY TailedAt DEF QueuesOK
<1>2. /\ AtMostOne(p, "COUNT")
      /\ Holds(p, "COUNT") => Holds(q, "COUNT")
      /\ Holds(p, "ITEM") => Holds(q, "ITEM")
  BY Tailed DEF QueuesOK, Announced
<1>3. \A i \in 1 .. Len(p) : i + 1 \in 1 .. Len(q)
  BY <1>1
<1>4. Announced'
  BY <1>1, <1>2, <1>3 DEF Announced
<1>5. Head(q).type # "COUNT" /\ Holds(q, "COUNT") => Holds(p, "COUNT")
  <2> SUFFICES ASSUME Head(q).type # "COUNT", NEW i \in 1 .. Len(q), q[i].type = "COUNT"
               PROVE  Holds(p, "COUNT")
    BY DEF Holds
  <2>1. i - 1 \in 1 .. Len(p) /\ p[i - 1] = q[i]
    BY <1>1
  <2> QED
    BY <2>1 DEF Holds
<1>6. (vehicle'.state = "GETLIST" => UNCHANGED vehicle) => Taken'
  BY <1>5 DEF Taken
<1>7. ItemsFit'
  <2> SUFFICES ASSUME NEW i \in 1 .. Len(p), p[i].type = "ITEM",
                      vehicle'.state = "GETLIST" \/ \E j \in 1 .. i - 1 : p[j].type = "COUNT"
               PROVE  /\ Fits(p[i].arg, outgoing)
                      /\ \A j \in i .. Len(p) : p[j].type # "COUNT"
    BY DEF ItemsFit
  <2>2. \A j \in 1 .. i - 1 : j + 1 \in 1 .. (i + 1) - 1 /\ p[j] = q[j + 1]
    BY <1>1
  <2>3. vehicle.state = "GETLIST" \/ \E j \in 1 .. (i + 1) - 1 : q[j].type = "COUNT"
    BY <2>2
  <2>4. Fits(q[i + 1].arg, outgoing) /\ \A j \in i + 1 .. Len(q) : q[j].type # "COUNT"
    BY <1>1, <1>3, <2>3 DEF ItemsFit
  <2>5. \A j \in i .. Len(p) : j + 1 \in i + 1 .. Len(q) /\ p[j] = q[j + 1]
    BY <1>1
  <2> QED
    BY <1>1, <2>4, <2>5
<1> QED
  BY <1>2, <1>4, <1>6, <1>7

\* The vehicle and the COUNT get no nearer to taking a mission.
NoNearer ==
  vehicle'.state = "GETLIST" \/ Holds(toVehicle, "COUNT")'
     => vehicle.state = "GETLIST" \/ Holds(toVehicle, "COUNT")

\* Nothing comes for the plugin; an accepted message may be done with.
LEMMA InSame ==
  ASSUME Acks, Asked, NoNearer,
         UNCHANGED <<toPlugin, onboard, outgoing>>, accepted' \in {accepted, NoMessage},
         Queue(vehicle'.have)
  PROVE  /\ Acks' /\ Asked'
         /\ Holds(toPlugin, "ACK")' => Holds(toPlugin, "ACK")
         /\ accepted'.type = "ACK" => accepted.type = "ACK"
<1>1. NoMessage.type = "none"
  BY DEF NoMessage, Message
<1> QED
  BY <1>1 DEF Acks, Asked, NoNearer, Holds, AtMostOne

\* The vehicle sends something else than an ACK.
LEMMA InAppended ==
  ASSUME QueuesOK, Acks, Asked, NoNearer,
         NEW type, NEW arg, Reply(type, arg), type # "ACK",
         type = "REQUEST_INT" => arg \in Nat,
         UNCHANGED <<accepted, onboard, outgoing>>, Queue(vehicle'.have)
  PROVE  Acks' /\ Asked' /\ (Holds(toPlugin, "ACK")' => Holds(toPlugin, "ACK"))
<1> DEFINE q == toPlugin
           p == toPlugin'
           m == Message(type, arg)
<1>1. p = Append(q, m) /\ m.type = type /\ m.arg = arg
  BY DEF Reply, Message
<1>2. /\ Len(q) \in Nat /\ Len(p) = Len(q) + 1
      /\ \A i \in 1 .. Len(q) : p[i] = q[i]
      /\ p[Len(q) + 1] = m
  BY <1>1, AppendedAt DEF QueuesOK
<1>3. AtMostOne(p, "ACK") /\ (Holds(p, "ACK") => Holds(q, "ACK"))
  BY Replied DEF Acks
<1>4. \A i \in 1 .. Len(p) : i \in 1 .. Len(q) \/ i = Len(q) + 1
  BY <1>2
<1> HIDE DEF m
<1>5. \A i \in 1 .. Len(p) : p[i].type = "ACK" /\ p[i].arg = "ACCEPTED" => onboard' = outgoing'
  BY <1>1, <1>2, <1>4 DEF Acks
<1>6. Acks'
  BY <1>3, <1>5 DEF Acks, NoNearer
<1>7. Asked'
  BY <1>1, <1>2, <1>4 DEF Asked
<1> QED
  BY <1>3, <1>6, <1>7

\* The plugin takes a message, or it is lost.
LEMMA InTailed ==
  ASSUME QueuesOK, Acks, Asked, NoNearer,
         toPlugin # <<>>, toPlugin' = Tail(toPlugin),
         \/ accepted' = accepted
         \/ accepted = NoMessage /\ accepted' \in {Head(toPlugin), NoMessage},
         UNCHANGED <<onboard, outgoing, vehicle>>
  PROVE  /\ Acks' /\ Asked'
         /\ Holds(toPlugin, "ACK")' => Holds(toPlugin, "ACK")
         /\ accepted'.type = "ACK" => accepted.type = "ACK" \/ Holds(toPlugin, "ACK")
<1> DEFINE q == toPlugin
           p == toPlugin'
<1>1. /\ Len(q) \in Nat /\ Len(p) = Len(q) - 1 /\ Len(q) > 0
      /\ Head(q) = q[1]
      /\ \A i \in 1 .. Len(p) : p[i] = q[i + 1]
  BY TailedAt DEF QueuesOK
<1>2. /\ AtMostOne(p, "ACK") /\ (Holds(p, "ACK") => Holds(q, "ACK"))
      /\ Head(q).type = "ACK" => Holds(q, "ACK") /\ ~Holds(p, "ACK")
  BY Tailed DEF QueuesOK, Acks
<1>3. \A i \in 1 .. Len(p) : i + 1 \in 1 .. Len(q)
  BY <1>1
<1>4. 1 \in 1 .. Len(q)
  BY <1>1
<1>5. NoMessage.type = "none"
  BY DEF NoMessage, Message
<1>6. accepted'.type = "ACK" =>
        accepted'.type = "ACK" /\ ((accepted' = accepted) \/ accepted' = q[1])
  BY <1>1, <1>5
<1>7. \A i \in 1 .. Len(p) : p[i].type = "ACK" /\ p[i].arg = "ACCEPTED" => onboard' = outgoing'
  BY <1>1, <1>3 DEF Acks
<1>8. accepted'.type = "ACK" => ~Holds(p, "ACK") /\ (accepted.type = "ACK" \/ Holds(q, "ACK"))
  BY <1>1, <1>2, <1>6 DEF Acks
<1>9. accepted'.type = "ACK" /\ accepted'.arg = "ACCEPTED" => onboard' = outgoing'
  BY <1>4, <1>6 DEF Acks
<1>10. Acks'
  BY <1>2, <1>7, <1>8, <1>9 DEF Acks, NoNearer
<1>11. Asked'
  BY <1>1, <1>3, <1>4, <1>5 DEF Asked
<1> QED
  BY <1>2, <1>8, <1>10, <1>11

\* A step that is not about messages, at the end of which an upload is under way or
\* nothing of it is.
LEMMA Aside ==
  ASSUME Transferred,
         UNCHANGED <<outgoing, toVehicle, toPlugin, vehicle, onboard, accepted>>,
         Current' = Current \/ (~Current' /\ Nothing)
  PROVE  Transferred'
<1>1. UNCHANGED <<Announced, ItemsFit, Acks, Asked, Nothing>>
  BY DEF Announced, ItemsFit, Acks, Asked, Nothing, Holds, AtMostOne, Fits
<1>2. Taken'
  BY DEF Transferred, Taken, Holds
<1>3. (\E r : Of(r))' = (\E r : Of(r))
  BY DEF Of
<1>4. Current' = Current => (~Current' => Nothing)
  BY DEF Transferred
<1> QED
  BY <1>1, <1>2, <1>3, <1>4 DEF Transferred

-----------------------------------------------------------------------------

\* What is known of requests, timers and answers.
Around == RequestsOK /\ QueuesOK /\ OnceInv /\ (timely => WaitingInv)

\* An operation on its own has touched nothing until its first message is out.
LEMMA LoneSends ==
  ASSUME Around, Len(requests) <= 1, user = "send"
  PROVE  Untouched /\ Request = 1
<1>1. requests # <<>> /\ requests \in Seq(Kinds)
  BY DEF Around, RequestsOK
<1>2. Len(requests) \in Nat /\ Len(requests) # 0
  BY <1>1, LenProperties, EmptySeq
<1>3. Len(requests) = 1
  BY <1>2
<1> QED
  BY <1>3 DEF Around, OnceInv, Calling, Request

\* The operation that sends is not under way yet.
LEMMA NotYet ==
  ASSUME Around, Certain, user = "send"
  PROVE  ~Current /\ (timely => activity = (IF Kind = "start" THEN "SEND_COMMAND" ELSE "NONE"))
BY DEF Around, Certain, Current, WaitingInv

\* Of a mission every item fits.
LEMMA MissionFits ==
  ASSUME NEW r, Of(r), NEW k \in 1 .. Len(outgoing)
  PROVE  /\ Fits(outgoing[k], outgoing) /\ outgoing[k].seq = k - 1 /\ outgoing[k].req = r
<1> PICK n \in 0 .. MaxSize : outgoing = Mission(r, n)
  BY DEF Of
<1>1. n \in Nat
  BY TransferAssumption
<1>2. outgoing = [i \in 1 .. n |-> [req |-> r, seq |-> i - 1]] /\ Len(outgoing) = n
  BY <1>1 DEF Mission
<1> QED
  BY <1>1, <1>2 DEF Fits

\* The callbacks stay as they are.
LEMMA OwnedSame ==
  ASSUME Owned, UNCHANGED <<outgoing, requests, user, resultCb, itemsCb, timely>>,
         commands' \subseteq commands, activity' \in {activity, "NONE"}
  PROVE  Owned'
<1>1. UNCHANGED <<Request, Kind>> /\ \A r : Of(r)' = Of(r)
  BY DEF Request, Kind, Of
<1> QED
  BY <1>1 DEF Owned

\* A call.
LEMMA UploadCall ==
  ASSUME Around, Certain, Certain', Transferred, Stillness, Owned,
         NEW kind \in Kinds, Call(kind)
  PROVE  Transferred' /\ Stillness' /\ Owned'
<1>1. /\ UNCHANGED <<outgoing, toVehicle, toPlugin, vehicle, onboard, accepted, sys, resultCb,
                     itemsCb, commands, timely>>
      /\ user = "idle" /\ requests' = Append(requests, kind)
      /\ \/ activity # "NONE" /\ UNCHANGED <<activity, user>>
         \/ activity = "NONE" /\ activity' \in {"NONE", "SEND_COMMAND"} /\ user' = "send"
  BY DEF Call, UserUnchanged, cbVars, vehicleVars
<1>2. /\ requests \in Seq(Kinds) /\ Len(requests) \in Nat
      /\ Len(requests') = Len(requests) + 1
      /\ \A i \in 1 .. Len(requests) : i \in 1 .. Len(requests') /\ requests'[i] = requests[i]
  BY <1>1, AppendProperties, LenProperties DEF Around, RequestsOK
<1>3. ~timely => requests = <<>> /\ activity = "NONE"
  <2> SUFFICES ASSUME ~timely PROVE requests = <<>> /\ activity = "NONE"
    OBVIOUS
  <2>1. Len(requests) = 0
    BY <1>1, <1>2 DEF Certain
  <2> QED
    BY <1>2, <2>1, EmptySeq DEF Around, OnceInv
<1>4. Current' = Current
  BY <1>1, <1>3 DEF Current
<1>5. Transferred'
  BY <1>1, <1>4, Aside
<1>6. Stillness'
  BY <1>1 DEF Stillness
<1>7. \A r : Of(r)' = Of(r)
  BY <1>1 DEF Of
<1>8. Owned'
  BY <1>1, <1>2, <1>3, <1>7 DEF Owned
<1> QED
  BY <1>5, <1>6, <1>8

\* The announcement of a mission.
LEMMA UploadSendCount ==
  ASSUME Around, Certain, Certain', Transferred, Stillness, Owned,
         NEW n \in 1 .. MaxSize, SendCount(n)
  PROVE  Transferred' /\ Stillness' /\ Owned'
<1>1. /\ user = "send" /\ Kind = "upload" /\ user' = "activity"
      /\ outgoing' = Mission(Request, n)
      /\ toVehicle' = Append(toVehicle, Message("COUNT", n))
      /\ UNCHANGED <<activity, toPlugin, vehicle, onboard, accepted, sys, resultCb, itemsCb,
                     commands, timely, requests>>
  BY DEF SendCount, Sending, Send, UserUnchanged, cbVars, vehicleVars, historyVars, Kind
<1>2. ~Current /\ Nothing /\ (timely => activity = "NONE")
  BY <1>1, NotYet DEF Transferred
<1>3. n \in Nat /\ n >= 1 /\ n \in 0 .. MaxSize
  BY TransferAssumption
<1>4. Len(outgoing') = n
  BY <1>1, <1>3 DEF Mission
<1>5. UNCHANGED <<Request, Kind>>
  BY <1>1 DEF Request, Kind
<1>6. (\E r : Of(r))' /\ Of(Request)'
  BY <1>1, <1>3, <1>5 DEF Of
<1> DEFINE q == toVehicle
           p == toVehicle'
           m == Message("COUNT", n)
<1>7. /\ Len(q) \in Nat /\ Len(p) = Len(q) + 1
      /\ \A i \in 1 .. Len(q) : p[i] = q[i] /\ q[i].type # "COUNT"
      /\ p[Len(q) + 1] = m /\ m.type = "COUNT" /\ m.arg = n
  <2>1. \A i \in 1 .. Len(q) : q[i].type # "COUNT"
    BY <1>2 DEF Nothing, Holds
  <2> QED
    BY <1>1, <2>1, AppendedAt DEF Around, QueuesOK, Message
<1>8. \A i \in 1 .. Len(p) : i \in 1 .. Len(q) \/ i = Len(q) + 1
  BY <1>7
<1> HIDE DEF m
<1>9. Announced'
  <2>1. \A i \in 1 .. Len(p) : p[i].type = "COUNT" => i = Len(q) + 1
    BY <1>7, <1>8
  <2>2. AtMostOne(p, "COUNT")
    BY <2>1 DEF AtMostOne
  <2> QED
    BY <1>3, <1>4, <1>7, <2>1, <2>2 DEF Announced
<1>10. Taken'
  <2>1. Len(q) + 1 \in 1 .. Len(p)
    BY <1>7
  <2>2. Holds(p, "COUNT")
    BY <1>7, <2>1 DEF Holds
  <2> QED
    BY <2>2 DEF Taken
<1>11. ItemsFit'
  <2> SUFFICES ASSUME NEW i \in 1 .. Len(p), p[i].type = "ITEM",
                      vehicle.state = "GETLIST" \/ \E j \in 1 .. i - 1 : p[j].type = "COUNT"
               PROVE  FALSE
    BY <1>1 DEF ItemsFit
  <2>1. i \in 1 .. Len(q) /\ q[i].type = "ITEM"
    BY <1>7, <1>8
  <2>2. vehicle.state # "GETLIST"
    BY <1>2, <2>1 DEF Nothing, Holds
  <2>3. \A j \in 1 .. i - 1 : j \in 1 .. Len(q)
    BY <1>7, <2>1
  <2> QED
    BY <1>7, <2>2, <2>3
<1>12. Acks' /\ Asked'
  BY <1>1, <1>2 DEF Transferred, Acks, Asked, Nothing, Holds, AtMostOne
<1>13. Current'
  <2>1. requests # <<>>
    BY <1>1 DEF Around, RequestsOK
  <2> QED
    BY <1>1, <1>5, <2>1 DEF Current
<1>14. Stillness'
  BY <1>1 DEF Stillness, Around, WaitingInv
<1>15. Owned'
  <2>1. ~timely => Of(1)'
    BY <1>1, <1>5, <1>6, LoneSends DEF Certain
  <2> QED
    BY <1>1, <1>2, <1>5, <1>6, <2>1 DEF Owned
<1> QED
  BY <1>6, <1>9, <1>10, <1>11, <1>12, <1>13, <1>14, <1>15 DEF Transferred

\* An operation that fails at once, with the messages of its mission assembled or not.
LEMMA UploadSendFails ==
  ASSUME Around, Certain, Certain', Transferred, Stillness, Owned, SendFails
  PROVE  Transferred' /\ Stillness' /\ Owned'
<1>1. /\ user = "send" /\ user' = "idle" /\ Kind # "start"
      /\ \/ UNCHANGED outgoing
         \/ Kind = "upload" /\ \E n \in 1 .. MaxSize : outgoing' = Mission(Request, n)
      /\ UNCHANGED <<activity, toVehicle, toPlugin, vehicle, onboard, accepted, sys, resultCb,
                     itemsCb, commands, timely, requests>>
  BY DEF SendFails, UserUnchanged, cbVars, vehicleVars, Kind
<1>2. ~Current /\ Nothing /\ (timely => activity = "NONE")
  BY <1>1, NotYet DEF Transferred
<1>3. UNCHANGED <<Request, Kind>>
  BY <1>1 DEF Request, Kind
<1>4. 1 .. MaxSize \subseteq 0 .. MaxSize
  BY TransferAssumption
<1>5. (\E r : Of(r))'
  BY <1>1, <1>4 DEF Transferred, Of
<1>6. ~timely => vehicle.state # "GETLIST"
  BY <1>1, LoneSends DEF Certain, Untouched
<1>7. Nothing'
  BY <1>1, <1>2 DEF Nothing, Holds
<1>8. timely => ~Current'
  BY <1>1, <1>2 DEF Current
<1>9. Taken'
  BY <1>1, <1>6, <1>8 DEF Taken
<1>10. Announced'
  BY <1>7 DEF Nothing, Holds, Announced, AtMostOne
<1>11. ItemsFit'
  <2> SUFFICES ASSUME NEW i \in 1 .. Len(toVehicle'), toVehicle'[i].type = "ITEM",
                      vehicle'.state = "GETLIST" \/ \E j \in 1 .. i - 1 : toVehicle'[j].type = "COUNT"
               PROVE  FALSE
    BY DEF ItemsFit
  <2>1. vehicle'.state # "GETLIST"
    BY <1>7 DEF Nothing, Holds
  <2>2. Len(toVehicle') \in Nat
    BY <1>1, LenProperties DEF Around, QueuesOK, Queue
  <2>3. \A j \in 1 .. i - 1 : j \in 1 .. Len(toVehicle')
    BY <2>2
  <2> QED
    BY <1>7, <2>1, <2>3 DEF Nothing, Holds
<1>12. Acks' /\ Asked'
  BY <1>1, <1>2 DEF Transferred, Acks, Asked, Nothing, Holds, AtMostOne
<1>13. Stillness'
  BY <1>1 DEF Stillness
<1>14. Owned'
  <2>1. ~timely => Request = 1
    BY <1>1, LoneSends DEF Certain
  <2>2. ~timely => Of(1)'
    BY <1>1, <1>4, <2>1 DEF Owned, Of
  <2> QED
    BY <1>1, <1>2, <1>3, <2>2 DEF Owned
<1> QED
  BY <1>5, <1>7, <1>9, <1>10, <1>11, <1>12, <1>13, <1>14 DEF Transferred

\* A message that is none of an upload's, sent to the vehicle.
LEMMA SentOther ==
  ASSUME QueuesOK, Transferred, NEW type, NEW arg, Send(type, arg), type \notin {"COUNT", "ITEM"},
         UNCHANGED <<outgoing, toPlugin, vehicle, onboard>>,
         accepted' \in {accepted, NoMessage},
         Current' = Current \/ (~Current' /\ Nothing)
  PROVE  Transferred'
<1>1. /\ toVehicle' = Append(toVehicle, Message(type, arg))
      /\ Message(type, arg).type \notin {"COUNT", "ITEM"}
  BY DEF Send, Message
<1>2. /\ Announced' /\ Taken' /\ ItemsFit'
      /\ Holds(toVehicle, "COUNT")' => Holds(toVehicle, "COUNT")
      /\ Holds(toVehicle, "ITEM")' => Holds(toVehicle, "ITEM")
  BY <1>1, OutAppended DEF Transferred
<1>3. NoNearer /\ Queue(vehicle'.have)
  BY <1>2 DEF NoNearer, Transferred, Asked
<1>4. /\ Acks' /\ Asked'
      /\ Holds(toPlugin, "ACK")' => Holds(toPlugin, "ACK")
      /\ accepted'.type = "ACK" => accepted.type = "ACK"
  BY <1>3, InSame DEF Transferred
<1>5. Nothing => Nothing'
  BY <1>2, <1>4 DEF Nothing
<1>6. (\E r : Of(r))'
  BY DEF Transferred, Of
<1> QED
  BY <1>2, <1>4, <1>5, <1>6 DEF Transferred

\* The other steps of the user thread.
LEMMA UploadUser ==
  ASSUME Around, Certain, Certain', Transferred, Stillness, Owned, UserThread
  PROVE  Transferred' /\ Stillness' /\ Owned'
<1>1. ASSUME NEW n \in 1 .. MaxSize, SendCount(n)
      PROVE  Transferred' /\ Stillness' /\ Owned'
  BY <1>1, UploadSendCount
<1>2. CASE SendRequestList \/ SendSetCurrent
  <2>1. /\ user = "send" /\ Kind \in {"download", "set_current"} /\ user' = "activity"
        /\ \E type, arg : type \notin {"COUNT", "ITEM"} /\ Send(type, arg)
        /\ UNCHANGED <<activity, outgoing, toPlugin, vehicle, onboard, accepted, sys, resultCb,
                       itemsCb, commands, timely, requests>>
    BY <1>2 DEF SendRequestList, SendSetCurrent, Sending, UserUnchanged, cbVars, vehicleVars,
       historyVars, Kind
  <2>2. UNCHANGED <<Request, Kind>> /\ \A r : Of(r)' = Of(r)
    BY <2>1 DEF Request, Kind, Of
  <2>3. ~Current /\ (timely => activity = "NONE" /\ sys = "idle")
    BY <2>1, NotYet DEF Around, WaitingInv
  <2>4. ~Current'
    BY <2>1, <2>2, <2>3 DEF Current
  <2>5. Transferred'
    <3>1. Nothing
      BY <2>3 DEF Transferred
    <3>2. PICK type, arg : type \notin {"COUNT", "ITEM"} /\ Send(type, arg)
      BY <2>1
    <3>3. QueuesOK /\ UNCHANGED <<outgoing, toPlugin, vehicle, onboard>> /\ accepted' = accepted
      BY <2>1 DEF Around
    <3> QED
      BY <2>4, <3>1, <3>2, <3>3, SentOther
  <2>6. Stillness' /\ Owned'
    BY <2>1, <2>2, <2>3 DEF Stillness, Owned
  <2> QED
    BY <2>5, <2>6
<1>3. CASE SendCommand
  <2>1. /\ user = "send" /\ Kind = "start" /\ user' = "idle" /\ commands' = commands \cup {Request}
        /\ UNCHANGED <<activity, outgoing, toVehicle, toPlugin, vehicle, onboard, accepted, sys,
                       resultCb, itemsCb, timely, requests>>
    BY <1>3 DEF SendCommand, Sending, UserUnchanged, cbVars, vehicleVars, historyVars, Kind
  <2>2. UNCHANGED <<Request, Kind>> /\ \A r : Of(r)' = Of(r)
    BY <2>1 DEF Request, Kind, Of
  <2>3. ~Current /\ (timely => activity = "SEND_COMMAND")
    BY <2>1, NotYet
  <2>4. ~Current'
    BY <2>1, <2>2, <2>3 DEF Current
  <2>5. Transferred' /\ Stillness'
    <3>1. Nothing
      BY <2>3 DEF Transferred
    <3>2. Transferred'
      BY <2>1, <2>4, <3>1, Aside
    <3>3. Stillness'
      BY <2>1 DEF Stillness
    <3> QED
      BY <3>2, <3>3
  <2>6. Request \in 1 .. Len(requests)
    <3>1. requests \in Seq(Kinds) /\ requests # <<>>
      BY <2>1 DEF Around, RequestsOK
    <3>2. Len(requests) \in Nat /\ Len(requests) # 0
      BY <3>1, LenProperties, EmptySeq
    <3> QED
      BY <3>2 DEF Request
  <2>7. Owned'
    BY <2>1, <2>2, <2>3, <2>6 DEF Owned, Kind
  <2> QED
    BY <2>5, <2>7
<1>4. CASE SendFails
  BY <1>4, UploadSendFails
<1>5. CASE SetActivity
  <2>1. /\ user = "activity" /\ user' = "callback" /\ activity' = ActivityOf[Kind]
        /\ UNCHANGED <<outgoing, toVehicle, toPlugin, vehicle, onboard, accepted, sys,
                       resultCb, itemsCb, timely, requests, commands>>
    BY <1>5 DEF SetActivity, UserUnchanged, cbVars, vehicleVars, historyVars, Kind
  <2>2. UNCHANGED <<Request, Kind>> /\ \A r : Of(r)' = Of(r)
    BY <2>1 DEF Request, Kind, Of
  <2>3. Kind \in Kinds /\ (timely => activity = "NONE" /\ sys = "idle")
    BY <2>1, KindIs DEF Around, WaitingInv
  <2>4. Current' = Current
    BY <2>1, <2>2, <2>3 DEF Current, ActivityOf, Kinds
  <2>5. Transferred' /\ Stillness'
    BY <2>1, <2>4, Aside DEF Stillness
  <2>6. Owned'
    BY <2>1, <2>2 DEF Owned
  <2> QED
    BY <2>5, <2>6
<1>6. CASE SetCallback
  <2>1. /\ user = "callback" /\ user' = "idle"
        /\ IF Kind = "download" THEN itemsCb' = Request /\ UNCHANGED resultCb
                                ELSE resultCb' = Request /\ UNCHANGED itemsCb
        /\ UNCHANGED <<activity, outgoing, toVehicle, toPlugin, vehicle, onboard, accepted, sys,
                       timely, requests, commands>>
    BY <1>6 DEF SetCallback, linkVars, vehicleVars, historyVars, Kind
  <2>2. UNCHANGED <<Request, Kind>> /\ \A r : Of(r)' = Of(r)
    BY <2>1 DEF Request, Kind, Of
  <2>3. Kind \in Kinds /\ (timely => activity = ActivityOf[Kind] /\ sys = "idle" /\ Kind # "start")
    BY <2>1, KindIs DEF Around, WaitingInv, ActivityOf, Transfers
  <2>4. Current' = Current
    BY <2>1, <2>2, <2>3 DEF Current, ActivityOf, Kinds
  <2>5. Transferred' /\ Stillness'
    BY <2>1, <2>4, Aside DEF Stillness
  <2>6. Request \in 1 .. Len(requests) /\ Request # 0
    <3>1. requests \in Seq(Kinds) /\ requests # <<>>
      BY <2>1 DEF Around, RequestsOK
    <3>2. Len(requests) \in Nat /\ Len(requests) # 0
      BY <3>1, LenProperties, EmptySeq
    <3> QED
      BY <3>2 DEF Request
  <2>7. timely => (activity = "SET_MISSION" <=> Kind = "upload")
                  /\ (activity = "SET_CURRENT" <=> Kind = "set_current")
    BY <2>3 DEF ActivityOf, Kinds
  <2>8. Kind = "upload" => Of(Request)'
    BY <2>1, <2>2 DEF Owned
  <2>9. requests[Request] = Kind
    BY DEF Kind
  <2>10. timely /\ activity = "SET_MISSION" => resultCb' # 0 /\ Of(resultCb)'
    BY <2>1, <2>2, <2>6, <2>7, <2>8 DEF Of
  <2>11. timely /\ activity = "SET_CURRENT"
           => resultCb' # 0 /\ requests[resultCb'] = "set_current"
    BY <2>1, <2>6, <2>7, <2>9
  <2>12. itemsCb' # 0 => itemsCb' \in 1 .. Len(requests) /\ requests[itemsCb'] = "download"
    BY <2>1, <2>6, <2>9 DEF Owned
  <2>13. resultCb' # 0 => resultCb' \in 1 .. Len(requests)
    BY <2>1, <2>6 DEF Owned
  <2>14. ~timely => Of(1)'
    BY <2>2 DEF Owned
  <2>15. \A r \in commands : r \in 1 .. Len(requests) /\ requests[r] = "start"
    BY DEF Owned
  <2>16. Owned'
    BY <2>1, <2>10, <2>11, <2>12, <2>13, <2>14, <2>15 DEF Owned
  <2> QED
    BY <2>5, <2>16
<1> QED
  BY <1>1, <1>2, <1>3, <1>4, <1>5, <1>6 DEF UserThread

\* A message that is handled: those of an upload in an upload only.
LEMMA HandledCurrent ==
  ASSUME Around, Certain
  PROVE  /\ Handle("REQUEST_INT") \/ Handle("ACK") => Current
         /\ Handle("COUNT") \/ Handle("ITEM") \/ Handle("CURRENT") => ~Current
         /\ accepted # NoMessage => user # "send"
<1>1. CASE timely
  <2>1. accepted # NoMessage => user = "idle"
    BY <1>1 DEF Around, WaitingInv
  <2> QED
    BY <1>1, <2>1, HandledIn DEF Around, Current
<1>2. CASE ~timely
  <2>1. accepted # NoMessage => Len(requests) = 1 /\ requests # <<>>
    <3>1. requests \in Seq(Kinds) /\ Len(requests) \in Nat /\ Len(requests) <= 1
      BY <1>2, LenProperties DEF Certain, Around, RequestsOK
    <3>2. accepted # NoMessage => requests # <<>>
      BY DEF Around, OnceInv, Untouched
    <3>3. requests # <<>> => Len(requests) # 0
      BY <3>1, EmptySeq
    <3> QED
      BY <3>1, <3>2, <3>3
  <2>2. accepted # NoMessage => SingleRequest
    BY <2>1 DEF SingleRequest, OneRequest, Around, OnceInv
  <2>3. NoMessage.type = "none"
    BY DEF NoMessage, Message
  <2>4. accepted # NoMessage =>
          /\ user # "send"
          /\ Handle("REQUEST_INT") \/ Handle("ACK") => Kind = "upload"
          /\ Handle("COUNT") \/ Handle("ITEM") => Kind = "download"
          /\ Handle("CURRENT") => Kind = "set_current"
    BY <2>2, HandledKind
  <2>5. \A type \in {"REQUEST_INT", "ACK", "COUNT", "ITEM", "CURRENT"} :
          Handle(type) => accepted # NoMessage
    BY <2>3 DEF Handle
  <2> QED
    BY <1>2, <2>1, <2>4, <2>5 DEF Current
<1> QED
  BY <1>1, <1>2

\* Nothing is sent to the vehicle.
LEMMA OutSame ==
  ASSUME Announced, Taken, ItemsFit, UNCHANGED <<toVehicle, vehicle, outgoing>>,
         Current' => Current
  PROVE  Announced' /\ Taken' /\ ItemsFit'
BY DEF Announced, Taken, ItemsFit, Holds, AtMostOne, Fits

\* A step of the receive thread.
LEMMA UploadReceive ==
  ASSUME Around, Certain, Transferred, Stillness, Owned, ReceiveThread
  PROVE  Transferred' /\ Stillness' /\ Owned'
<1>1. /\ UNCHANGED <<outgoing, requests, user, sys, commands, vehicle, onboard, resultCb,
                     itemsCb, timely>>
      /\ activity' \in {activity, "NONE"}
  BY DEF ReceiveThread, Receive, ReceiveRequest, UploadItem, MissionAccepted, MissionRefused,
     CurrentSet, CountReceived, ItemUnexpected, ItemReceived, LastItemReceived, RecvUnchanged,
     cbVars, vehicleVars
<1>2. UNCHANGED <<Request, Kind>> /\ (\E r : Of(r))'
  BY <1>1 DEF Request, Kind, Of, Transferred
<1>3. Current' => Current
  BY <1>1, <1>2 DEF Current
<1>4. Owned'
  BY <1>1, OwnedSame
<1>5. /\ QueuesOK /\ Announced /\ Taken /\ ItemsFit /\ Acks /\ Asked /\ (~Current => Nothing)
      /\ Queue(vehicle'.have) /\ NoMessage.type = "none"
  BY <1>1 DEF Around, Transferred, Asked, NoMessage, Message
<1>6. CASE Receive \/ ReceiveRequest
  <2>1. /\ toPlugin # <<>> /\ toPlugin' = Tail(toPlugin) /\ UNCHANGED activity
        /\ timely => sys = "idle"
        /\ \/ accepted' = accepted
           \/ accepted = NoMessage /\ accepted' \in {Head(toPlugin), NoMessage}
        /\ UNCHANGED toVehicle \/ Send("NACK", 0)
    BY <1>6 DEF Receive, ReceiveRequest, Prompt
  <2>2. Current' = Current
    BY <1>1, <1>2, <2>1 DEF Current
  <2>3. /\ Announced' /\ Taken' /\ ItemsFit'
        /\ Holds(toVehicle, "COUNT")' => Holds(toVehicle, "COUNT")
        /\ Holds(toVehicle, "ITEM")' => Holds(toVehicle, "ITEM")
    <3>1. CASE UNCHANGED toVehicle
      BY <1>1, <1>3, <1>5, <3>1, OutSame DEF Holds
    <3>2. CASE Send("NACK", 0)
      <4>1. /\ toVehicle' = Append(toVehicle, Message("NACK", 0))
            /\ Message("NACK", 0).type \notin {"COUNT", "ITEM"}
        BY <3>2 DEF Send, Message
      <4> QED
        BY <1>1, <1>3, <1>5, <4>1, OutAppended
    <3> QED
      BY <2>1, <3>1, <3>2
  <2>4. NoNearer
    BY <1>1, <2>3 DEF NoNearer
  <2>5. /\ Acks' /\ Asked'
        /\ Holds(toPlugin, "ACK")' => Holds(toPlugin, "ACK")
        /\ accepted'.type = "ACK" => accepted.type = "ACK" \/ Holds(toPlugin, "ACK")
    BY <1>1, <1>5, <2>1, <2>4, InTailed
  <2>6. Nothing => Nothing'
    BY <1>1, <2>3, <2>5 DEF Nothing
  <2>7. Stillness'
    BY <1>1, <2>1 DEF Stillness
  <2> QED
    BY <1>2, <1>4, <1>5, <2>2, <2>3, <2>5, <2>6, <2>7 DEF Transferred
<1>7. ASSUME accepted # NoMessage PROVE Stillness'
  BY <1>1, <1>7 DEF Stillness, Around, WaitingInv
<1>8. CASE UploadItem
  <2>1. /\ accepted.type = "REQUEST_INT" /\ accepted' = NoMessage /\ Current
        /\ UNCHANGED <<activity, toPlugin>>
        /\ \/ UNCHANGED toVehicle
           \/ accepted.arg < Len(outgoing) /\ Send("ITEM", outgoing[accepted.arg + 1])
    BY <1>8, HandledCurrent DEF UploadItem, Handle
  <2>2. Current'
    BY <1>1, <1>2, <2>1 DEF Current
  <2>3. /\ Announced' /\ Taken' /\ ItemsFit'
        /\ Holds(toVehicle, "COUNT")' => Holds(toVehicle, "COUNT")
    <3>1. CASE UNCHANGED toVehicle
      BY <1>1, <1>3, <1>5, <3>1, OutSame DEF Holds
    <3>2. CASE accepted.arg < Len(outgoing) /\ Send("ITEM", outgoing[accepted.arg + 1])
      <4> DEFINE m == Message("ITEM", outgoing[accepted.arg + 1])
      <4>1. toVehicle' = Append(toVehicle, m) /\ m.type = "ITEM" /\ m.arg = outgoing[accepted.arg + 1]
        BY <3>2 DEF Send, Message
      <4>2. PICK r : Of(r)
        BY DEF Transferred
      <4>3. Len(outgoing) \in Nat
        <5>1. PICK n \in 0 .. MaxSize : outgoing = Mission(r, n)
          BY <4>2 DEF Of
        <5> QED
          BY <5>1, TransferAssumption DEF Mission
      <4>4. accepted.arg + 1 \in 1 .. Len(outgoing)
        BY <1>5, <2>1, <3>2, <4>3 DEF Asked
      <4>5. Fits(m.arg, outgoing)
        BY <4>1, <4>2, <4>4, MissionFits
      <4> HIDE DEF m
      <4> QED
        BY <1>1, <1>3, <1>5, <4>1, <4>5, OutAppended
    <3> QED
      BY <2>1, <3>1, <3>2
  <2>4. NoNearer
    BY <1>1, <2>3 DEF NoNearer
  <2>5. Acks' /\ Asked'
    BY <1>1, <1>5, <2>1, <2>4, InSame
  <2>6. Stillness'
    BY <1>5, <1>7, <2>1
  <2> QED
    BY <1>2, <1>4, <2>2, <2>3, <2>5, <2>6 DEF Transferred
<1>9. CASE MissionAccepted \/ MissionRefused
  <2>1. /\ accepted.type = "ACK" /\ accepted' = NoMessage
        /\ UNCHANGED <<toPlugin, toVehicle>>
    BY <1>9 DEF MissionAccepted, MissionRefused, Handle
  <2>2. Announced' /\ Taken' /\ ItemsFit'
    BY <1>1, <1>3, <1>5, <2>1, OutSame
  <2>3. NoNearer
    BY <1>1, <2>1 DEF NoNearer, Holds
  <2>4. Acks' /\ Asked'
    BY <1>1, <1>5, <2>1, <2>3, InSame
  <2>5. Nothing'
    BY <1>1, <1>5, <2>1 DEF Acks, Nothing, Holds
  <2>6. Stillness'
    BY <1>5, <1>7, <2>1
  <2> QED
    BY <1>2, <1>4, <2>2, <2>4, <2>5, <2>6 DEF Transferred
<1>10. CASE CurrentSet
  <2>1. /\ accepted.type = "CURRENT" /\ accepted' = NoMessage /\ ~Current
        /\ UNCHANGED <<toPlugin, toVehicle>>
    BY <1>10, HandledCurrent DEF CurrentSet, Handle
  <2>2. Announced' /\ Taken' /\ ItemsFit'
    BY <1>1, <1>3, <1>5, <2>1, OutSame
  <2>3. NoNearer
    BY <1>1, <2>1 DEF NoNearer, Holds
  <2>4. Acks' /\ Asked'
    BY <1>1, <1>5, <2>1, <2>3, InSame
  <2>5. Nothing'
    BY <1>1, <1>5, <2>1 DEF Nothing, Holds
  <2>6. Stillness'
    BY <1>5, <1>7, <2>1
  <2> QED
    BY <1>2, <1>4, <2>2, <2>4, <2>5, <2>6 DEF Transferred
<1>11. CASE \/ CountReceived \/ ItemUnexpected \/ ItemReceived
            \/ \E waypointFirst \in BOOLEAN : LastItemReceived(waypointFirst)
  <2>1. /\ accepted.type \in {"COUNT", "ITEM"} /\ accepted' = NoMessage /\ ~Current
        /\ UNCHANGED toPlugin
        /\ \E type, arg : type \notin {"COUNT", "ITEM"} /\ Send(type, arg)
    BY <1>11, HandledCurrent DEF CountReceived, ItemUnexpected, ItemReceived, LastItemReceived,
       Handle
  <2>2. PICK type, arg : type \notin {"COUNT", "ITEM"} /\ Send(type, arg)
    BY <2>1
  <2>3. ~Current' /\ Nothing
    BY <1>3, <1>5, <2>1
  <2>4. Transferred'
    BY <1>1, <1>5, <2>1, <2>2, <2>3, SentOther
  <2>5. Stillness'
    BY <1>5, <1>7, <2>1
  <2> QED
    BY <1>4, <2>4, <2>5
<1> QED
  BY <1>6, <1>8, <1>9, <1>10, <1>11 DEF ReceiveThread

\* A step of the system thread, or the plugin is disabled.
LEMMA UploadSystem ==
  ASSUME Around, Certain, Transferred, Stillness, Owned, SystemThread \/ Disable
  PROVE  Transferred' /\ Stillness' /\ Owned'
<1>1. /\ UNCHANGED <<outgoing, requests, user, commands, vehicle, onboard, resultCb, itemsCb,
                     timely, accepted, toPlugin>>
      /\ activity' \in {activity, "NONE"}
  BY DEF SystemThread, FireTimer, UploadTimedOut, DownloadTimedOut, UnknownTimeout,
     RetryDownload, GiveUpDownload, Disable, SysUnchanged, cbVars, vehicleVars
<1>2. UNCHANGED <<Request, Kind>>
  BY <1>1 DEF Request, Kind
<1>3. Owned'
  BY <1>1, OwnedSame
<1>4. ~Current => Nothing
  BY DEF Transferred
<1>5. CASE FireTimer
  <2>1. /\ UNCHANGED <<activity, toVehicle>>
        /\ timely => toVehicle = <<>> /\ toPlugin = <<>> /\ accepted = NoMessage
    BY <1>5 DEF FireTimer
  <2>2. Current' = Current
    BY <1>1, <1>2, <2>1 DEF Current
  <2>3. Transferred'
    BY <1>1, <2>1, <2>2, Aside
  <2>4. Stillness'
    BY <1>1, <2>1 DEF Stillness
  <2> QED
    BY <1>3, <2>3, <2>4
<1>6. CASE UploadTimedOut
  <2>1. sys = "timeout" /\ sys' = "idle" /\ activity' = "NONE" /\ UNCHANGED toVehicle
    BY <1>6 DEF UploadTimedOut
  <2>2. Current' = Current \/ (~Current' /\ Nothing)
    <3>1. CASE timely
      <4>1. user = "idle" /\ toVehicle = <<>> /\ toPlugin = <<>> /\ accepted = NoMessage
        BY <2>1, <3>1 DEF Stillness, Around, WaitingInv
      <4>2. Nothing
        BY <4>1, EmptyQueue DEF Nothing, NoMessage, Message
      <4> QED
        BY <1>1, <2>1, <3>1, <4>1, <4>2 DEF Current
    <3>2. CASE ~timely
      BY <1>1, <1>2, <3>2 DEF Current
    <3> QED
      BY <3>1, <3>2
  <2>3. Transferred'
    BY <1>1, <2>1, <2>2, Aside
  <2>4. Stillness'
    BY <2>1 DEF Stillness
  <2> QED
    BY <1>3, <2>3, <2>4
<1>7. CASE DownloadTimedOut \/ UnknownTimeout \/ Disable
  <2>1. /\ UNCHANGED <<activity, toVehicle>>
        /\ sys' = "idle" \/ sys = "timeout"
    BY <1>7 DEF DownloadTimedOut, UnknownTimeout, Disable
  <2>2. Current' = Current
    BY <1>1, <1>2, <2>1 DEF Current
  <2>3. Transferred'
    BY <1>1, <2>1, <2>2, Aside
  <2>4. Stillness'
    BY <1>1, <2>1 DEF Stillness
  <2> QED
    BY <1>3, <2>3, <2>4
<1>8. CASE RetryDownload
  <2>1. UNCHANGED activity /\ Send("REQUEST_INT", next) /\ sys' = "idle"
    BY <1>8 DEF RetryDownload
  <2>2. Current' = Current
    BY <1>1, <1>2, <2>1 DEF Current
  <2>3. Transferred'
    BY <1>1, <2>1, <2>2, SentOther DEF Around
  <2>4. Stillness'
    BY <2>1 DEF Stillness
  <2> QED
    BY <1>3, <2>3, <2>4
<1>9. CASE GiveUpDownload
  <2>1. sys = "retry" /\ sys' = "idle" /\ activity' = "NONE" /\ UNCHANGED toVehicle
    BY <1>9 DEF GiveUpDownload
  <2>2. Current' = Current \/ (~Current' /\ Nothing)
    BY <1>1, <1>2, <1>4, <2>1 DEF Current, Around, WaitingInv
  <2>3. Transferred'
    BY <1>1, <2>1, <2>2, Aside
  <2>4. Stillness'
    BY <2>1 DEF Stillness
  <2> QED
    BY <1>3, <2>3, <2>4
<1> QED
  BY <1>5, <1>6, <1>7, <1>8, <1>9 DEF SystemThread

\* A command is answered.
LEMMA UploadResult ==
  ASSUME Around, Certain, Transferred, Stillness, Owned,
         NEW r \in commands, NEW ok \in BOOLEAN, ReceiveCommandResult(r, ok)
  PROVE  Transferred' /\ Stillness' /\ Owned'
<1>1. /\ UNCHANGED <<outgoing, requests, user, sys, vehicle, onboard, resultCb, itemsCb,
                     timely, accepted, toPlugin, toVehicle>>
      /\ activity' = IF activity = "SEND_COMMAND" THEN "NONE" ELSE activity
      /\ commands' \subseteq commands
  BY DEF ReceiveCommandResult, dataVars, cbVars, linkVars, vehicleVars
<1>2. UNCHANGED <<Request, Kind>>
  BY <1>1 DEF Request, Kind
<1>3. Current' = Current
  BY <1>1, <1>2 DEF Current
<1>4. Transferred'
  BY <1>1, <1>3, Aside
<1>5. Stillness'
  BY <1>1 DEF Stillness
<1>6. Owned'
  BY <1>1, OwnedSame
<1> QED
  BY <1>4, <1>5, <1>6

\* A step of the vehicle or the link.
LEMMA PluginStays ==
  ASSUME Owned, PluginUnchanged
  PROVE  /\ UNCHANGED <<outgoing, requests, user, sys, accepted, activity, timely, Current>>
         /\ (\E r : Of(r)) => (\E r : Of(r))'
         /\ Owned'
<1>1. /\ UNCHANGED <<outgoing, requests, user, sys, accepted, activity, timely, resultCb, itemsCb,
                     commands>>
  BY DEF PluginUnchanged, dataVars, cbVars, historyVars
<1>2. Owned'
  BY <1>1, OwnedSame
<1>3. UNCHANGED Current /\ ((\E r : Of(r)) => (\E r : Of(r))')
  BY <1>1 DEF Current, Kind, Request, Of
<1> QED
  BY <1>1, <1>2, <1>3

\* An answer of the vehicle that is no ACK.
Answers ==
  \/ UNCHANGED toPlugin
  \/ \E type, arg : type # "ACK" /\ (type = "REQUEST_INT" => arg \in Nat) /\ Reply(type, arg)

LEMMA InAnswered ==
  ASSUME QueuesOK, Acks, Asked, NoNearer, Answers,
         UNCHANGED <<accepted, onboard, outgoing>>, Queue(vehicle'.have)
  PROVE  Acks' /\ Asked' /\ (Holds(toPlugin, "ACK")' => Holds(toPlugin, "ACK"))
<1>1. CASE UNCHANGED toPlugin
  BY <1>1, InSame
<1>2. CASE \E type, arg : type # "ACK" /\ (type = "REQUEST_INT" => arg \in Nat) /\ Reply(type, arg)
  <2>1. PICK type, arg : type # "ACK" /\ (type = "REQUEST_INT" => arg \in Nat) /\ Reply(type, arg)
    BY <1>2
  <2> QED
    BY <2>1, InAppended
<1> QED
  BY <1>1, <1>2 DEF Answers

\* A message that is no COUNT is delivered or lost, and no item is taken.
LEMMA UploadDelivered ==
  ASSUME QueuesOK, Transferred, Owned, PluginUnchanged, Answers,
         toVehicle # <<>>, toVehicle' = Tail(toVehicle),
         vehicle'.state = "GETLIST" => Head(toVehicle).type # "COUNT" /\ UNCHANGED vehicle,
         UNCHANGED onboard, Queue(vehicle'.have)
  PROVE  Transferred'
<1>1. UNCHANGED <<outgoing, accepted, Current>> /\ (\E r : Of(r))'
  BY PluginStays DEF Transferred
<1>2. /\ Announced' /\ Taken' /\ ItemsFit'
      /\ Holds(toVehicle, "COUNT")' => Holds(toVehicle, "COUNT")
      /\ Holds(toVehicle, "ITEM")' => Holds(toVehicle, "ITEM")
  BY <1>1, OutTailed DEF Transferred
<1>3. NoNearer
  BY <1>2 DEF NoNearer
<1>4. Acks' /\ Asked' /\ (Holds(toPlugin, "ACK")' => Holds(toPlugin, "ACK"))
  BY <1>1, <1>3, InAnswered DEF Transferred
<1>5. Nothing => Nothing'
  BY <1>1, <1>2, <1>4 DEF Nothing
<1> QED
  BY <1>1, <1>2, <1>4, <1>5 DEF Transferred

\* The vehicle starts to take a mission.
LEMMA UploadTaken ==
  ASSUME QueuesOK, Transferred, Owned, VehicleCount
  PROVE  Transferred'
<1> DEFINE q == toVehicle
           p == toVehicle'
<1>1. /\ q # <<>> /\ p = Tail(q) /\ Head(q).type = "COUNT" /\ PluginUnchanged
      /\ vehicle' = [state |-> "GETLIST", count |-> Head(q).arg, have |-> <<>>]
      /\ AskFor(0) /\ UNCHANGED onboard
  BY DEF VehicleCount, VehicleReceives
<1>2. UNCHANGED <<outgoing, accepted, Current>> /\ (\E r : Of(r))'
  BY <1>1, PluginStays DEF Transferred
<1>3. /\ Len(q) \in Nat /\ Len(p) = Len(q) - 1 /\ Len(q) > 0
      /\ Head(q) = q[1]
      /\ \A i \in 1 .. Len(p) : p[i] = q[i + 1]
  BY <1>1, TailedAt DEF QueuesOK
<1>4. AtMostOne(p, "COUNT") /\ ~Holds(p, "COUNT") /\ Holds(q, "COUNT")
  BY <1>1, Tailed DEF QueuesOK, Transferred, Announced
<1>5. Current
  BY <1>4 DEF Transferred, Nothing
<1>6. 1 \in 1 .. Len(q) /\ \A i \in 1 .. Len(p) : i + 1 \in 1 .. Len(q)
  BY <1>3
<1>7. Announced'
  BY <1>4 DEF Announced, Holds
<1>8. Taken'
  <2>1. Head(q).arg = Len(outgoing) /\ Len(outgoing) >= 1
    BY <1>1, <1>3, <1>6 DEF Transferred, Announced
  <2>2. vehicle'.have = <<>> /\ vehicle'.count = Len(outgoing) /\ Len(vehicle'.have) = 0
    BY <1>1, <2>1
  <2>3. PICK n \in Nat : Len(outgoing) = n
    <3>1. PICK r : Of(r)
      BY DEF Transferred
    <3>2. PICK n \in 0 .. MaxSize : outgoing = Mission(r, n)
      BY <3>1 DEF Of
    <3> QED
      BY <3>2, TransferAssumption DEF Mission
  <2> QED
    BY <1>2, <2>1, <2>2, <2>3 DEF Taken
<1>9. ItemsFit'
  <2> SUFFICES ASSUME NEW i \in 1 .. Len(p), p[i].type = "ITEM"
               PROVE  /\ Fits(p[i].arg, outgoing)
                      /\ \A j \in i .. Len(p) : p[j].type # "COUNT"
    BY <1>2 DEF ItemsFit
  <2>1. 1 \in 1 .. (i + 1) - 1 /\ q[1].type = "COUNT" /\ q[i + 1].type = "ITEM"
    BY <1>1, <1>3, <1>6
  <2>2. Fits(q[i + 1].arg, outgoing)
    BY <1>6, <2>1 DEF Transferred, ItemsFit
  <2>3. \A j \in i .. Len(p) : j \in 1 .. Len(p)
    BY <1>3
  <2> QED
    BY <1>3, <1>4, <2>2, <2>3 DEF Holds
<1>10. Acks' /\ Asked'
  <2>1. NoNearer /\ Queue(vehicle'.have)
    BY <1>1, <1>4, EmptyQueue DEF NoNearer
  <2>2. Answers
    <3>1. 0 \in Nat
      OBVIOUS
    <3> QED
      BY <1>1, <3>1 DEF AskFor, Answers
  <2> QED
    BY <1>1, <1>2, <2>1, <2>2, InAnswered DEF Transferred
<1> QED
  BY <1>2, <1>5, <1>7, <1>8, <1>9, <1>10 DEF Transferred

\* A mission is its messages.
LEMMA MissionIs ==
  ASSUME Transferred, NEW x, Queue(x), Len(x) = Len(outgoing),
         \A k \in 1 .. Len(x) : x[k] = outgoing[k]
  PROVE  x = outgoing
<1>1. PICK r : Of(r)
  BY DEF Transferred
<1>2. PICK n \in 0 .. MaxSize : outgoing = Mission(r, n)
  BY <1>1 DEF Of
<1>3. n \in Nat
  BY TransferAssumption
<1>4. outgoing = [k \in 1 .. n |-> [req |-> r, seq |-> k - 1]] /\ Len(outgoing) = n
  BY <1>2, <1>3 DEF Mission
<1>5. PICK S : x \in Seq(S)
  BY DEF Queue
<1>6. x \in [1 .. n -> S]
  BY <1>4, <1>5, LenProperties
<1>7. \A k \in 1 .. n : x[k] = outgoing[k]
  BY <1>4
<1> QED
  BY <1>4, <1>6, <1>7

\* An item is taken: it is the next of the mission.
LEMMA ItemTaken ==
  ASSUME QueuesOK, Transferred, toVehicle # <<>>, Head(toVehicle).type = "ITEM",
         vehicle.state = "GETLIST", Head(toVehicle).arg.seq = Len(vehicle.have)
  PROVE  LET have == Append(vehicle.have, Head(toVehicle).arg)
         IN  /\ Current /\ ~Holds(toVehicle, "COUNT")
             /\ vehicle.count = Len(outgoing) /\ Len(vehicle.have) < vehicle.count
             /\ Queue(have) /\ Len(have) \in Nat
             /\ \A k \in 1 .. Len(have) : have[k] = outgoing[k]
<1> DEFINE q == toVehicle
           item == Head(q).arg
           have == Append(vehicle.have, item)
<1>1. /\ Len(q) \in Nat /\ Len(q) > 0 /\ Head(q) = q[1]
  BY TailedAt DEF QueuesOK
<1>2. Fits(item, outgoing) /\ ~Holds(q, "COUNT") /\ Holds(q, "ITEM")
  BY <1>1 DEF Transferred, ItemsFit, Holds
<1>3. Current
  BY <1>2 DEF Transferred, Nothing
<1>4. /\ vehicle.count = Len(outgoing) /\ Len(vehicle.have) < vehicle.count
      /\ \A k \in 1 .. Len(vehicle.have) : vehicle.have[k] = outgoing[k]
  BY <1>2, <1>3 DEF Transferred, Taken
<1>5. Queue(vehicle.have)
  BY DEF Transferred, Asked
<1> HIDE DEF item
<1>6. /\ Len(vehicle.have) \in Nat /\ Len(have) = Len(vehicle.have) + 1
      /\ \A i \in 1 .. Len(vehicle.have) : have[i] = vehicle.have[i]
      /\ have[Len(vehicle.have) + 1] = item
  BY <1>5, AppendedAt
<1>7. item = outgoing[Len(vehicle.have) + 1]
  BY <1>2 DEF Fits, item
<1>8. Queue(have)
  BY <1>5, Appended
<1> HIDE DEF have
<1>9. \A k \in 1 .. Len(have) : have[k] = outgoing[k]
  <2> SUFFICES ASSUME NEW k \in 1 .. Len(have)
               PROVE  have[k] = outgoing[k]
    OBVIOUS
  <2>1. k \in 1 .. Len(vehicle.have) \/ k = Len(vehicle.have) + 1
    BY <1>6
  <2> QED
    BY <1>4, <1>6, <1>7, <2>1
<1> QED
  BY <1>2, <1>3, <1>4, <1>6, <1>8, <1>9 DEF have, item

\* The vehicle is sent an item: it ignores it, takes it, or has the mission complete.
LEMMA UploadItemTaken ==
  ASSUME QueuesOK, Transferred, Owned, VehicleItem
  PROVE  Transferred'
<1> DEFINE item == Head(toVehicle).arg
           have == Append(vehicle.have, item)
<1>1. /\ toVehicle # <<>> /\ toVehicle' = Tail(toVehicle) /\ Head(toVehicle).type = "ITEM"
      /\ PluginUnchanged
  BY DEF VehicleItem, VehicleReceives
<1>2. UNCHANGED <<outgoing, accepted, Current>> /\ (\E r : Of(r))'
  BY <1>1, PluginStays DEF Transferred
<1>3. CASE UNCHANGED <<vehicle, onboard, toPlugin>>
  <2>1. Queue(vehicle'.have)
    BY <1>3 DEF Transferred, Asked
  <2> QED
    BY <1>1, <1>3, <2>1, UploadDelivered DEF Answers
<1>4. CASE /\ vehicle.state = "GETLIST" /\ item.seq = Len(vehicle.have)
           /\ Len(have) < vehicle.count
           /\ vehicle' = [vehicle EXCEPT !.have = have]
           /\ Reply("REQUEST_INT", Len(have))
           /\ UNCHANGED onboard
  <2>1. /\ Current /\ ~Holds(toVehicle, "COUNT")
        /\ vehicle.count = Len(outgoing)
        /\ Queue(have) /\ Len(have) \in Nat
        /\ \A k \in 1 .. Len(have) : have[k] = outgoing[k]
    BY <1>1, <1>4, ItemTaken
  <2>2. vehicle'.state = "GETLIST" /\ vehicle'.count = vehicle.count /\ vehicle'.have = have
    BY <1>4
  <2> HIDE DEF have
  <2>3. Announced' /\ ItemsFit' /\ ~Holds(toVehicle, "COUNT")'
    BY <1>1, <1>2, <1>4, <2>1, OutTailed DEF Transferred
  <2>4. Taken'
    BY <1>2, <1>4, <2>1, <2>2 DEF Taken
  <2>5. NoNearer /\ Answers
    BY <1>4, <2>1 DEF NoNearer, Answers
  <2>6. Acks' /\ Asked'
    BY <1>2, <1>4, <2>1, <2>2, <2>5, InAnswered DEF Transferred
  <2> QED
    BY <1>2, <2>1, <2>3, <2>4, <2>6 DEF Transferred
<1>5. CASE /\ vehicle.state = "GETLIST" /\ item.seq = Len(vehicle.have)
           /\ Len(have) = vehicle.count
           /\ vehicle' = Quiet
           /\ \E a \in Ack:
                /\ onboard' = IF a = "ACCEPTED" THEN have ELSE onboard
                /\ Reply("ACK", a)
  <2>1. /\ Current /\ ~Holds(toVehicle, "COUNT")
        /\ vehicle.count = Len(outgoing)
        /\ Queue(have)
        /\ \A k \in 1 .. Len(have) : have[k] = outgoing[k]
    BY <1>1, <1>5, ItemTaken
  <2>2. PICK a \in Ack : /\ onboard' = IF a = "ACCEPTED" THEN have ELSE onboard
                         /\ Reply("ACK", a)
    BY <1>5
  <2>3. vehicle'.state = "IDLE" /\ vehicle'.have = <<>>
    BY <1>5 DEF Quiet
  <2> HIDE DEF have
  <2>4. have = outgoing
    BY <1>5, <2>1, MissionIs
  <2>5. /\ Announced' /\ Taken' /\ ItemsFit' /\ ~Holds(toVehicle, "COUNT")'
    BY <1>1, <1>2, <2>1, <2>3, OutTailed DEF Transferred
  <2> DEFINE q == toPlugin
             p == toPlugin'
             m == Message("ACK", a)
  <2>6. ~Holds(q, "ACK") /\ accepted.type # "ACK"
    BY <1>5 DEF Transferred, Acks
  <2>7. p = Append(q, m) /\ m.type = "ACK" /\ m.arg = a
    BY <2>2 DEF Reply, Message
  <2>8. /\ Len(q) \in Nat /\ Len(p) = Len(q) + 1
        /\ \A i \in 1 .. Len(q) : p[i] = q[i] /\ q[i].type # "ACK"
        /\ p[Len(q) + 1] = m
    <3>1. \A i \in 1 .. Len(q) : q[i].type # "ACK"
      BY <2>6 DEF Holds
    <3> QED
      BY <2>7, <3>1, AppendedAt DEF QueuesOK
  <2>9. \A i \in 1 .. Len(p) : i \in 1 .. Len(q) \/ i = Len(q) + 1
    BY <2>8
  <2> HIDE DEF m
  <2>10. AtMostOne(p, "ACK")
    BY <2>8, <2>9 DEF AtMostOne
  <2>11. \A i \in 1 .. Len(p) : p[i].type = "ACK" /\ p[i].arg = "ACCEPTED" => onboard' = outgoing'
    BY <1>2, <2>2, <2>4, <2>7, <2>8, <2>9
  <2>12. Acks'
    BY <1>2, <2>3, <2>5, <2>6, <2>10, <2>11 DEF Acks
  <2>13. Asked'
    BY <1>2, <2>3, <2>7, <2>8, <2>9, EmptyQueue DEF Transferred, Asked
  <2> QED
    BY <1>2, <2>1, <2>5, <2>12, <2>13 DEF Transferred
<1> QED
  BY <1>3, <1>4, <1>5 DEF VehicleItem

\* A queue is not its rest.
LEMMA Shorter == ASSUME NEW q, Queue(q), q # <<>> PROVE Tail(q) # q
<1> SUFFICES ASSUME NEW p, p = Tail(q), p = q PROVE FALSE
  OBVIOUS
<1>1. Len(p) = Len(q) - 1 /\ Len(q) \in Nat
  BY TailedAt
<1> QED
  BY <1>1

\* What the vehicle and the link do.
LEMMA UploadVehicle ==
  ASSUME Around, Certain, Certain', Transferred, Stillness, Owned,
         Delivery \/ VehicleRepeats \/ FallsSilent \/ Lose
  PROVE  Transferred' /\ Stillness' /\ Owned'
<1>1. PluginUnchanged
  BY DEF Delivery, VehicleRepeats, FallsSilent, Lose, VehicleCount, VehicleItem, VehicleNack,
     VehicleList, VehicleSendsItem, VehicleAck, VehicleSetCurrent, Unheard, VehicleReceives
<1>2. /\ UNCHANGED <<outgoing, sys, accepted, timely, Current>>
      /\ (\E r : Of(r))' /\ Owned'
  BY <1>1, PluginStays DEF Transferred
<1>3. /\ QueuesOK /\ Announced /\ Taken /\ ItemsFit /\ Acks /\ Asked /\ (~Current => Nothing)
      /\ Queue(vehicle.have) /\ Len(vehicle.have) \in Nat
  BY LenProperties DEF Around, Transferred, Asked, Queue
<1>4. Queue(Quiet.have) /\ Queue(<<>>)
  BY EmptyQueue DEF Quiet
<1>5. CASE VehicleCount
  <2>1. Stillness'
    BY <1>2, <1>5 DEF VehicleCount, VehicleReceives, Prompt, Stillness
  <2> QED
    BY <1>2, <1>3, <1>5, <2>1, UploadTaken
<1>6. CASE VehicleItem
  <2>1. Stillness'
    BY <1>2, <1>6 DEF VehicleItem, VehicleReceives, Prompt, Stillness
  <2> QED
    BY <1>2, <1>3, <1>6, <2>1, UploadItemTaken
<1>7. CASE \/ VehicleNack \/ VehicleList \/ VehicleSendsItem \/ VehicleAck \/ VehicleSetCurrent
  <2>1. /\ toVehicle # <<>> /\ toVehicle' = Tail(toVehicle) /\ UNCHANGED onboard
        /\ Head(toVehicle).type # "COUNT" /\ (timely => sys = "idle")
    BY <1>7 DEF VehicleNack, VehicleList, VehicleSendsItem, VehicleAck, VehicleSetCurrent,
       VehicleReceives, vehicleVars, Prompt
  <2>2. Answers
    BY <1>3, <1>7 DEF VehicleNack, VehicleList, VehicleSendsItem, VehicleAck, VehicleSetCurrent,
       Answers
  <2>3. UNCHANGED vehicle \/ (vehicle'.state # "GETLIST" /\ vehicle'.have = <<>>)
    BY <1>7 DEF VehicleNack, VehicleList, VehicleSendsItem, VehicleAck, VehicleSetCurrent,
       vehicleVars, Quiet
  <2>4. Queue(vehicle'.have)
    BY <1>3, <1>4, <2>3
  <2>5. Transferred'
    BY <1>1, <1>3, <2>1, <2>2, <2>3, <2>4, UploadDelivered
  <2>6. Stillness'
    BY <1>2, <2>1 DEF Stillness
  <2> QED
    BY <1>2, <2>5, <2>6
<1>8. CASE Unheard
  <2>1. toVehicle # <<>> /\ toVehicle' = <<>> /\ vehicle.state = "SILENT"
        /\ UNCHANGED <<toPlugin, vehicle, onboard>>
    BY <1>8 DEF Unheard, vehicleVars
  <2>2. Len(toVehicle') = 0 /\ \A type : ~Holds(toVehicle, type)'
    BY <2>1, EmptyQueue
  <2>3. Announced' /\ Taken' /\ ItemsFit'
    BY <2>1, <2>2, EmptyQueue DEF Announced, Taken, ItemsFit
  <2>4. NoNearer
    BY <2>1, <2>2 DEF NoNearer
  <2>5. Acks' /\ Asked'
    BY <1>2, <1>3, <2>1, <2>4, InSame
  <2>6. Nothing => Nothing'
    BY <1>2, <2>1, <2>2 DEF Nothing, Holds
  <2>7. Stillness'
    BY <1>2, <2>1 DEF Stillness
  <2> QED
    BY <1>2, <1>3, <2>3, <2>5, <2>6, <2>7 DEF Transferred
<1>9. CASE VehicleRepeats
  <2>1. UNCHANGED <<toVehicle, vehicle, onboard>> /\ (timely => sys = "idle")
    BY <1>9 DEF VehicleRepeats, vehicleVars, Prompt
  <2>2. Answers
    BY <1>3, <1>9 DEF VehicleRepeats, AskFor, Answers
  <2>3. Announced' /\ Taken' /\ ItemsFit'
    BY <1>2, <1>3, <2>1, OutSame
  <2>4. NoNearer
    BY <2>1 DEF NoNearer, Holds
  <2>5. Acks' /\ Asked' /\ (Holds(toPlugin, "ACK")' => Holds(toPlugin, "ACK"))
    BY <1>2, <1>3, <2>1, <2>2, <2>4, InAnswered
  <2>6. Nothing => Nothing'
    BY <1>2, <2>1, <2>5 DEF Nothing, Holds
  <2>7. Stillness'
    BY <1>2, <2>1 DEF Stillness
  <2> QED
    BY <1>2, <1>3, <2>3, <2>5, <2>6, <2>7 DEF Transferred
<1>10. CASE FallsSilent
  <2>1. /\ UNCHANGED <<toVehicle, toPlugin, onboard>>
        /\ vehicle'.state = "SILENT" /\ vehicle'.have = <<>>
    BY <1>10 DEF FallsSilent, linkVars, Quiet
  <2>2. Announced' /\ Taken'
    BY <1>2, <1>3, <2>1 DEF Announced, Taken, AtMostOne
  <2>3. ItemsFit'
    BY <1>2, <1>3, <2>1 DEF ItemsFit, Fits
  <2>4. NoNearer
    BY <2>1 DEF NoNearer, Holds
  <2>5. Acks' /\ Asked'
    BY <1>2, <1>3, <1>4, <2>1, <2>4, InSame
  <2>6. Nothing => Nothing'
    BY <1>2, <2>1 DEF Nothing, Holds
  <2>7. Stillness'
    BY <1>2, <2>1 DEF Stillness
  <2> QED
    BY <1>2, <1>3, <2>2, <2>3, <2>5, <2>6, <2>7 DEF Transferred
<1>11. CASE Lose /\ UNCHANGED toPlugin /\ toVehicle # <<>> /\ toVehicle' = Tail(toVehicle)
  <2>1. UNCHANGED <<vehicle, onboard>>
    BY <1>11 DEF Lose, vehicleVars
  <2>2. vehicle'.state = "GETLIST" => Head(toVehicle).type # "COUNT" /\ UNCHANGED vehicle
    BY <1>11, <2>1, Shorter DEF Lose, Certain
  <2>3. Transferred'
    BY <1>1, <1>3, <1>11, <2>1, <2>2, UploadDelivered DEF Answers
  <2>4. Stillness'
    BY <1>2, <1>11 DEF Stillness
  <2> QED
    BY <1>2, <2>3, <2>4
<1>12. CASE Lose /\ UNCHANGED toVehicle /\ toPlugin # <<>> /\ toPlugin' = Tail(toPlugin)
  <2>1. UNCHANGED <<vehicle, onboard>>
    BY <1>12 DEF Lose, vehicleVars
  <2>2. Announced' /\ Taken' /\ ItemsFit'
    BY <1>2, <1>3, <1>12, <2>1, OutSame
  <2>3. NoNearer
    BY <1>12, <2>1 DEF NoNearer, Holds
  <2>4. Acks' /\ Asked' /\ (Holds(toPlugin, "ACK")' => Holds(toPlugin, "ACK"))
    BY <1>2, <1>3, <1>12, <2>1, <2>3, InTailed
  <2>5. Nothing => Nothing'
    BY <1>2, <1>12, <2>1, <2>4 DEF Nothing, Holds
  <2>6. Stillness'
    BY <1>2, <1>12 DEF Stillness
  <2> QED
    BY <1>2, <1>3, <2>2, <2>4, <2>5, <2>6 DEF Transferred
<1>13. CASE Lose
  BY <1>11, <1>12, <1>13 DEF Lose
<1> QED
  BY <1>5, <1>6, <1>7, <1>8, <1>9, <1>10, <1>13 DEF Delivery

LEMMA UploadStart == TransferInit => UploadInv
<1> SUFFICES ASSUME TransferInit PROVE UploadInv
  OBVIOUS
<1>1. /\ toVehicle = <<>> /\ toPlugin = <<>> /\ accepted = NoMessage /\ vehicle = Quiet
      /\ outgoing = <<>> /\ requests = <<>> /\ user = "idle" /\ activity = "NONE"
      /\ resultCb = 0 /\ itemsCb = 0 /\ commands = {} /\ sys = "idle"
  BY DEF TransferInit
<1>2. Len(toVehicle) = 0 /\ Len(toPlugin) = 0
      /\ \A type : /\ ~Holds(toVehicle, type) /\ ~Holds(toPlugin, type)
                   /\ AtMostOne(toVehicle, type) /\ AtMostOne(toPlugin, type)
  BY <1>1, EmptyQueue
<1>3. NoMessage.type = "none" /\ vehicle.state = "IDLE" /\ Queue(vehicle.have)
  BY <1>1, EmptyQueue DEF NoMessage, Message, Quiet
<1>4. \A r : Of(r)
  <2>1. \A r : Mission(r, 0) = <<>>
    BY DEF Mission
  <2>2. 0 \in 0 .. MaxSize
    BY TransferAssumption
  <2> QED
    BY <1>1, <2>1, <2>2 DEF Of
<1>5. Announced /\ Taken /\ ItemsFit /\ Acks /\ Asked /\ Nothing
  BY <1>1, <1>2, <1>3 DEF Announced, Taken, ItemsFit, Acks, Asked, Nothing
<1>6. Stillness /\ Owned
  BY <1>1, <1>4 DEF Stillness, Owned
<1> QED
  BY <1>4, <1>5, <1>6 DEF UploadInv, Transferred

LEMMA UploadStutter == ASSUME UploadInv, UNCHANGED vars PROVE UploadInv'
<1>1. UNCHANGED <<activity, outgoing, resultCb, itemsCb, user, accepted, sys, commands, toVehicle,
                  toPlugin, vehicle, onboard, lost, requests, timely>>
  BY DEF vars
<1>2. UNCHANGED <<Kind, Request, Certain>>
  BY <1>1 DEF Kind, Request, Certain
<1>3. UNCHANGED <<Current, Nothing>>
  BY <1>1, <1>2 DEF Current, Nothing, Holds
<1>4. ASSUME Certain, Transferred PROVE Transferred'
  BY <1>1, <1>3, <1>4, Aside
<1>5. ASSUME Owned PROVE Owned'
  BY <1>1, <1>5, OwnedSame
<1>6. ASSUME Stillness PROVE Stillness'
  BY <1>1, <1>6 DEF Stillness
<1> QED
  BY <1>2, <1>4, <1>5, <1>6 DEF UploadInv

\* What is uncertain stays so.
LEMMA CertainBefore ==
  ASSUME RequestsOK, TransferNext, Certain'
  PROVE  Certain
<1>1. timely' = timely
  BY TimelyStays
<1>2. lost.announcement => lost'.announcement
  <2>1. UNCHANGED lost \/ Lose
    BY DEF TransferNext, Call, UserThread, SendCount, SendRequestList, SendSetCurrent,
       SendCommand, SendFails, SetActivity, SetCallback, UserUnchanged, linkVars, ReceiveThread,
       Receive, ReceiveRequest, UploadItem, MissionAccepted, MissionRefused, CurrentSet,
       CountReceived, ItemUnexpected, ItemReceived, LastItemReceived, RecvUnchanged,
       SystemThread, FireTimer, UploadTimedOut, DownloadTimedOut, UnknownTimeout, RetryDownload,
       GiveUpDownload, Disable, SysUnchanged, ReceiveCommandResult, Delivery, VehicleCount,
       VehicleItem, VehicleNack, VehicleList, VehicleSendsItem, VehicleAck, VehicleSetCurrent,
       Unheard, VehicleReceives, VehicleRepeats, FallsSilent
  <2>2. ASSUME Lose, lost.announcement PROVE lost'.announcement
    <3>1. CASE lost' = [messages     |-> lost.messages + 1,
                        announcement |-> \/ lost.announcement
                                         \/ /\ Head(toVehicle).type = "COUNT"
                                            /\ vehicle.state = "GETLIST"]
      <4>1. lost'.announcement = \/ lost.announcement
                                 \/ /\ Head(toVehicle).type = "COUNT"
                                    /\ vehicle.state = "GETLIST"
        BY <3>1
      <4> QED
        BY <2>2, <4>1, Zenon
    <3>2. CASE lost' = [lost EXCEPT !.messages = @ + 1]
      BY <2>2, <3>2
    <3> QED
      BY <2>2, <3>1, <3>2 DEF Lose
  <2> QED
    BY <2>1, <2>2
<1>3. Len(requests') <= 1 => Len(requests) <= 1
  <2>1. UNCHANGED requests \/ \E kind \in Kinds : Call(kind)
    BY DEF TransferNext, UserThread, SendCount, SendRequestList, SendSetCurrent,
       SendCommand, SendFails, SetActivity, SetCallback, historyVars, ReceiveThread,
       Receive, ReceiveRequest, UploadItem, MissionAccepted, MissionRefused, CurrentSet,
       CountReceived, ItemUnexpected, ItemReceived, LastItemReceived, RecvUnchanged,
       SystemThread, FireTimer, UploadTimedOut, DownloadTimedOut, UnknownTimeout, RetryDownload,
       GiveUpDownload, Disable, SysUnchanged, ReceiveCommandResult, Delivery, VehicleCount,
       VehicleItem, VehicleNack, VehicleList, VehicleSendsItem, VehicleAck, VehicleSetCurrent,
       Unheard, VehicleReceives, VehicleRepeats, FallsSilent, Lose, PluginUnchanged
  <2>2. ASSUME NEW kind \in Kinds, Call(kind)
        PROVE  Len(requests') = Len(requests) + 1 /\ Len(requests) \in Nat
    BY <2>2, AppendProperties, LenProperties DEF Call, RequestsOK
  <2> QED
    BY <2>1, <2>2
<1> QED
  BY <1>1, <1>2, <1>3 DEF Certain

LEMMA UploadStep ==
  ASSUME Around, UploadInv, TransferNext
  PROVE  UploadInv'
<1> SUFFICES ASSUME Certain' PROVE Transferred' /\ Stillness' /\ Owned'
  BY DEF UploadInv
<1>1. Certain /\ Transferred /\ Stillness /\ Owned
  BY CertainBefore DEF UploadInv, Around
<1>2. ASSUME NEW kind \in Kinds, Call(kind)
      PROVE  Transferred' /\ Stillness' /\ Owned'
  BY <1>1, <1>2, UploadCall
<1>3. ASSUME NEW r \in commands, NEW ok \in BOOLEAN, ReceiveCommandResult(r, ok)
      PROVE  Transferred' /\ Stillness' /\ Owned'
  BY <1>1, <1>3, UploadResult
<1> QED
  BY <1>1, <1>2, <1>3, UploadUser, UploadReceive, UploadSystem, UploadVehicle DEF TransferNext

\* The callbacks invoked, in order.
LEMMA AnswersStep ==
  ASSUME TransferNext
  PROVE  \/ UNCHANGED answers
         \/ \E r, result, got :
              r # 0 /\ answers' = Append(answers, [req |-> r, result |-> result, items |-> got])
<1>1. ASSUME UNCHANGED answers \/ \E r, result, got : Answer(r, result, got)
      PROVE  \/ UNCHANGED answers
             \/ \E r, result, got :
                  r # 0 /\ answers' = Append(answers, [req |-> r, result |-> result, items |-> got])
  BY <1>1, Zenon DEF Answer
<1>2. UNCHANGED answers \/ \E r, result, got : Answer(r, result, got)
  BY DEF TransferNext, Call, UserThread, SendCount, SendRequestList, SendSetCurrent,
     SendCommand, SendFails, SetActivity, SetCallback, historyVars, ReceiveThread,
     Receive, ReceiveRequest, UploadItem, MissionAccepted, MissionRefused, CurrentSet,
     CountReceived, ItemUnexpected, ItemReceived, LastItemReceived, RecvUnchanged,
     SystemThread, FireTimer, UploadTimedOut, DownloadTimedOut, UnknownTimeout, RetryDownload,
     GiveUpDownload, Disable, SysUnchanged, ReceiveCommandResult, Delivery, VehicleCount,
     VehicleItem, VehicleNack, VehicleList, VehicleSendsItem, VehicleAck, VehicleSetCurrent,
     Unheard, VehicleReceives, VehicleRepeats, FallsSilent, Lose, PluginUnchanged
<1> QED
  BY <1>1, <1>2

\* What is reported is the last answer.
LEMMA ReportedIs ==
  ASSUME Queue(answers), NEW r, NEW result, NEW got, Answer(r, result, got),
         NEW kind, NEW res, Reported(kind, res)
  PROVE  r # 0 /\ Last(answers').req = r /\ result = res /\ requests'[r] = kind
<1> DEFINE m == [req |-> r, result |-> result, items |-> got]
<1>1. Len(answers) \in Nat
  BY LenProperties DEF Queue
<1>2. r # 0 /\ answers' = Append(answers, m)
  BY <1>1 DEF Answer, Reported
<1>3. m.req = r /\ m.result = result
  OBVIOUS
<1> HIDE DEF m
<1>4. Len(answers') = Len(answers) + 1 /\ answers'[Len(answers) + 1] = m
  BY <1>2, AppendedAt
<1>5. Last(answers') = m
  BY <1>4 DEF Last
<1> QED
  BY <1>2, <1>3, <1>5 DEF Reported

\* Nothing is reported by a step that answers nobody.
LEMMA Unreported ==
  ASSUME Queue(answers), UNCHANGED answers, NEW kind, NEW res
  PROVE  ~Reported(kind, res)
<1>1. Len(answers) \in Nat
  BY LenProperties DEF Queue
<1> QED
  BY <1>1 DEF Reported

\* A good ACK speaks of the mission of result_callback, and of what the vehicle has.
LEMMA AcceptedIsStored ==
  ASSUME Around, Certain, Transferred, Owned, MissionAccepted, resultCb # 0
  PROVE  onboard = outgoing /\ \A k \in DOMAIN onboard : onboard[k].req = resultCb
<1>1. Handle("ACK") /\ accepted.type = "ACK" /\ accepted.arg = "ACCEPTED"
  BY DEF MissionAccepted, Handle
<1>2. onboard = outgoing
  BY <1>1 DEF Transferred, Acks
<1>3. Of(resultCb)
  <2>1. CASE timely
    <3>1. activity = "SET_MISSION" /\ user = "idle"
      BY <1>1, <2>1, HandledIn DEF Around
    <3> QED
      BY <2>1, <3>1 DEF Owned
  <2>2. CASE ~timely
    <3>1. requests \in Seq(Kinds) /\ Len(requests) \in Nat /\ Len(requests) <= 1
      BY <2>2, LenProperties DEF Certain, Around, RequestsOK
    <3>2. resultCb \in 1 .. Len(requests) /\ Of(1)
      BY <2>2 DEF Owned
    <3>3. resultCb = 1
      BY <3>1, <3>2
    <3> QED
      BY <3>2, <3>3
  <2> QED
    BY <2>1, <2>2
<1>4. PICK n \in 0 .. MaxSize : outgoing = Mission(resultCb, n)
  BY <1>3 DEF Of
<1>5. DOMAIN outgoing = 1 .. n /\ Len(outgoing) = n
  BY <1>4, TransferAssumption DEF Mission
<1> QED
  BY <1>2, <1>3, <1>5, MissionFits

\* A MISSION_CURRENT answers a request that is no upload.
LEMMA CurrentIsAsked ==
  ASSUME Around, Certain, Owned, CurrentSet, resultCb # 0
  PROVE  requests[resultCb] = "set_current"
<1>1. Handle("CURRENT") /\ accepted.type = "CURRENT"
  BY DEF CurrentSet, Handle
<1>2. CASE timely
  <2>1. activity = "SET_CURRENT" /\ user = "idle"
    BY <1>1, <1>2, HandledIn DEF Around
  <2> QED
    BY <1>2, <2>1 DEF Owned
<1>3. CASE ~timely
  <2>1. requests \in Seq(Kinds) /\ Len(requests) \in Nat /\ Len(requests) <= 1
    BY <1>3, LenProperties DEF Certain, Around, RequestsOK
  <2>2. resultCb \in 1 .. Len(requests)
    BY DEF Owned
  <2>3. resultCb = 1 /\ Len(requests) = 1
    <3>1. \A n \in Nat : \A r \in 1 .. n : n <= 1 => r = 1 /\ n = 1
      OBVIOUS
    <3> QED
      BY <2>1, <2>2, <3>1
  <2>4. SingleRequest
    BY <2>3 DEF SingleRequest, OneRequest, Around, OnceInv
  <2>5. Kind = "set_current" /\ Request = 1
    BY <1>1, <2>3, <2>4, HandledKind DEF Request
  <2> QED
    BY <2>3, <2>5 DEF Kind
<1> QED
  BY <1>2, <1>3

\* What an upload is told.
LEMMA UploadReported ==
  ASSUME Around, UploadInv, Certain, Queue(answers), TransferNext, Reported("upload", "SUCCESS")
  PROVE  onboard = outgoing /\ \A k \in DOMAIN onboard : onboard[k].req = Last(answers').req
<1>1. Transferred /\ Stillness /\ Owned
  BY DEF UploadInv
<1>2. ~UNCHANGED answers
  BY Unreported
<1>3. \A r, result, got : Answer(r, result, got) =>
        r # 0 /\ Last(answers').req = r /\ result = "SUCCESS" /\ requests'[r] = "upload"
  BY ReportedIs
<1>4. ASSUME NEW kind \in Kinds, Call(kind) PROVE FALSE
  BY <1>2, <1>3, <1>4 DEF Call
<1>5. ~UserThread
  BY <1>2, <1>3 DEF UserThread, SendCount, SendRequestList, SendSetCurrent, SendCommand,
     SendFails, SetActivity, SetCallback, historyVars
<1>6. ~SystemThread /\ ~Disable
  BY <1>2, <1>3 DEF SystemThread, FireTimer, UploadTimedOut, DownloadTimedOut, UnknownTimeout,
     RetryDownload, GiveUpDownload, Disable
<1>7. ASSUME NEW r \in commands, NEW ok \in BOOLEAN, ReceiveCommandResult(r, ok)
      PROVE  FALSE
  <2>1. requests'[r] = "upload" /\ UNCHANGED requests
    BY <1>3, <1>7 DEF ReceiveCommandResult
  <2> QED
    BY <1>1, <2>1 DEF Owned
<1>8. ~(Delivery \/ VehicleRepeats \/ FallsSilent \/ Lose)
  BY <1>2 DEF Delivery, VehicleRepeats, FallsSilent, Lose, VehicleCount, VehicleItem, VehicleNack,
     VehicleList, VehicleSendsItem, VehicleAck, VehicleSetCurrent, Unheard, VehicleReceives,
     PluginUnchanged, historyVars
<1>9. CASE ReceiveThread
  <2>1. UNCHANGED requests
    BY <1>9 DEF ReceiveThread, Receive, ReceiveRequest, UploadItem, MissionAccepted,
       MissionRefused, CurrentSet, CountReceived, ItemUnexpected, ItemReceived, LastItemReceived,
       RecvUnchanged
  <2>2. ~(Receive \/ ReceiveRequest \/ UploadItem \/ CountReceived \/ ItemUnexpected \/ ItemReceived)
    BY <1>2 DEF Receive, ReceiveRequest, UploadItem, CountReceived, ItemUnexpected, ItemReceived
  <2>3. ~MissionRefused
    BY <1>3 DEF MissionRefused
  <2>4. ASSUME NEW waypointFirst \in BOOLEAN, LastItemReceived(waypointFirst) PROVE FALSE
    <3>1. PICK got : Answer(itemsCb, "SUCCESS", got)
      BY <1>2, <2>4 DEF LastItemReceived
    <3>2. itemsCb # 0 /\ requests[itemsCb] = "upload"
      BY <1>3, <2>1, <3>1
    <3> QED
      BY <1>1, <3>2 DEF Owned
  <2>5. ~CurrentSet
    <3> SUFFICES ASSUME CurrentSet PROVE FALSE
      OBVIOUS
    <3>1. resultCb # 0 /\ requests[resultCb] = "upload"
      BY <1>3, <2>1 DEF CurrentSet
    <3> QED
      BY <1>1, <3>1, CurrentIsAsked
  <2>6. MissionAccepted
    BY <1>9, <2>2, <2>3, <2>4, <2>5 DEF ReceiveThread
  <2>7. resultCb # 0 /\ Last(answers').req = resultCb
    BY <1>3, <2>6 DEF MissionAccepted
  <2> QED
    BY <1>1, <2>6, <2>7, AcceptedIsStored
<1> QED
  BY <1>4, <1>5, <1>6, <1>7, <1>8, <1>9 DEF TransferNext

\* An upload that is reported as successful is the mission the vehicle has, complete and in
\* order, at that moment, for any number of operations, of messages and of losses: if the
\* vehicle answers in time or the operation is on its own, and no announcement is lost to
\* a vehicle that still waits for an earlier mission.
THEOREM UploadsAreStored == TransferSpec => UploadStored
<1> DEFINE All == Around /\ UploadInv /\ Queue(answers)
<1>1. TransferInit => All
  BY RequestsStart, OnceStart, WaitingStart, UploadStart, EmptyQueue DEF Around, TransferInit
<1>2. All /\ [TransferNext]_vars => All'
  <2>1. ASSUME All, TransferNext
        PROVE  All'
    <3>1. UploadInv'
      BY <2>1, UploadStep
    <3>2. Around'
      BY <2>1, RequestsStep, QueuesStep, OnceStep, TimelyStays, WaitingStep DEF Around
    <3>3. Queue(answers')
      BY <2>1, AnswersStep, Appended
    <3> QED
      BY <3>1, <3>2, <3>3
  <2>2. ASSUME All, UNCHANGED vars
        PROVE  All'
    <3>1. UNCHANGED <<requests, user, timely, answers>>
      BY <2>2 DEF vars
    <3>2. Around'
      BY <2>2, <3>1, OnceStutter, WaitingStutter DEF RequestsOK, Around
    <3> QED
      BY <2>2, <3>1, <3>2, UploadStutter
  <2> QED
    BY <2>1, <2>2
<1>3. ASSUME All, TransferNext, Reported("upload", "SUCCESS"), ~lost.announcement,
             timely \/ Len(requests) <= 1
      PROVE  onboard = outgoing /\ \A k \in DOMAIN onboard : onboard[k].req = Last(answers').req
  BY <1>3, UploadReported DEF Certain
<1>4. All /\ [TransferNext]_vars =>
        [/\ Reported("upload", "SUCCESS")
         /\ ~lost.announcement
         /\ timely \/ Len(requests) <= 1
         => /\ onboard = outgoing
            /\ \A k \in DOMAIN onboard : onboard[k].req = Last(answers').req]_vars
  BY <1>3
<1> QED
  BY <1>1, <1>2, <1>4, PTL DEF TransferSpec, UploadStored

\* What is proved of the transfer on its own holds beside the other views.
THEOREM ViewsHaveTransfers == Spec => TransferSpec
<1>1. Init => TransferInit
  BY DEF Init
<1>2. [Next]_viewVars => [TransferNext]_vars
  BY DEF Next, MissionView, TransferView, SettingsView, TelemetryView, viewVars
<1> QED
  BY <1>1, <1>2, PTL DEF Spec, TransferSpec

-----------------------------------------------------------------------------
(* Least elements and induction *)

\* The least element of a set of naturals.
LEMMA LeastNatural ==
  ASSUME NEW T, T \subseteq Nat, T # {}
  PROVE  \E n \in T : \A m \in T : n <= m
<1> DEFINE R == OpToRel(<, Nat)
<1>1. IsWellFoundedOn(R, Nat)
  BY NatLessThanWellFounded, Zenon
<1>2. R = {ss \in Nat \X Nat : ss[1] < ss[2]}
  BY Zenon DEF OpToRel
<1> HIDE DEF R
<1>3. PICK n \in T : \A m \in T : ~(<<m, n>> \in R)
  BY <1>1, WFMin
<1>4. \A m \in T : ~(m < n)
  BY <1>2, <1>3
<1> QED
  BY <1>4

\* Induction, for the set of the numbers that have a property.
LEMMA Induction ==
  ASSUME NEW I, I \subseteq Nat, 0 \in I, \A n \in I : n + 1 \in I
  PROVE  I = Nat
<1> SUFFICES ASSUME Nat \ I # {} PROVE FALSE
  OBVIOUS
<1>1. PICK n \in Nat \ I : \A m \in Nat \ I : n <= m
  BY LeastNatural
<1>2. n - 1 \in Nat /\ n - 1 \in I
  BY <1>1
<1> QED
  BY <1>1, <1>2

-----------------------------------------------------------------------------
(* FlattenSeq *)

IsFlatten(f, ss, n) == f = [i \in 1 .. n |-> IF i = 1 THEN ss[i] ELSE f[i - 1] \o ss[i]]

LEMMA FlattenAt ==
  ASSUME NEW ss, NEW n, NEW f, IsFlatten(f, ss, n), NEW i \in 1 .. n
  PROVE  f[i] = IF i = 1 THEN ss[i] ELSE f[i - 1] \o ss[i]
BY Zenon DEF IsFlatten

LEMMA FlattenExists ==
  ASSUME NEW ss, NEW n \in Nat
  PROVE  \E f : IsFlatten(f, ss, n)
<1> DEFINE I == {m \in Nat : \E f : IsFlatten(f, ss, m)}
<1>1. 0 \in I
  <2> DEFINE f == [i \in 1 .. 0 |-> <<>>]
  <2>1. IsFlatten(f, ss, 0)
    BY DEF IsFlatten
  <2> QED
    BY <2>1
<1>2. ASSUME NEW m \in I PROVE m + 1 \in I
  <2>1. PICK f : IsFlatten(f, ss, m)
    BY <1>2
  <2> DEFINE g == [i \in 1 .. m + 1 |-> IF i = 1 THEN ss[i] ELSE f[i - 1] \o ss[i]]
  <2>2. m \in Nat
    BY <1>2
  <2>3. \A i \in 1 .. m : g[i] = f[i]
    <3> SUFFICES ASSUME NEW i \in 1 .. m PROVE g[i] = f[i]
      OBVIOUS
    <3>1. f[i] = IF i = 1 THEN ss[i] ELSE f[i - 1] \o ss[i]
      BY <2>1, FlattenAt
    <3>2. i \in 1 .. m + 1
      BY <2>2
    <3> QED
      BY <3>1, <3>2
  <2>4. \A i \in 1 .. m + 1 : i # 1 => i - 1 \in 1 .. m
    BY <2>2
  <2>5. IsFlatten(g, ss, m + 1)
    BY <2>3, <2>4 DEF IsFlatten
  <2> QED
    BY <2>2, <2>5
<1>3. I \subseteq Nat
  OBVIOUS
<1> HIDE DEF I
<1>4. I = Nat
  BY <1>1, <1>2, <1>3, Induction
<1> QED
  BY <1>4 DEF I

LEMMA FlattenUp ==
  ASSUME NEW ss, NEW n, NEW f, IsFlatten(f, ss, n)
  PROVE  /\ 1 \in 1 .. n => f[1] = ss[1]
         /\ \A i \in 1 .. n : i # 1 => f[i] = f[i - 1] \o ss[i]
BY Zenon DEF IsFlatten

\* The function that the definition of FlattenSeq chooses
Flattening(ss, n) == CHOOSE f : IsFlatten(f, ss, n)

LEMMA FlattenBy ==
  ASSUME NEW ss, NEW n \in Nat \ {0}
  PROVE  /\ Flattening(ss, n)[1] = ss[1]
         /\ \A i \in 1 .. n : i # 1 => Flattening(ss, n)[i] = Flattening(ss, n)[i - 1] \o ss[i]
<1>1. \E f : IsFlatten(f, ss, n)
  BY FlattenExists
<1>2. IsFlatten(Flattening(ss, n), ss, n)
  BY <1>1, Zenon DEF Flattening
<1>3. 1 \in 1 .. n
  OBVIOUS
<1>4. /\ 1 \in 1 .. n => Flattening(ss, n)[1] = ss[1]
      /\ \A i \in 1 .. n : i # 1 => Flattening(ss, n)[i] = Flattening(ss, n)[i - 1] \o ss[i]
  BY ONLY <1>2, Zenon DEF IsFlatten
<1> QED
  BY <1>3, <1>4, Zenon

LEMMA Flattened ==
  ASSUME NEW ss, Len(ss) \in Nat, Len(ss) # 0
  PROVE  \E f : /\ f[1] = ss[1]
                /\ \A i \in 1 .. Len(ss) : i # 1 => f[i] = f[i - 1] \o ss[i]
                /\ FlattenSeq(ss) = f[Len(ss)]
<1>1. FlattenSeq(ss) = Flattening(ss, Len(ss))[Len(ss)]
  BY DEF FlattenSeq, Flattening, IsFlatten
<1>2. Len(ss) \in Nat \ {0}
  OBVIOUS
<1> QED
  BY <1>1, <1>2, FlattenBy

LEMMA FlattenType ==
  ASSUME NEW S, NEW ss \in Seq(Seq(S))
  PROVE  FlattenSeq(ss) \in Seq(S)
<1>0. Len(ss) \in Nat /\ \A i \in 1 .. Len(ss) : ss[i] \in Seq(S)
  BY LenProperties, ElementOfSeq
<1>1. CASE Len(ss) = 0
  <2>1. ss = <<>>
    BY <1>1, EmptySeq
  <2> QED
    BY <1>1, <2>1, EmptySeq DEF FlattenSeq
<1>2. CASE Len(ss) # 0
  <2>1. PICK f : /\ f[1] = ss[1]
                 /\ \A i \in 1 .. Len(ss) : i # 1 => f[i] = f[i - 1] \o ss[i]
                 /\ FlattenSeq(ss) = f[Len(ss)]
    BY <1>0, <1>2, Flattened
  <2> DEFINE I == {n \in Nat : n + 1 \in 1 .. Len(ss) => f[n + 1] \in Seq(S)}
  <2>2. 0 \in I
    BY <1>0, <2>1
  <2>3. ASSUME NEW n \in I PROVE n + 1 \in I
    <3> SUFFICES ASSUME n + 2 \in 1 .. Len(ss) PROVE f[n + 2] \in Seq(S)
      OBVIOUS
    <3>1. n + 2 \in 1 .. Len(ss) /\ n + 2 # 1 /\ (n + 2) - 1 = n + 1 /\ f[n + 1] \in Seq(S)
      BY <1>0
    <3>2. f[n + 2] = f[n + 1] \o ss[n + 2]
      BY <2>1, <3>1
    <3> QED
      BY <1>0, <3>1, <3>2, ConcatProperties
  <2>4. I \subseteq Nat
    OBVIOUS
  <2> HIDE DEF I
  <2>5. I = Nat
    BY <2>2, <2>3, <2>4, Induction
  <2>6. Len(ss) - 1 \in I /\ (Len(ss) - 1) + 1 = Len(ss) /\ Len(ss) \in 1 .. Len(ss)
    BY <1>0, <1>2, <2>5
  <2> QED
    BY <2>1, <2>6 DEF I
<1> QED
  BY <1>1, <1>2

-----------------------------------------------------------------------------
(* The messages of a mission *)

PlanCommand == {"WAYPOINT", "CHANGE_SPEED", "MOUNT_CONFIGURE", "MOUNT_CONTROL", "LOITER_TIME",
            "CAMERA"}
ItemMessage == [command : PlanCommand, item : Int]

LEMMA MessageForType ==
  ASSUME NEW is, NEW i \in Int, NEW c \in PlanCommand
  PROVE  MessageFor(is, i, c) \in Seq(ItemMessage)
<1>1. [command |-> c, item |-> i - 1] \in ItemMessage
  BY DEF ItemMessage
<1>2. <<>> \in Seq(ItemMessage) /\ <<[command |-> c, item |-> i - 1]>> \in Seq(ItemMessage)
  BY <1>1
<1> QED
  BY <1>2, Zenon DEF MessageFor

LEMMA ItemMessagesType ==
  ASSUME NEW is, NEW i \in Int
  PROVE  ItemMessages(is, i) \in Seq(ItemMessage)
<1>1. \A c \in PlanCommand : MessageFor(is, i, c) \in Seq(ItemMessage)
  BY MessageForType
<1>2. /\ MessageFor(is, i, "WAYPOINT") \in Seq(ItemMessage)
      /\ MessageFor(is, i, "CHANGE_SPEED") \in Seq(ItemMessage)
      /\ MessageFor(is, i, "MOUNT_CONFIGURE") \in Seq(ItemMessage)
      /\ MessageFor(is, i, "MOUNT_CONTROL") \in Seq(ItemMessage)
      /\ MessageFor(is, i, "LOITER_TIME") \in Seq(ItemMessage)
      /\ MessageFor(is, i, "CAMERA") \in Seq(ItemMessage)
  BY <1>1 DEF PlanCommand
<1>3. ASSUME NEW a \in Seq(ItemMessage), NEW b \in Seq(ItemMessage)
      PROVE  a \o b \in Seq(ItemMessage)
  BY ConcatProperties
<1> QED
  BY <1>2, <1>3, Zenon DEF ItemMessages

LEMMA MissionMessages ==
  ASSUME NEW is \in Seq(SUBSET Part)
  PROVE  FlattenSeq([i \in DOMAIN is |-> ItemMessages(is, i)]) \in Seq(ItemMessage)
<1> DEFINE ss == [i \in DOMAIN is |-> ItemMessages(is, i)]
<1>1. Len(is) \in Nat /\ DOMAIN is = 1 .. Len(is)
  BY LenProperties
<1>2. \A i \in 1 .. Len(is) : ItemMessages(is, i) \in Seq(ItemMessage)
  BY <1>1, ItemMessagesType
<1>3. ss \in [1 .. Len(is) -> Seq(ItemMessage)]
  BY <1>1, <1>2
<1>4. ss \in Seq(Seq(ItemMessage))
  BY <1>1, <1>3, SeqDef
<1> HIDE DEF ss
<1>5. FlattenSeq(ss) \in Seq(ItemMessage)
  BY <1>4, FlattenType
<1> QED
  BY <1>5 DEF ss

PlanMessage == [command : PlanCommand \cup {"RTL"}, item : Int]

\* The return to launch is the last message, and there if it is asked for.
ReturnIsLast(ms, returns) ==
  /\ ms \in Seq(PlanMessage)
  /\ \A k \in 1 .. Len(ms) : ms[k].command = "RTL" => k = Len(ms)
  /\ returns => Len(ms) > 0 /\ ms[Len(ms)].command = "RTL"

LEMMA MissionReturns ==
  ASSUME NEW is \in Seq(SUBSET Part), NEW returns \in BOOLEAN
  PROVE  ReturnIsLast(AssembleMessages(is, returns), returns)
<1> DEFINE a == FlattenSeq([i \in DOMAIN is |-> ItemMessages(is, i)])
           r == [command |-> "RTL", item |-> Len(is)]
           b == IF returns THEN <<r>> ELSE <<>>
           ms == AssembleMessages(is, returns)
<1>1. a \in Seq(ItemMessage)
  BY MissionMessages
<1>2. ms = a \o b
  BY Zenon DEF AssembleMessages
<1> SUFFICES ReturnIsLast(ms, returns)
  OBVIOUS
<1> HIDE DEF a, ms
<1>3. r \in PlanMessage /\ ItemMessage \subseteq PlanMessage
  BY LenProperties DEF PlanMessage, ItemMessage
<1>4. a \in Seq(PlanMessage)
  BY <1>1, <1>3, SeqMonotonic
<1>5. \A k \in 1 .. Len(a) : a[k].command # "RTL"
  <2>1. \A k \in 1 .. Len(a) : a[k] \in ItemMessage
    BY <1>1, ElementOfSeq
  <2> QED
    BY <2>1 DEF ItemMessage, PlanCommand
<1>6. CASE returns
  <2>1. b = <<r>> /\ <<r>> \in Seq(PlanMessage) /\ Len(<<r>>) = 1 /\ <<r>>[1] = r
    BY <1>3, <1>6
  <2>2. /\ ms \in Seq(PlanMessage) /\ Len(ms) = Len(a) + 1 /\ Len(a) \in Nat
        /\ \A k \in 1 .. Len(a) : ms[k] = a[k]
        /\ ms[Len(a) + 1] = r
    BY <1>2, <1>4, <2>1, ConcatProperties, LenProperties
  <2>3. r.command = "RTL"
    OBVIOUS
  <2> HIDE DEF r
  <2>4. \A k \in 1 .. Len(ms) : k \in 1 .. Len(a) \/ k = Len(ms)
    BY <2>2
  <2>5. \A k \in 1 .. Len(ms) : ms[k].command = "RTL" => k = Len(ms)
    BY <1>5, <2>2, <2>4
  <2>6. Len(ms) > 0 /\ ms[Len(ms)].command = "RTL"
    BY <2>2, <2>3
  <2> QED
    BY <2>2, <2>5, <2>6, Zenon DEF ReturnIsLast
<1>7. CASE ~returns
  <2>1. ms = a
    BY <1>2, <1>4, <1>7, ConcatEmptySeq
  <2>2. ms \in Seq(PlanMessage) /\ \A k \in 1 .. Len(ms) : ms[k].command = "RTL" => k = Len(ms)
    BY <1>4, <1>5, <2>1
  <2> QED
    BY <1>7, <2>2, Zenon DEF ReturnIsLast
<1> QED
  BY <1>6, <1>7

-----------------------------------------------------------------------------
(* The progress of a mission *)

\* What is asked of the vehicle while it is uploaded
AskedInv ==
  /\ rtl \in BOOLEAN
  /\ asked.items \in Seq(SUBSET Part) /\ asked.returns \in BOOLEAN
  /\ Uploading => /\ Len(asked.items) > 0 /\ ~succeeded
                  /\ messages = AssembleMessages(asked.items, asked.returns)

\* The vehicle has a mission, and since an upload has succeeded, what the plugin
\* takes for reached was reached in it.
ReachedInv ==
  /\ ReturnIsLast(flown.messages, flown.returns)
  /\ farthest \in Int /\ reached \in Int
  /\ succeeded /\ reached >= 0 => reached <= farthest

LEMMA ReachedIsFinished ==
  ASSUME ReachedInv
  PROVE  FinishedMeansReached
<1> SUFFICES ASSUME Settled, Finished,
                    NEW k \in farthest + 2 .. Len(flown.messages)
             PROVE  flown.messages[k].command = "RTL"
  BY DEF FinishedMeansReached
<1>0. Len(flown.messages) \in Nat /\ farthest \in Int /\ reached \in Int
  BY LenProperties DEF ReachedInv, ReturnIsLast
<1>1. reached >= 0 /\ reached <= farthest
  BY DEF Finished, IsFinished, ReachedInv, Settled
<1>2. messages = flown.messages /\ rtl = flown.returns
  BY DEF Settled
<1>3. Len(flown.messages) = reached + (IF flown.returns THEN 2 ELSE 1)
  BY <1>2 DEF Finished, IsFinished
<1>4. flown.returns /\ k = Len(flown.messages)
  BY <1>0, <1>1, <1>3
<1> QED
  BY <1>4 DEF ReachedInv, ReturnIsLast

\* No mission is nothing to return from.
LEMMA NoMission == ReturnIsLast(<<>>, FALSE)
<1>1. Len(<<>>) = 0 /\ <<>> \in Seq(PlanMessage)
  BY EmptySeq
<1> QED
  BY <1>1 DEF ReturnIsLast

LEMMA ReachedStart == ASSUME PlanInit PROVE AskedInv /\ ReachedInv
<1>1. /\ flown.messages = <<>> /\ flown.returns = FALSE
      /\ asked.items = <<>> /\ asked.returns = FALSE
      /\ farthest = -1 /\ reached = -1 /\ rtl = FALSE /\ phase = "none"
  BY DEF PlanInit
<1>2. <<>> \in Seq(SUBSET Part)
  BY EmptySeq
<1>3. AskedInv
  <2>1. rtl \in BOOLEAN /\ asked.returns \in BOOLEAN /\ ~Uploading
    BY <1>1 DEF Uploading
  <2>2. asked.items \in Seq(SUBSET Part)
    BY <1>1, <1>2, Zenon
  <2> QED
    BY <2>1, <2>2, Zenon DEF AskedInv
<1>4. ReachedInv
  <2>1. ReturnIsLast(flown.messages, flown.returns)
    BY <1>1, NoMission, Zenon
  <2>2. farthest \in Int /\ reached \in Int /\ ~(reached >= 0)
    BY <1>1
  <2> QED
    BY <2>1, <2>2, Zenon DEF ReachedInv
<1> QED
  BY <1>3, <1>4

\* Only an upload asks, and only of missions that have items.
LEMMA AskedStep == ASSUME AskedInv, PlanNext PROVE AskedInv'
<1>1. ASSUME NEW returns \in BOOLEAN, SetReturnToLaunch(returns) PROVE AskedInv'
  BY <1>1 DEF SetReturnToLaunch, AskedInv, Uploading
<1>2. ASSUME NEW is \in Missions, Upload(is) PROVE AskedInv'
  <2>1. is \in Seq(SUBSET Part) /\ is # <<>>
    BY PlanAssumption
  <2>2. Len(is) > 0
    BY <2>1, EmptySeq, LenProperties
  <2>3. /\ asked'.items = is /\ asked'.returns = rtl /\ rtl' = rtl /\ succeeded' = FALSE
        /\ messages' = AssembleMessages(is, rtl)
    BY <1>2 DEF Upload
  <2> QED
    BY <2>1, <2>2, <2>3, Zenon DEF AskedInv
<1>3. CASE VehicleTakes \/ VehicleRefuses
  BY <1>3 DEF VehicleTakes, VehicleRefuses, planVars, AskedInv, Uploading
<1>4. CASE MissionAck
  <2>1. UNCHANGED <<rtl, messages, asked>>
    BY <1>4 DEF MissionAck, planVars
  <2>2. CASE UNCHANGED succeeded /\ (Uploading' => Uploading)
    BY <2>1, <2>2, Zenon DEF AskedInv
  <2>3. CASE ~Uploading'
    BY <2>1, <2>3, Zenon DEF AskedInv
  <2> QED
    BY <1>4, <2>2, <2>3 DEF MissionAck, Uploading
<1>5. CASE UploadTimeout
  BY <1>5 DEF UploadTimeout, planVars, AskedInv, Uploading
<1>6. CASE Download
  <2>1. rtl' \in BOOLEAN /\ ~Uploading' /\ UNCHANGED asked
    BY <1>6 DEF Download, Uploading
  <2> QED
    BY <2>1 DEF AskedInv
<1>7. ASSUME NEW seq, MissionCurrent(seq) \/ MissionItemReached(seq) PROVE AskedInv'
  BY <1>7 DEF MissionCurrent, MissionItemReached, planVars, flownVars, AskedInv, Uploading
<1> QED
  BY <1>1, <1>2, <1>3, <1>4, <1>5, <1>6, <1>7 DEF PlanNext

\* A success forgets what was reached before; the vehicle changes its mission only while
\* there is none.
LEMMA ReachedStep == ASSUME AskedInv, ReachedInv, PlanNext PROVE ReachedInv'
<1>1. ASSUME NEW returns \in BOOLEAN, SetReturnToLaunch(returns) PROVE ReachedInv'
  BY <1>1 DEF SetReturnToLaunch, progressVars, flownVars, ReachedInv
<1>2. ASSUME NEW is \in Missions, Upload(is) PROVE ReachedInv'
  BY <1>2 DEF Upload, progressVars, ReachedInv
<1>3. CASE VehicleTakes
  <2>1. /\ Uploading /\ flown' = [messages |-> messages, items |-> asked.items, returns |-> asked.returns]
        /\ farthest' = -1 /\ UNCHANGED <<reached, succeeded>>
    BY <1>3 DEF VehicleTakes, progressVars
  <2>2. flown'.messages = messages /\ flown'.returns = asked.returns
    BY <2>1
  <2>3. ReturnIsLast(flown'.messages, flown'.returns)
    BY <2>1, <2>2, MissionReturns, Zenon DEF AskedInv
  <2>4. ~succeeded'
    BY <2>1 DEF AskedInv
  <2> QED
    BY <2>1, <2>3, <2>4 DEF ReachedInv
<1>4. CASE VehicleRefuses
  BY <1>4 DEF VehicleRefuses, progressVars, ReachedInv
<1>5. CASE MissionAck
  <2>1. /\ UNCHANGED <<flown, farthest>>
        /\ reached' = -1 \/ UNCHANGED <<reached, succeeded>>
    BY <1>5 DEF MissionAck
  <2>2. CASE reached' = -1
    BY <2>1, <2>2 DEF ReachedInv
  <2>3. CASE UNCHANGED <<reached, succeeded>>
    BY <2>1, <2>3, Zenon DEF ReachedInv
  <2> QED
    BY <2>1, <2>2, <2>3
<1>6. CASE UploadTimeout \/ Download
  <2>1. UNCHANGED <<flown, farthest, reached, succeeded>>
    BY <1>6 DEF UploadTimeout, Download, progressVars, flownVars
  <2> QED
    BY <2>1, Zenon DEF ReachedInv
<1>7. ASSUME NEW seq \in 0 .. Len(flown.messages) - 1, MissionCurrent(seq) PROVE ReachedInv'
  BY <1>7 DEF MissionCurrent, flownVars, ReachedInv
<1>8. ASSUME NEW seq \in 0 .. Len(flown.messages) - 1, MissionItemReached(seq) PROVE ReachedInv'
  <2>1. /\ UNCHANGED <<flown, succeeded>> /\ reached' = seq
        /\ farthest' = IF seq > farthest THEN seq ELSE farthest
    BY <1>8 DEF MissionItemReached
  <2>2. seq \in Int
    BY LenProperties DEF ReachedInv, ReturnIsLast
  <2> QED
    BY <2>1, <2>2 DEF ReachedInv
<1> QED
  BY <1>1, <1>2, <1>3, <1>4, <1>5, <1>6, <1>7, <1>8 DEF PlanNext

-----------------------------------------------------------------------------
(* FoldLeft, of AddMessage *)

\* The greatest element of a set of numbers up to n
LEMMA Greatest ==
  ASSUME NEW n \in Nat, NEW T, T \subseteq 1 .. n, T # {}
  PROVE  Max(T) \in T /\ \A x \in T : Max(T) >= x
<1> DEFINE R == {n - x : x \in T}
<1>0. \A x \in T : x \in 1 .. n /\ x \in Int /\ n - x \in Nat
  OBVIOUS
<1>1. R \subseteq Nat /\ R # {}
  BY <1>0
<1>2. PICK r \in R : \A m \in R : r <= m
  <2> HIDE DEF R
  <2> QED
    BY <1>1, LeastNatural
<1>3. PICK x \in T : r = n - x
  BY <1>2
<1>4. ASSUME NEW y \in T PROVE x >= y
  <2>1. n - y \in R
    OBVIOUS
  <2>2. n - x <= n - y
    BY <1>2, <1>3, <2>1
  <2> QED
    BY <1>0, <2>2
<1> QED
  BY <1>4, Zenon DEF Max

LEMMA WithoutGreatest ==
  ASSUME NEW m \in Nat
  PROVE  \A s \in SUBSET (1 .. m + 1) : s # {} => s \ {Max(s)} \in SUBSET (1 .. m)
<1> SUFFICES ASSUME NEW s \in SUBSET (1 .. m + 1), s # {}
             PROVE  s \ {Max(s)} \in SUBSET (1 .. m)
  OBVIOUS
<1>0. m + 1 \in Nat /\ s \subseteq 1 .. m + 1
  OBVIOUS
<1>1. Max(s) \in s /\ \A x \in s : Max(s) >= x
  BY <1>0, Greatest
<1>2. \A x \in s : x \in 1 .. m + 1
  OBVIOUS
<1>3. Max(s) \in 1 .. m + 1
  BY <1>1, <1>2
<1>4. \A x \in s : x # Max(s) => x \in 1 .. m
  BY <1>1, <1>2, <1>3
<1> QED
  BY <1>4

LEMMA GreatestUpTo ==
  ASSUME NEW k \in Nat \ {0}
  PROVE  Max(1 .. k) = k /\ (1 .. k) \ {Max(1 .. k)} = 1 .. k - 1
<1>1. 1 .. k # {}
  OBVIOUS
<1>2. Max(1 .. k) \in 1 .. k /\ \A x \in 1 .. k : Max(1 .. k) >= x
  BY <1>1, Greatest
<1>3. Max(1 .. k) = k
  BY <1>2
<1> QED
  BY <1>3

IsFolding(f, ms, n) ==
  f = [s \in SUBSET (1 .. n) |-> IF s = {} THEN <<{}>> ELSE AddMessage(f[s \ {Max(s)}], ms[Max(s)])]

LEMMA FoldingAt ==
  ASSUME NEW ms, NEW n, NEW f, IsFolding(f, ms, n), NEW s \in SUBSET (1 .. n)
  PROVE  /\ s = {} => f[s] = <<{}>>
         /\ s # {} => f[s] = AddMessage(f[s \ {Max(s)}], ms[Max(s)])
BY Zenon DEF IsFolding

LEMMA FoldingExists ==
  ASSUME NEW ms, NEW n \in Nat
  PROVE  \E f : IsFolding(f, ms, n)
<1> DEFINE I == {m \in Nat : \E f : IsFolding(f, ms, m)}
<1>1. 0 \in I
  <2> DEFINE f == [s \in SUBSET (1 .. 0) |-> <<{}>>]
  <2>1. \A s \in SUBSET (1 .. 0) : s = {}
    OBVIOUS
  <2>2. IsFolding(f, ms, 0)
    BY <2>1 DEF IsFolding
  <2> QED
    BY <2>2
<1>2. ASSUME NEW m \in I PROVE m + 1 \in I
  <2>1. PICK f : IsFolding(f, ms, m)
    BY <1>2
  <2> DEFINE g == [s \in SUBSET (1 .. m + 1) |->
                     IF s = {} THEN <<{}>> ELSE AddMessage(f[s \ {Max(s)}], ms[Max(s)])]
  <2>2. m \in Nat /\ m + 1 \in Nat
    BY <1>2
  <2>3. \A s \in SUBSET (1 .. m) : g[s] = f[s]
    <3> SUFFICES ASSUME NEW s \in SUBSET (1 .. m) PROVE g[s] = f[s]
      OBVIOUS
    <3>1. /\ s = {} => f[s] = <<{}>>
          /\ s # {} => f[s] = AddMessage(f[s \ {Max(s)}], ms[Max(s)])
      BY <2>1, FoldingAt
    <3>2. s \in SUBSET (1 .. m + 1)
      BY <2>2
    <3> QED
      BY <3>1, <3>2, Zenon
  <2>4. \A s \in SUBSET (1 .. m + 1) : s # {} => s \ {Max(s)} \in SUBSET (1 .. m)
    BY <2>2, WithoutGreatest
  <2> HIDE DEF g
  <2>5. \A s \in SUBSET (1 .. m + 1) : s # {} => g[s \ {Max(s)}] = f[s \ {Max(s)}]
    BY <2>3, <2>4, Zenon
  <2>6. IsFolding(g, ms, m + 1)
    BY <2>5, Zenon DEF IsFolding, g
  <2> QED
    BY <2>2, <2>6
<1>3. I \subseteq Nat
  OBVIOUS
<1> HIDE DEF I
<1>4. I = Nat
  BY <1>1, <1>2, <1>3, Induction
<1> QED
  BY <1>4 DEF I

\* The function that the definition of FoldLeft chooses
Folding(ms, n) == CHOOSE f : IsFolding(f, ms, n)

LEMMA FoldingSteps ==
  ASSUME NEW ms, NEW n \in Nat
  PROVE  /\ Folding(ms, n)[1 .. 0] = <<{}>>
         /\ \A k \in 1 .. n : Folding(ms, n)[1 .. k] = AddMessage(Folding(ms, n)[1 .. k - 1], ms[k])
<1>1. \E f : IsFolding(f, ms, n)
  BY FoldingExists
<1>2. IsFolding(Folding(ms, n), ms, n)
  BY <1>1, Zenon DEF Folding
<1>3. PICK f : f = Folding(ms, n)
  OBVIOUS
<1>4. IsFolding(f, ms, n)
  BY <1>2, <1>3, Zenon
<1>5. f[1 .. 0] = <<{}>>
  <2>1. 1 .. 0 \in SUBSET (1 .. n) /\ 1 .. 0 = {}
    OBVIOUS
  <2> QED
    BY <1>4, <2>1, FoldingAt
<1>6. ASSUME NEW k \in 1 .. n PROVE f[1 .. k] = AddMessage(f[1 .. k - 1], ms[k])
  <2>1. Max(1 .. k) = k /\ (1 .. k) \ {Max(1 .. k)} = 1 .. k - 1
    BY GreatestUpTo
  <2>2. PICK s : s = 1 .. k
    OBVIOUS
  <2>3. s \in SUBSET (1 .. n) /\ s # {}
    <3>1. k \in 1 .. k /\ \A x \in 1 .. k : x \in 1 .. n
      OBVIOUS
    <3> QED
      BY <2>2, <3>1, Zenon
  <2>4. f[s] = AddMessage(f[s \ {Max(s)}], ms[Max(s)])
    <3>1. \A x \in SUBSET (1 .. n) :
             x # {} => f[x] = AddMessage(f[x \ {Max(x)}], ms[Max(x)])
      BY <1>4, Zenon DEF IsFolding
    <3> QED
      BY <2>3, <3>1, Zenon
  <2> QED
    BY <2>1, <2>2, <2>4, Zenon
<1> QED
  BY <1>3, <1>5, <1>6

LEMMA ItemsFolded ==
  ASSUME NEW ms, Len(ms) \in Nat, DOMAIN ms = 1 .. Len(ms)
  PROVE  AssembleItems(ms) = Folding(ms, Len(ms))[1 .. Len(ms)]
BY DEF AssembleItems, FoldLeft, MapThenFoldSet, Folding, IsFolding


\* Two foldings of sequences that begin alike agree on the beginning.
LEMMA FoldingsAgree ==
  ASSUME NEW n \in Nat, NEW p \in Nat, NEW q \in Nat, n <= p, n <= q, NEW ms, NEW ns,
         \A k \in 1 .. n : ms[k] = ns[k]
  PROVE  Folding(ms, p)[1 .. n] = Folding(ns, q)[1 .. n]
<1> DEFINE I == {k \in Nat : k <= n => Folding(ms, p)[1 .. k] = Folding(ns, q)[1 .. k]}
<1>1. 0 \in I
  BY FoldingSteps
<1>2. ASSUME NEW k \in I PROVE k + 1 \in I
  <2> SUFFICES ASSUME k + 1 <= n
               PROVE  Folding(ms, p)[1 .. k + 1] = Folding(ns, q)[1 .. k + 1]
    OBVIOUS
  <2>1. /\ k + 1 \in 1 .. p /\ k + 1 \in 1 .. q /\ k + 1 \in 1 .. n /\ (k + 1) - 1 = k
        /\ Folding(ms, p)[1 .. k] = Folding(ns, q)[1 .. k]
    OBVIOUS
  <2>2. /\ Folding(ms, p)[1 .. k + 1] = AddMessage(Folding(ms, p)[1 .. (k + 1) - 1], ms[k + 1])
        /\ Folding(ns, q)[1 .. k + 1] = AddMessage(Folding(ns, q)[1 .. (k + 1) - 1], ns[k + 1])
    BY <2>1, FoldingSteps
  <2>3. ms[k + 1] = ns[k + 1]
    BY <2>1
  <2> QED
    BY <2>1, <2>2, <2>3, Zenon
<1>3. I \subseteq Nat
  OBVIOUS
<1>4. I = Nat
  <2> HIDE DEF I
  <2> QED
    BY <1>1, <1>2, <1>3, Induction
<1> QED
  BY <1>4

\* What assemble_mission_items makes of no message, and of one message more
LEMMA NoItem == AssembleItems(<<>>) = <<{}>>
<1>1. PICK ms : ms = <<>>
  OBVIOUS
<1>2. Len(ms) = 0 /\ DOMAIN ms = 1 .. Len(ms) /\ 0 \in Nat
  BY <1>1
<1>3. AssembleItems(ms) = Folding(ms, 0)[1 .. 0]
  BY <1>2, ItemsFolded
<1>4. Folding(ms, 0)[1 .. 0] = <<{}>>
  BY <1>2, FoldingSteps
<1> QED
  BY <1>1, <1>3, <1>4, Zenon

LEMMA OneMessageMore ==
  ASSUME NEW S, NEW ms \in Seq(S), NEW m \in S
  PROVE  AssembleItems(ms \o <<m>>) = AddMessage(AssembleItems(ms), m)
<1>1. PICK n \in Nat : n = Len(ms) /\ DOMAIN ms = 1 .. n
  BY LenProperties
<1>2. PICK ns : ns = ms \o <<m>>
  OBVIOUS
<1>3. /\ ns \in Seq(S) /\ Len(ns) = n + 1 /\ DOMAIN ns = 1 .. n + 1
      /\ \A k \in 1 .. n : ns[k] = ms[k]
      /\ ns[n + 1] = m
  <2>1. <<m>> \in Seq(S) /\ Len(<<m>>) = 1 /\ <<m>>[1] = m
    OBVIOUS
  <2> QED
    BY <1>1, <1>2, <2>1, ConcatProperties, LenProperties
<1>4. AssembleItems(ns) = Folding(ns, n + 1)[1 .. n + 1]
  BY <1>3, ItemsFolded
<1>5. AssembleItems(ms) = Folding(ms, n)[1 .. n]
  BY <1>1, ItemsFolded
<1>6. Folding(ns, n + 1)[1 .. n + 1] = AddMessage(Folding(ns, n + 1)[1 .. n], m)
  <2>1. n + 1 \in Nat /\ n + 1 \in 1 .. n + 1 /\ (n + 1) - 1 = n
    OBVIOUS
  <2>2. Folding(ns, n + 1)[1 .. n + 1]
          = AddMessage(Folding(ns, n + 1)[1 .. (n + 1) - 1], ns[n + 1])
    BY <2>1, FoldingSteps
  <2> QED
    BY <1>3, <2>1, <2>2, Zenon
<1>7. Folding(ns, n + 1)[1 .. n] = Folding(ms, n)[1 .. n]
  BY <1>3, FoldingsAgree
<1> QED
  BY <1>2, <1>4, <1>5, <1>6, <1>7, Zenon

-----------------------------------------------------------------------------
(* A mission with positions comes back as it was *)

\* The first i items, of which the last has the parts p so far
UpTo(is, i, p) == [j \in 1 .. i |-> IF j = i THEN p ELSE is[j]]

LEMMA UpToProperties ==
  ASSUME NEW is \in Seq(SUBSET Part), NEW i \in 1 .. Len(is), NEW p \in SUBSET Part
  PROVE  /\ UpTo(is, i, p) \in Seq(SUBSET Part)
         /\ Len(UpTo(is, i, p)) = i
         /\ UpTo(is, i, p)[i] = p
<1>1. Len(is) \in Nat /\ \A j \in 1 .. Len(is) : is[j] \in SUBSET Part
  BY LenProperties, ElementOfSeq
<1>2. UpTo(is, i, p) \in [1 .. i -> SUBSET Part] /\ i \in Nat
  BY <1>1 DEF UpTo
<1>3. UpTo(is, i, p) \in Seq(SUBSET Part)
  BY <1>2, SeqDef
<1>4. Len(UpTo(is, i, p)) = i
  BY <1>2, <1>3, LenProperties
<1>5. UpTo(is, i, p)[i] = p
  BY <1>2 DEF UpTo
<1> QED
  BY <1>3, <1>4, <1>5

LEMMA PartAdded ==
  ASSUME NEW is \in Seq(SUBSET Part), NEW i \in 1 .. Len(is), NEW p \in SUBSET Part,
         PositionKnown(is, i), NEW c \in PlanCommand \ {"WAYPOINT"},
         NEW ms \in Seq(ItemMessage), AssembleItems(ms) = UpTo(is, i, p)
  PROVE  /\ ms \o MessageFor(is, i, c) \in Seq(ItemMessage)
         /\ AssembleItems(ms \o MessageFor(is, i, c)) = UpTo(is, i, p \cup ({PartOf[c]} \cap is[i]))
<1>0. i \in Int /\ Len(is) \in Nat
  BY LenProperties
<1>1. MessageFor(is, i, c) \in Seq(ItemMessage)
  BY <1>0, MessageForType
<1>2. ms \o MessageFor(is, i, c) \in Seq(ItemMessage)
  BY <1>1, ConcatProperties
<1>3. CASE PartOf[c] \in is[i]
  <2>1. PICK m : m = [command |-> c, item |-> i - 1]
    OBVIOUS
  <2>2. MessageFor(is, i, c) = <<m>>
    BY <1>3, <2>1, Zenon DEF MessageFor
  <2>3. m \in ItemMessage /\ m.command = c
    BY <1>0, <2>1 DEF ItemMessage
  <2>4. AssembleItems(ms \o <<m>>) = AddMessage(UpTo(is, i, p), m)
    BY <2>3, OneMessageMore
  <2>5. AddMessage(UpTo(is, i, p), m) = [UpTo(is, i, p) EXCEPT ![i] = @ \cup {PartOf[c]}]
    <3>1. m.command # "WAYPOINT" /\ m.command # "RTL"
      BY <2>3 DEF PlanCommand
    <3>2. Len(UpTo(is, i, p)) = i
      BY UpToProperties
    <3>3. AddMessage(UpTo(is, i, p), m)
            = [UpTo(is, i, p) EXCEPT ![Len(UpTo(is, i, p))] = @ \cup {PartOf[m.command]}]
      BY <3>1, Zenon DEF AddMessage
    <3> QED
      BY <2>3, <3>2, <3>3, Zenon
  <2>6. p \cup ({PartOf[c]} \cap is[i]) = p \cup {PartOf[c]}
    BY <1>3, Zenon
  <2>7. [UpTo(is, i, p) EXCEPT ![i] = @ \cup {PartOf[c]}] = UpTo(is, i, p \cup {PartOf[c]})
    <3>1. PICK q : q = p \cup {PartOf[c]}
      OBVIOUS
    <3>2. [UpTo(is, i, p) EXCEPT ![i] = @ \cup {PartOf[c]}] = [UpTo(is, i, p) EXCEPT ![i] = q]
      BY <3>1, UpToProperties, ZenonT(30)
    <3>3. [UpTo(is, i, p) EXCEPT ![i] = q] = UpTo(is, i, q)
      BY DEF UpTo
    <3> QED
      BY <3>1, <3>2, <3>3, Zenon
  <2> QED
    BY <1>2, <2>2, <2>4, <2>5, <2>6, <2>7, Zenon
<1>4. CASE ~(PartOf[c] \in is[i])
  <2>1. MessageFor(is, i, c) = <<>>
    BY <1>4, Zenon DEF MessageFor
  <2>2. ms \o <<>> = ms
    BY ConcatEmptySeq
  <2>3. p \cup ({PartOf[c]} \cap is[i]) = p
    BY <1>4
  <2> QED
    BY <1>2, <2>1, <2>2, <2>3, Zenon
<1> QED
  BY <1>3, <1>4, Zenon

\* What has been put together before the messages of item i
Before(is, i) == IF i = 1 THEN <<{}>> ELSE UpTo(is, i - 1, is[i - 1])

LEMMA WaypointAdded ==
  ASSUME NEW is \in Seq(SUBSET Part), Positioned(is), NEW i \in 1 .. Len(is),
         NEW ms \in Seq(ItemMessage), AssembleItems(ms) = Before(is, i)
  PROVE  /\ MessageFor(is, i, "WAYPOINT") = <<[command |-> "WAYPOINT", item |-> i - 1]>>
         /\ ms \o MessageFor(is, i, "WAYPOINT") \in Seq(ItemMessage)
         /\ AssembleItems(ms \o MessageFor(is, i, "WAYPOINT")) = UpTo(is, i, {"position"})
<1>0. i \in Int /\ Len(is) \in Nat /\ DOMAIN is = 1 .. Len(is)
  BY LenProperties
<1>1. MessageFor(is, i, "WAYPOINT") \in Seq(ItemMessage)
  BY <1>0, MessageForType DEF PlanCommand
<1>2. ms \o MessageFor(is, i, "WAYPOINT") \in Seq(ItemMessage)
  BY <1>1, ConcatProperties
<1>3. PICK m : m = [command |-> "WAYPOINT", item |-> i - 1]
  OBVIOUS
<1>4. MessageFor(is, i, "WAYPOINT") = <<m>>
  <2>1. PartOf["WAYPOINT"] = "position"
    BY DEF PartOf
  <2>2. "position" \in is[i] /\ "WAYPOINT" # "LOITER_TIME"
    BY <1>0 DEF Positioned
  <2> QED
    BY <1>3, <2>1, <2>2, Zenon DEF MessageFor
<1>5. m \in ItemMessage /\ m.command = "WAYPOINT"
  BY <1>0, <1>3 DEF ItemMessage, PlanCommand
<1>6. AssembleItems(ms \o <<m>>) = AddMessage(Before(is, i), m)
  BY <1>5, OneMessageMore
<1>7. CASE i = 1
  <2>1. PICK d : d = <<{}>>
    OBVIOUS
  <2>2. Before(is, i) = d
    BY <1>7, <2>1, Zenon DEF Before
  <2>3. Len(d) = 1 /\ d[1] = {} /\ DOMAIN d = 1 .. 1
    BY <2>1
  <2>4. AddMessage(d, m) = [d EXCEPT ![1] = @ \cup {PartOf["WAYPOINT"]}]
    <3>1. ~("position" \in d[Len(d)]) /\ m.command # "RTL"
      BY <1>5, <2>3
    <3>2. AddMessage(d, m) = [d EXCEPT ![Len(d)] = @ \cup {PartOf[m.command]}]
      BY <3>1, Zenon DEF AddMessage
    <3> QED
      BY <1>5, <2>3, <3>2, Zenon
  <2>5. [d EXCEPT ![1] = @ \cup {PartOf["WAYPOINT"]}] = [j \in 1 .. 1 |-> {"position"}]
    <3>1. PartOf["WAYPOINT"] = "position"
      BY DEF PartOf
    <3>2. d[1] \cup {"position"} = {"position"}
      BY <2>3
    <3>3. d = [j \in 1 .. 1 |-> {}]
      BY <2>1
    <3>4. ASSUME NEW x PROVE [d EXCEPT ![1] = x] = [j \in 1 .. 1 |-> x]
      <4>1. \A j \in 1 .. 1 : j = 1
        OBVIOUS
      <4> QED
        BY <3>3, <4>1
    <3> QED
      BY <3>1, <3>2, <3>4, Zenon
  <2>6. UpTo(is, i, {"position"}) = [j \in 1 .. 1 |-> {"position"}]
    BY <1>7 DEF UpTo
  <2> QED
    BY <1>2, <1>3, <1>4, <1>6, <2>2, <2>4, <2>5, <2>6, Zenon
<1>8. CASE i # 1
  <2>1. i - 1 \in 1 .. Len(is) /\ is[i - 1] \in SUBSET Part /\ "position" \in is[i - 1]
    <3>1. i - 1 \in 1 .. Len(is)
      BY <1>0, <1>8
    <3> QED
      BY <1>0, <3>1, ElementOfSeq DEF Positioned
  <2>2. PICK d : d = UpTo(is, i - 1, is[i - 1])
    OBVIOUS
  <2>3. d \in Seq(SUBSET Part) /\ Len(d) = i - 1 /\ d[i - 1] = is[i - 1]
    BY <2>1, <2>2, UpToProperties
  <2>4. Before(is, i) = d
    BY <1>8, <2>2, Zenon DEF Before
  <2>5. AddMessage(d, m) = Append(d, {"position"})
    <3>1. m.command = "WAYPOINT" /\ m.command # "RTL" /\ "position" \in d[Len(d)]
      BY <1>5, <2>1, <2>3
    <3> QED
      BY <3>1, Zenon DEF AddMessage
  <2>6. Append(d, {"position"}) = UpTo(is, i, {"position"})
    <3>1. {"position"} \in SUBSET Part
      BY DEF Part
    <3>2. PICK e : e = Append(d, {"position"})
      OBVIOUS
    <3>3. /\ e \in Seq(SUBSET Part) /\ Len(e) = (i - 1) + 1 /\ e[(i - 1) + 1] = {"position"}
          /\ \A j \in 1 .. i - 1 : e[j] = d[j]
      BY <2>3, <3>1, <3>2, AppendProperties
    <3>4. e = [j \in 1 .. Len(e) |-> e[j]] /\ (i - 1) + 1 = i
      BY <1>0, <3>3, LenProperties
    <3>5. \A j \in 1 .. i - 1 : d[j] = is[j]
      BY <2>2 DEF UpTo
    <3>6. ASSUME NEW j \in 1 .. i PROVE e[j] = IF j = i THEN {"position"} ELSE is[j]
      <4>1. j = i \/ (j # i /\ j \in 1 .. i - 1)
        BY <1>0
      <4> QED
        BY <3>3, <3>4, <3>5, <4>1
    <3>7. e = UpTo(is, i, {"position"})
      BY <3>3, <3>4, <3>6 DEF UpTo
    <3> QED
      BY <3>2, <3>7
  <2> QED
    BY <1>2, <1>3, <1>4, <1>6, <2>4, <2>5, <2>6, Zenon
<1> QED
  BY <1>7, <1>8


LEMMA Joined ==
  ASSUME NEW Q, NEW m \in Seq(Q), NEW x \in Seq(Q), NEW y \in Seq(Q),
         NEW mx, mx = m \o x, NEW xy, xy = x \o y
  PROVE  xy \in Seq(Q) /\ m \o xy = mx \o y
<1>1. xy \in Seq(Q)
  BY ConcatProperties, SMTT(30)
<1>2. m \o (x \o y) = (m \o x) \o y
  BY ONLY ConcatAssociative
<1> QED
  BY <1>1, <1>2, Zenon

LEMMA MessagesAppended ==
  ASSUME NEW is, NEW i, i \in Int, NEW ms, ms \in Seq(ItemMessage)
  PROVE  ms \o ItemMessages(is, i)
           = (((((ms \o MessageFor(is, i, "WAYPOINT")) \o MessageFor(is, i, "CHANGE_SPEED"))
                 \o MessageFor(is, i, "MOUNT_CONFIGURE")) \o MessageFor(is, i, "MOUNT_CONTROL"))
                 \o MessageFor(is, i, "LOITER_TIME")) \o MessageFor(is, i, "CAMERA")
<1>0. PICK Q : Q = ItemMessage
  OBVIOUS
<1>1. /\ ms \in Seq(Q)
      /\ \A c \in PlanCommand : MessageFor(is, i, c) \in Seq(Q)
  BY <1>0, MessageForType
<1>2. PICK a : a \in Seq(Q) /\ a = MessageFor(is, i, "WAYPOINT")
  BY <1>1 DEF PlanCommand
<1>3. PICK b : b \in Seq(Q) /\ b = MessageFor(is, i, "CHANGE_SPEED")
  BY <1>1 DEF PlanCommand
<1>4. PICK c : c \in Seq(Q) /\ c = MessageFor(is, i, "MOUNT_CONFIGURE")
  BY <1>1 DEF PlanCommand
<1>5. PICK d : d \in Seq(Q) /\ d = MessageFor(is, i, "MOUNT_CONTROL")
  BY <1>1 DEF PlanCommand
<1>6. PICK e : e \in Seq(Q) /\ e = MessageFor(is, i, "LOITER_TIME")
  BY <1>1 DEF PlanCommand
<1>7. PICK f : f \in Seq(Q) /\ f = MessageFor(is, i, "CAMERA")
  BY <1>1 DEF PlanCommand
<1>8. PICK r : r = ItemMessages(is, i)
  OBVIOUS
<1>9. r = ((((a \o b) \o c) \o d) \o e) \o f
  BY <1>2, <1>3, <1>4, <1>5, <1>6, <1>7, <1>8, Zenon DEF ItemMessages
<1>25. PICK m0 : m0 \in Seq(Q) /\ m0 = ms
  BY <1>1
<1>10. PICK t2 : t2 = a \o b
  OBVIOUS
<1>11. PICK t3 : t3 = t2 \o c
  OBVIOUS
<1>12. PICK t4 : t4 = t3 \o d
  OBVIOUS
<1>13. PICK t5 : t5 = t4 \o e
  OBVIOUS
<1>14. r = t5 \o f
  BY <1>9, <1>10, <1>11, <1>12, <1>13, Zenon
<1>15. PICK m1 : m1 = m0 \o a
  OBVIOUS
<1>16. PICK m2 : m2 = m0 \o t2
  OBVIOUS
<1>17. PICK m3 : m3 = m0 \o t3
  OBVIOUS
<1>18. PICK m4 : m4 = m0 \o t4
  OBVIOUS
<1>19. PICK m5 : m5 = m0 \o t5
  OBVIOUS
<1>20. t2 \in Seq(Q)
  BY <1>2, <1>3, <1>10, ConcatProperties
<1>21. t3 \in Seq(Q)
  BY <1>4, <1>11, <1>20, ConcatProperties, SMTT(30)
<1>22. t4 \in Seq(Q)
  BY <1>5, <1>12, <1>21, ConcatProperties
<1>23. t5 \in Seq(Q)
  BY <1>6, <1>13, <1>22, ConcatProperties
<1>24. m2 = m1 \o b
  BY <1>2, <1>3, <1>25, <1>10, <1>15, <1>16, Joined, SMTT(30)
<1>26. m3 = m2 \o c
  BY <1>4, <1>25, <1>11, <1>16, <1>17, <1>20, Joined, SMTT(30)
<1>27. m4 = m3 \o d
  BY <1>5, <1>25, <1>12, <1>17, <1>18, <1>21, Joined, SMTT(30)
<1>28. m5 = m4 \o e
  BY <1>6, <1>25, <1>13, <1>18, <1>19, <1>22, Joined, SMTT(30)
<1>29. m0 \o r = m5 \o f
  BY <1>7, <1>25, <1>14, <1>19, <1>23, Joined, SMTT(30)
<1> QED
  BY <1>2, <1>3, <1>4, <1>5, <1>6, <1>7, <1>8, <1>15, <1>24, <1>26, <1>27, <1>28, <1>29, <1>25, Zenon

LEMMA AnyPartAdded ==
  ASSUME NEW is \in Seq(SUBSET Part), NEW i \in 1 .. Len(is), PositionKnown(is, i)
  PROVE  \A c \in PlanCommand \ {"WAYPOINT"}, p \in SUBSET Part, ns \in Seq(ItemMessage) :
           AssembleItems(ns) = UpTo(is, i, p) =>
             /\ ns \o MessageFor(is, i, c) \in Seq(ItemMessage)
             /\ AssembleItems(ns \o MessageFor(is, i, c))
                  = UpTo(is, i, p \cup ({PartOf[c]} \cap is[i]))
BY PartAdded

LEMMA ItemAdded ==
  ASSUME NEW is \in Seq(SUBSET Part), Positioned(is), NEW i \in 1 .. Len(is),
         NEW ms \in Seq(ItemMessage), AssembleItems(ms) = Before(is, i)
  PROVE  /\ ms \o ItemMessages(is, i) \in Seq(ItemMessage)
         /\ AssembleItems(ms \o ItemMessages(is, i)) = UpTo(is, i, is[i])
<1>0. Len(is) \in Nat /\ i \in Int /\ DOMAIN is = 1 .. Len(is) /\ is[i] \in SUBSET Part
  BY LenProperties, ElementOfSeq
<1>1. "position" \in is[i] /\ PositionKnown(is, i)
  BY <1>0 DEF Positioned, PositionKnown
<1> DEFINE W == MessageFor(is, i, "WAYPOINT")
           S == MessageFor(is, i, "CHANGE_SPEED")
           C == MessageFor(is, i, "MOUNT_CONFIGURE")
           G == MessageFor(is, i, "MOUNT_CONTROL")
           L == MessageFor(is, i, "LOITER_TIME")
           K == MessageFor(is, i, "CAMERA")
           pW == {"position"}
           pS == pW \cup ({PartOf["CHANGE_SPEED"]} \cap is[i])
           pC == pS \cup ({PartOf["MOUNT_CONFIGURE"]} \cap is[i])
           pG == pC \cup ({PartOf["MOUNT_CONTROL"]} \cap is[i])
           pL == pG \cup ({PartOf["LOITER_TIME"]} \cap is[i])
           pK == pL \cup ({PartOf["CAMERA"]} \cap is[i])
<1>2. {W, S, C, G, L, K} \subseteq Seq(ItemMessage)
  <2>1. \A c \in PlanCommand : MessageFor(is, i, c) \in Seq(ItemMessage)
    BY <1>0, MessageForType
  <2> QED
    BY <2>1 DEF PlanCommand
<1>3. /\ pW \in SUBSET Part /\ pS \in SUBSET Part /\ pC \in SUBSET Part /\ pG \in SUBSET Part
      /\ pL \in SUBSET Part /\ pK \in SUBSET Part
  BY <1>0 DEF Part
<1>4. pK = is[i]
  <2>1. /\ PartOf["CHANGE_SPEED"] = "speed" /\ PartOf["MOUNT_CONFIGURE"] = "gimbal"
        /\ PartOf["MOUNT_CONTROL"] = "gimbal" /\ PartOf["LOITER_TIME"] = "loiter"
        /\ PartOf["CAMERA"] = "camera"
    BY DEF PartOf
  <2> QED
    BY <1>0, <1>1, <2>1 DEF Part
<1>5. ms \o W \in Seq(ItemMessage) /\ AssembleItems(ms \o W) = UpTo(is, i, pW)
  BY WaypointAdded
<1>6. \A c \in PlanCommand \ {"WAYPOINT"}, p \in SUBSET Part, ns \in Seq(ItemMessage) :
        AssembleItems(ns) = UpTo(is, i, p) =>
          /\ ns \o MessageFor(is, i, c) \in Seq(ItemMessage)
          /\ AssembleItems(ns \o MessageFor(is, i, c))
               = UpTo(is, i, p \cup ({PartOf[c]} \cap is[i]))
  BY <1>1, AnyPartAdded, Zenon
<1>7. {"CHANGE_SPEED", "MOUNT_CONFIGURE", "MOUNT_CONTROL", "LOITER_TIME", "CAMERA"}
        \subseteq PlanCommand \ {"WAYPOINT"}
  BY DEF PlanCommand
<1>8. (ms \o W) \o S \in Seq(ItemMessage) /\ AssembleItems((ms \o W) \o S) = UpTo(is, i, pS)
  BY <1>3, <1>5, <1>6, <1>7, Zenon
<1>9. /\ ((ms \o W) \o S) \o C \in Seq(ItemMessage)
      /\ AssembleItems(((ms \o W) \o S) \o C) = UpTo(is, i, pC)
  BY <1>3, <1>8, <1>6, <1>7, Zenon
<1>10. /\ (((ms \o W) \o S) \o C) \o G \in Seq(ItemMessage)
       /\ AssembleItems((((ms \o W) \o S) \o C) \o G) = UpTo(is, i, pG)
  BY <1>3, <1>9, <1>6, <1>7, Zenon
<1>11. /\ ((((ms \o W) \o S) \o C) \o G) \o L \in Seq(ItemMessage)
       /\ AssembleItems(((((ms \o W) \o S) \o C) \o G) \o L) = UpTo(is, i, pL)
  BY <1>3, <1>10, <1>6, <1>7, Zenon
<1>12. /\ (((((ms \o W) \o S) \o C) \o G) \o L) \o K \in Seq(ItemMessage)
       /\ AssembleItems((((((ms \o W) \o S) \o C) \o G) \o L) \o K) = UpTo(is, i, pK)
  BY <1>3, <1>11, <1>6, <1>7, Zenon
<1>13. ms \o ItemMessages(is, i) = (((((ms \o W) \o S) \o C) \o G) \o L) \o K
  BY <1>0, MessagesAppended, Zenon
<1> QED
  BY <1>4, <1>12, <1>13, Zenon

LEMMA FirstWaypoint ==
  ASSUME NEW is \in Seq(SUBSET Part), Positioned(is), NEW i \in 1 .. Len(is)
  PROVE  /\ ItemMessages(is, i) \in Seq(ItemMessage)
         /\ Len(ItemMessages(is, i)) > 0 /\ ItemMessages(is, i)[1].command = "WAYPOINT"
<1>0. Len(is) \in Nat /\ i \in Int /\ DOMAIN is = 1 .. Len(is)
  BY LenProperties
<1> DEFINE W == MessageFor(is, i, "WAYPOINT")
           S == MessageFor(is, i, "CHANGE_SPEED")
           C == MessageFor(is, i, "MOUNT_CONFIGURE")
           G == MessageFor(is, i, "MOUNT_CONTROL")
           L == MessageFor(is, i, "LOITER_TIME")
           K == MessageFor(is, i, "CAMERA")
           Starts(s) == s \in Seq(ItemMessage) /\ Len(s) > 0 /\ s[1].command = "WAYPOINT"
<1>1. /\ S \in Seq(ItemMessage) /\ C \in Seq(ItemMessage)
      /\ G \in Seq(ItemMessage) /\ L \in Seq(ItemMessage) /\ K \in Seq(ItemMessage)
  <2>1. \A c \in PlanCommand : MessageFor(is, i, c) \in Seq(ItemMessage)
    BY <1>0, MessageForType
  <2> QED
    BY <2>1 DEF PlanCommand
<1>2. Starts(W)
  <2>1. "position" \in is[i] /\ PartOf["WAYPOINT"] = "position"
    BY <1>0 DEF Positioned, PartOf
  <2>2. PICK m : m = [command |-> "WAYPOINT", item |-> i - 1]
    OBVIOUS
  <2>3. W = <<m>>
    BY <2>1, <2>2, Zenon DEF MessageFor
  <2>4. m \in ItemMessage /\ m.command = "WAYPOINT"
    BY <1>0, <2>2 DEF ItemMessage, PlanCommand
  <2>5. <<m>> \in Seq(ItemMessage) /\ Len(<<m>>) = 1 /\ <<m>>[1] = m
    BY <2>4
  <2>6. <<m>>[1].command = "WAYPOINT" /\ Len(<<m>>) > 0
    BY <2>4, <2>5
  <2> QED
    BY <2>3, <2>5, <2>6, Zenon
<1>3. ItemMessages(is, i) = ((((W \o S) \o C) \o G) \o L) \o K
  BY Zenon DEF ItemMessages
<1>4. ASSUME NEW a, NEW b \in Seq(ItemMessage), Starts(a) PROVE Starts(a \o b)
  BY <1>4, ConcatProperties, LenProperties
<1> HIDE DEF W, S, C, G, L, K, Starts
<1>5. Starts(W \o S) /\ Starts((W \o S) \o C) /\ Starts(((W \o S) \o C) \o G)
  BY <1>1, <1>2, <1>4
<1>6. Starts((((W \o S) \o C) \o G) \o L) /\ Starts(((((W \o S) \o C) \o G) \o L) \o K)
  BY <1>1, <1>4, <1>5
<1>7. Starts(ItemMessages(is, i))
  BY <1>3, <1>6
<1> QED
  BY <1>7 DEF Starts

LEMMA ItemsBack ==
  ASSUME NEW is \in Seq(SUBSET Part), Positioned(is), Len(is) > 0
  PROVE  LET a == FlattenSeq([i \in DOMAIN is |-> ItemMessages(is, i)])
         IN  /\ a \in Seq(ItemMessage) /\ Len(a) > 0 /\ a[1].command = "WAYPOINT"
             /\ AssembleItems(a) = is
<1>0. Len(is) \in Nat /\ DOMAIN is = 1 .. Len(is)
  BY LenProperties
<1>1. PICK ss : ss = [i \in DOMAIN is |-> ItemMessages(is, i)]
  OBVIOUS
<1>2. \A i \in 1 .. Len(is) : ss[i] = ItemMessages(is, i) /\ ss[i] \in Seq(ItemMessage)
  BY <1>0, <1>1, ItemMessagesType
<1>3. ss \in Seq(Seq(ItemMessage)) /\ Len(ss) = Len(is)
  <2>1. ss \in [1 .. Len(is) -> Seq(ItemMessage)]
    BY <1>0, <1>1, <1>2
  <2>2. ss \in Seq(Seq(ItemMessage))
    BY <1>0, <2>1, SeqDef
  <2> QED
    BY <1>0, <2>1, <2>2, LenProperties
<1>4. PICK f : /\ f[1] = ss[1]
               /\ \A i \in 1 .. Len(is) : i # 1 => f[i] = f[i - 1] \o ss[i]
               /\ FlattenSeq(ss) = f[Len(is)]
  <2>1. \E f : /\ f[1] = ss[1]
               /\ \A i \in 1 .. Len(ss) : i # 1 => f[i] = f[i - 1] \o ss[i]
               /\ FlattenSeq(ss) = f[Len(ss)]
    <3>1. Len(ss) \in Nat /\ Len(ss) # 0
      BY <1>0, <1>3
    <3> QED
      BY <3>1, Flattened, Zenon
  <2> QED
    BY <1>3, <2>1, Zenon
<1> DEFINE Good(n) == /\ f[n] \in Seq(ItemMessage) /\ Len(f[n]) > 0
                      /\ f[n][1].command = "WAYPOINT"
                      /\ AssembleItems(f[n]) = UpTo(is, n, is[n])
           I == {n \in Nat : n + 1 \in 1 .. Len(is) => Good(n + 1)}
<1>5. 0 \in I
  <2>1. 1 \in 1 .. Len(is)
    BY <1>0
  <2>2. f[1] = ItemMessages(is, 1)
    BY <1>2, <1>4, <2>1
  <2>3. f[1] \in Seq(ItemMessage) /\ Len(f[1]) > 0 /\ f[1][1].command = "WAYPOINT"
    BY <2>1, <2>2, FirstWaypoint
  <2>4. <<>> \in Seq(ItemMessage) /\ AssembleItems(<<>>) = Before(is, 1)
    BY NoItem DEF Before
  <2>5. AssembleItems(<<>> \o ItemMessages(is, 1)) = UpTo(is, 1, is[1])
    BY <2>1, <2>4, ItemAdded
  <2>6. <<>> \o ItemMessages(is, 1) = ItemMessages(is, 1)
    BY <2>2, <2>3, ConcatEmptySeq
  <2>7. Good(1)
    BY <2>2, <2>3, <2>5, <2>6
  <2> HIDE DEF Good
  <2> QED
    BY <2>7
<1>6. ASSUME NEW n \in I PROVE n + 1 \in I
  <2>0. n \in Nat
    OBVIOUS
  <2> SUFFICES ASSUME n + 2 \in 1 .. Len(is) PROVE Good(n + 2)
    <3> HIDE DEF Good
    <3> QED
      BY <2>0
  <2>1. PICK k : k = n + 2
    OBVIOUS
  <2>2. k \in 1 .. Len(is) /\ k # 1 /\ k - 1 = n + 1 /\ n + 1 \in 1 .. Len(is)
    BY <1>0, <2>0, <2>1
  <2>3. Good(k - 1)
    <3> HIDE DEF Good
    <3> QED
      BY <2>0, <2>2
  <2>4. f[k] = f[k - 1] \o ItemMessages(is, k)
    BY <1>2, <1>4, <2>2
  <2>5. AssembleItems(f[k - 1]) = Before(is, k) /\ f[k - 1] \in Seq(ItemMessage)
    BY <2>2, <2>3, Zenon DEF Before
  <2>6. f[k] \in Seq(ItemMessage) /\ AssembleItems(f[k]) = UpTo(is, k, is[k])
    BY <2>2, <2>4, <2>5, ItemAdded
  <2>7. Len(f[k]) > 0 /\ f[k][1].command = "WAYPOINT"
    <3>1. ItemMessages(is, k) \in Seq(ItemMessage)
      BY <1>2, <2>2
    <3>2. Len(f[k - 1]) > 0 /\ f[k - 1][1].command = "WAYPOINT"
      BY <2>3
    <3> QED
      BY <2>4, <2>5, <3>1, <3>2, ConcatProperties, LenProperties
  <2> QED
    BY <2>1, <2>6, <2>7
<1>7. I \subseteq Nat
  OBVIOUS
<1>8. Good(Len(is))
  <2> HIDE DEF Good
  <2>1. Len(is) - 1 \in Nat /\ (Len(is) - 1) + 1 = Len(is) /\ Len(is) \in 1 .. Len(is)
    BY <1>0
  <2>2. I = Nat
    <3> HIDE DEF I
    <3> QED
      BY <1>5, <1>6, <1>7, Induction
  <2> QED
    BY <2>1, <2>2
<1>9. UpTo(is, Len(is), is[Len(is)]) = is
  <2>1. is = [j \in 1 .. Len(is) |-> is[j]]
    BY <1>0
  <2>2. UpTo(is, Len(is), is[Len(is)]) = [j \in 1 .. Len(is) |-> is[j]]
    BY DEF UpTo
  <2> QED
    BY <2>1, <2>2
<1> QED
  BY <1>1, <1>4, <1>8, <1>9, Zenon

LEMMA MissionBack ==
  ASSUME NEW is \in Seq(SUBSET Part), Positioned(is), Len(is) > 0, NEW returns \in BOOLEAN
  PROVE  LET ms == AssembleMessages(is, returns)
         IN  AssembleItems(ms) = is /\ ms[1].command = "WAYPOINT"
<1>1. PICK a : a = FlattenSeq([i \in DOMAIN is |-> ItemMessages(is, i)])
  OBVIOUS
<1>2. /\ a \in Seq(ItemMessage) /\ Len(a) > 0 /\ a[1].command = "WAYPOINT"
      /\ AssembleItems(a) = is
  BY <1>1, ItemsBack, Zenon
<1>3. PICK r : r = [command |-> "RTL", item |-> Len(is)]
  OBVIOUS
<1>4. AssembleMessages(is, returns) = a \o (IF returns THEN <<r>> ELSE <<>>)
  BY <1>1, <1>3, Zenon DEF AssembleMessages
<1>5. CASE returns
  <2>1. a \in Seq(PlanMessage) /\ r \in PlanMessage /\ r.command = "RTL"
    <3>1. ItemMessage \subseteq PlanMessage /\ r \in PlanMessage /\ r.command = "RTL"
      BY <1>3, LenProperties DEF ItemMessage, PlanMessage
    <3> QED
      BY <1>2, <3>1, SeqMonotonic
  <2>2. AssembleItems(a \o <<r>>) = AddMessage(is, r)
    BY <1>2, <2>1, OneMessageMore
  <2>3. AddMessage(is, r) = is
    <3>1. r.command # "WAYPOINT"
      BY <2>1
    <3> QED
      BY <2>1, <3>1, Zenon DEF AddMessage
  <2>4. (a \o <<r>>)[1] = a[1]
    <3>1. <<r>> \in Seq(PlanMessage) /\ 1 \in 1 .. Len(a)
      BY <1>2, <2>1, LenProperties
    <3> QED
      BY <2>1, <3>1, ConcatProperties
  <2> QED
    BY <1>2, <1>4, <1>5, <2>2, <2>3, <2>4, Zenon
<1>6. CASE ~returns
  <2>1. a \o <<>> = a
    BY <1>2, ConcatEmptySeq
  <2> QED
    BY <1>2, <1>4, <1>6, <2>1, Zenon
<1> QED
  BY <1>5, <1>6

\* A mission of the vehicle is one that it was asked to take.
BackInv ==
  flown.messages # <<>> =>
    /\ flown.items \in Seq(SUBSET Part) /\ Len(flown.items) > 0 /\ flown.returns \in BOOLEAN
    /\ flown.messages = AssembleMessages(flown.items, flown.returns)

LEMMA RtlIfAsked ==
  ASSUME NEW is \in Seq(SUBSET Part), NEW returns \in BOOLEAN
  PROVE  LET ms == AssembleMessages(is, returns)
         IN  returns = \E k \in DOMAIN ms : ms[k].command = "RTL"
<1>1. PICK ms : ms = AssembleMessages(is, returns)
  OBVIOUS
<1>2. ReturnIsLast(ms, returns)
  BY <1>1, MissionReturns
<1>3. Len(ms) \in Nat /\ DOMAIN ms = 1 .. Len(ms)
  BY <1>2, LenProperties DEF ReturnIsLast
<1>4. returns => \E k \in DOMAIN ms : ms[k].command = "RTL"
  <2>1. returns => Len(ms) > 0 /\ ms[Len(ms)].command = "RTL"
    BY <1>2, Zenon DEF ReturnIsLast
  <2>2. Len(ms) > 0 => Len(ms) \in DOMAIN ms
    BY <1>3
  <2> QED
    BY <2>1, <2>2, Zenon
<1>5. ~returns => ~\E k \in DOMAIN ms : ms[k].command = "RTL"
  <2> SUFFICES ASSUME ~returns PROVE ~\E k \in DOMAIN ms : ms[k].command = "RTL"
    OBVIOUS
  <2>1. PICK a : a = FlattenSeq([i \in DOMAIN is |-> ItemMessages(is, i)])
    OBVIOUS
  <2>2. a \in Seq(ItemMessage)
    BY <2>1, MissionMessages
  <2>3. ms = a
    BY <1>1, <2>1, <2>2, ConcatEmptySeq DEF AssembleMessages
  <2>4. \A k \in DOMAIN ms : ms[k] \in ItemMessage
    BY <1>3, <2>2, <2>3, ElementOfSeq
  <2> QED
    BY <2>4 DEF ItemMessage, PlanCommand
<1> QED
  BY <1>1, <1>4, <1>5, Zenon

LEMMA BackStep == ASSUME AskedInv, BackInv, PlanNext PROVE BackInv'
<1>1. CASE VehicleTakes
  <2>1. /\ Uploading
        /\ flown' = [messages |-> messages, items |-> asked.items, returns |-> asked.returns]
    BY <1>1 DEF VehicleTakes
  <2>2. /\ flown'.messages = messages /\ flown'.items = asked.items
        /\ flown'.returns = asked.returns
    BY <2>1
  <2> QED
    BY <2>1, <2>2, Zenon DEF AskedInv, BackInv
<1>2. CASE flown' = flown
  BY <1>2, Zenon DEF BackInv
<1> QED
  BY <1>1, <1>2 DEF PlanNext, SetReturnToLaunch, Upload, VehicleRefuses, MissionAck,
     UploadTimeout, Download, MissionCurrent, MissionItemReached, flownVars

LEMMA DownloadGivesBack ==
  ASSUME BackInv, Download, Positioned(flown.items)
  PROVE  items' = flown.items /\ rtl' = flown.returns
<1>1. /\ flown.items \in Seq(SUBSET Part) /\ Len(flown.items) > 0 /\ flown.returns \in BOOLEAN
      /\ flown.messages = AssembleMessages(flown.items, flown.returns)
  BY DEF Download, BackInv
<1>2. flown.messages[1].command = "WAYPOINT" /\ AssembleItems(flown.messages) = flown.items
  BY <1>1, MissionBack, ZenonT(60)
<1>3. flown.returns = \E k \in DOMAIN flown.messages : flown.messages[k].command = "RTL"
  BY <1>1, RtlIfAsked, Zenon
<1>4. /\ items' = AssembleItems(flown.messages)
      /\ rtl' = \E k \in DOMAIN flown.messages : flown.messages[k].command = "RTL"
  BY <1>2, Zenon DEF Download
<1> QED
  BY <1>2, <1>3, <1>4, Zenon

-----------------------------------------------------------------------------
(* Missions and their progress: the theorems                               *)

LEMMA PlanSteps ==
  ASSUME [Next]_viewVars PROVE PlanNext \/ UNCHANGED missionVars
BY DEF Next, MissionView, TransferView, SettingsView,
     TelemetryView, viewVars

\* "Mission is finished and the last mission item has been reached" (mission.h:180): when
\* the plugin takes a mission for finished, the vehicle has reported every message but
\* the return to launch, for any items, uploads, refusals, time-outs, downloads and
\* reports.  Excepted are missions that are not settled: before the vehicle's acceptance
\* is handled, and for good after an upload that is not accepted, the plugin compares
\* the progress of an earlier mission with the messages of another.
THEOREM FinishedIsReached == Spec => []FinishedMeansReached
<1>1. Init => AskedInv /\ ReachedInv
  BY ReachedStart DEF Init
<1>2. ASSUME AskedInv, ReachedInv, UNCHANGED missionVars PROVE AskedInv' /\ ReachedInv'
  BY <1>2, Zenon DEF missionVars, AskedInv, Uploading, ReachedInv, ReturnIsLast
<1>3. AskedInv /\ ReachedInv /\ [Next]_viewVars => AskedInv' /\ ReachedInv'
  BY <1>2, PlanSteps, AskedStep, ReachedStep
<1>4. ReachedInv => FinishedMeansReached
  BY ReachedIsFinished
<1> QED
  BY <1>1, <1>3, <1>4, PTL DEF Spec

\* A mission whose items all have a position comes back from a download as it was when the
\* vehicle took it, item by item, with the return to launch: for any parts of the items,
\* any number of items, and any uploads and downloads since.
THEOREM DownloadsGiveBack == Spec => RoundTrip
<1>1. Init => AskedInv /\ BackInv
  <2>1. PlanInit => flown.messages = <<>>
    BY DEF PlanInit
  <2> QED
    BY <2>1, ReachedStart, Zenon DEF Init, BackInv
<1>2. ASSUME AskedInv, BackInv, UNCHANGED missionVars PROVE AskedInv' /\ BackInv'
  BY <1>2, Zenon DEF missionVars, AskedInv, Uploading, BackInv
<1>3. AskedInv /\ BackInv /\ [Next]_viewVars => AskedInv' /\ BackInv'
  BY <1>2, PlanSteps, AskedStep, BackStep
<1>4. ASSUME BackInv
      PROVE  [Download /\ Positioned(flown.items)
                => items' = flown.items /\ rtl' = flown.returns]_missionVars
  BY <1>4, DownloadGivesBack
<1> QED
  BY <1>1, <1>3, <1>4, PTL DEF Spec, RoundTrip

-----------------------------------------------------------------------------
(* The settings of the camera                                              *)

Fetch == [p : CameraParam, last : BOOLEAN]

SettingsType(d) ==
  /\ DOMAIN d = {"known", "current", "queue", "subscribed", "told"}
  /\ d.known \in Seq(CameraParam)
  /\ d.queue \in Seq(Fetch)

\* The subscriber was told of the settings last.
Notified(d) ==
  d.subscribed /\ get_possible_settings(d) \ {CamMode} # {} => d.told = Visible(d)

LEMMA SameSettings ==
  ASSUME NEW d, NEW e, e.known = d.known, e.current = d.current
  PROVE  /\ Known(e) = Known(d)
         /\ get_possible_settings(e) = get_possible_settings(d)
         /\ Visible(e) = Visible(d)
<1>1. Known(e) = Known(d)
  BY Zenon DEF Known
<1>2. Chosen(e) = Chosen(d)
  BY <1>1, Zenon DEF Chosen
<1>3. get_possible_settings(e) = get_possible_settings(d)
  BY <1>1, <1>2, Zenon DEF get_possible_settings, Excluded
<1> QED
  BY <1>1, <1>3, Zenon DEF Visible

LEMMA SetSettingKeeps ==
  ASSUME NEW d, SettingsType(d), NEW p, NEW v
  PROVE  SettingsType(set_setting(d, p, v)) /\ set_setting(d, p, v).queue = d.queue
<1>1. ASSUME NEW c PROVE LET e == [d EXCEPT !.current = c] IN SettingsType(e) /\ e.queue = d.queue
  BY DEF SettingsType
<1> QED
  BY <1>1, Zenon DEF set_setting

\* The parameters of the file
LEMMA ParamsType == Definition.params \in Seq(CameraParam)
<1>1. PICK ps : ps = Definition.params
  OBVIOUS
<1>2. ps \in Seq(STRING)
  BY <1>1, DefinitionAssumption
<1>3. Len(ps) \in Nat /\ ps \in [1 .. Len(ps) -> STRING]
  BY <1>2, LenProperties, SeqDef
<1>4. ps \in [1 .. Len(ps) -> {ps[i] : i \in 1 .. Len(ps)}]
  BY <1>3
<1>5. ps \in Seq({ps[i] : i \in 1 .. Len(ps)})
  BY <1>3, <1>4, SeqDef
<1> QED
  BY <1>1, <1>5 DEF CameraParam

\* What is unknown is of the file too.
LEMMA UnknownType == ASSUME NEW d, SettingsType(d) PROVE get_unknown_params(d) \in Seq(CameraParam)
<1>1. PICK n \in Nat : n = Len(d.known)
  BY LenProperties DEF SettingsType
<1>2. PICK g : g = [i \in 1 .. n |-> IF d.current[d.known[i]].unknown THEN <<d.known[i]>> ELSE <<>>]
  OBVIOUS
<1>3. \A i \in 1 .. n : g[i] \in Seq(CameraParam)
  <2> SUFFICES ASSUME NEW i \in 1 .. n PROVE g[i] \in Seq(CameraParam)
    OBVIOUS
  <2>1. PICK p \in CameraParam : p = d.known[i]
    BY <1>1, ElementOfSeq DEF SettingsType
  <2>2. <<p>> \in Seq(CameraParam) /\ <<>> \in Seq(CameraParam)
    BY <2>1
  <2>3. g[i] = IF d.current[p].unknown THEN <<p>> ELSE <<>>
    BY <1>2, <2>1, Zenon
  <2> QED
    BY <2>2, <2>3, Zenon
<1>4. g \in [1 .. n -> Seq(CameraParam)]
  BY <1>2, <1>3
<1>5. g \in Seq(Seq(CameraParam))
  BY <1>4, SeqDef
<1>6. get_unknown_params(d) = FlattenSeq(g)
  BY <1>1, <1>2, Zenon DEF get_unknown_params
<1> QED
  BY <1>5, <1>6, FlattenType

\* The fetches of a refresh: the last of them tells.
LEMMA LastTells ==
  ASSUME NEW u \in Seq(CameraParam), u # <<>>
  PROVE  LET ws == [i \in 1 .. Len(u) |-> [p |-> u[i], last |-> i = Len(u)]]
         IN  ws \in Seq(Fetch) /\ ws # <<>> /\ Last(ws).last
<1>1. PICK n \in Nat : n = Len(u) /\ n > 0
  <2>1. Len(u) \in Nat /\ Len(u) # 0
    BY EmptySeq, LenProperties
  <2> QED
    BY <2>1
<1>2. PICK ws : ws = [i \in 1 .. n |-> [p |-> u[i], last |-> i = n]]
  OBVIOUS
<1>3. \A i \in 1 .. n : ws[i] \in Fetch /\ ws[i].last = (i = n)
  <2> SUFFICES ASSUME NEW i \in 1 .. n PROVE ws[i] \in Fetch /\ ws[i].last = (i = n)
    OBVIOUS
  <2>1. u[i] \in CameraParam
    BY <1>1, ElementOfSeq
  <2>2. ws[i] = [p |-> u[i], last |-> i = n]
    BY <1>2
  <2> QED
    BY <2>1, <2>2 DEF Fetch
<1>4. ws \in [1 .. n -> Fetch]
  BY <1>2, <1>3
<1>5. ws \in Seq(Fetch) /\ Len(ws) = n
  BY <1>1, <1>4, SeqDef, LenProperties
<1>6. ws # <<>> /\ Last(ws).last
  <2>1. n \in 1 .. n
    BY <1>1
  <2>2. Last(ws) = ws[n]
    BY <1>5 DEF Last
  <2> QED
    BY <1>1, <1>3, <1>5, <2>1, <2>2, EmptySeq
<1> QED
  BY <1>1, <1>2, <1>5, <1>6, Zenon

\* What is left of fetches after the first
LEMMA RestOfFetches ==
  ASSUME NEW q \in Seq(Fetch), q # <<>>
  PROVE  /\ Head(q) \in Fetch /\ Tail(q) \in Seq(Fetch)
         /\ Tail(q) # <<>> => Last(Tail(q)) = Last(q)
         /\ Tail(q) = <<>> => Last(q) = Head(q)
<1>1. PICK n \in Nat : n = Len(q)
  BY LenProperties
<1>2. PICK t : t = Tail(q)
  OBVIOUS
<1>3. /\ n > 0 /\ Head(q) = q[1] /\ t \in Seq(Fetch) /\ Len(t) = n - 1
      /\ \A i \in 1 .. n - 1 : t[i] = q[i + 1]
  BY <1>1, <1>2, HeadTailProperties, EmptySeq
<1>4. q[1] \in Fetch
  BY <1>1, <1>3, ElementOfSeq
<1>5. t = <<>> <=> n = 1
  <2>1. t = <<>> <=> Len(t) = 0
    BY <1>3, EmptySeq
  <2> QED
    BY <1>1, <1>3, <2>1
<1>6. Last(q) = q[n]
  BY <1>1 DEF Last
<1>7. ASSUME n # 1 PROVE Last(t) = q[n]
  <2>1. n - 1 \in 1 .. n - 1 /\ (n - 1) + 1 = n
    BY <1>1, <1>3, <1>7
  <2> QED
    BY <1>3, <2>1 DEF Last
<1> QED
  BY <1>2, <1>3, <1>4, <1>5, <1>6, <1>7, Zenon

Where == {"idle", "refresh", "fetch", "list", "tell"}

\* The two threads.  Of two lists that are about to be told one is the older.
ThreadsInv ==
  /\ at \in [SettingThread -> Where]
  /\ todo \in [SettingThread -> Seq(Fetch)]
  /\ older \in [SettingThread -> BOOLEAN]
  /\ DOMAIN listed = SettingThread
  /\ \A t \in SettingThread : at[t] = "fetch" => todo[t] # <<>>
  /\ at["user"] = "tell" /\ at["receiver"] = "tell" => older["user"] # older["receiver"]

\* Some thread will put the settings together, or the receive thread will when the
\* last fetch ends.
Coming ==
  \/ definition.queue # <<>>
  \/ \E t \in SettingThread : at[t] \in {"refresh", "fetch", "list"}

Newest(t) == at[t] = "tell" /\ ~older[t]

\* The subscriber was told the current settings, or is about to be told.
Informed ==
  definition.subscribed /\ get_possible_settings(definition) \ {CamMode} # {} =>
    /\ definition.told = Visible(definition) \/ \E t \in SettingThread : Newest(t)
    /\ \A t \in SettingThread : Newest(t) => listed[t] = Visible(definition)

\* Every fetch is followed by one that tells.
TellingInv ==
  /\ \A t \in SettingThread : at[t] = "fetch" => Last(todo[t]).last
  /\ definition.queue # <<>> =>
       Last(definition.queue).last \/ \E t \in SettingThread : at[t] = "fetch"
  /\ Coming \/ Informed

SettingsInv ==
  /\ SettingsType(definition)
  /\ underway = "get" => definition.queue # <<>>
  /\ ThreadsInv
  /\ lapses = {} => TellingInv

LEMMA SettingsStart == ASSUME SettingsInit PROVE SettingsInv
<1>1. /\ definition.queue = <<>> /\ definition.subscribed = FALSE /\ underway = "none"
      /\ at = [t \in SettingThread |-> "idle"] /\ todo = [t \in SettingThread |-> <<>>]
      /\ older = [t \in SettingThread |-> FALSE] /\ DOMAIN listed = SettingThread
  BY DEF SettingsInit
<1>2. SettingsType(definition)
  BY EmptySeq DEF SettingsInit, SettingsType
<1>3. <<>> \in Seq(Fetch)
  BY EmptySeq
<1>4. ThreadsInv
  BY <1>1, <1>3 DEF ThreadsInv, Where, SettingThread
<1>5. TellingInv
  BY <1>1 DEF TellingInv, Informed
<1> QED
  BY <1>1, <1>2, <1>4, <1>5, Zenon DEF SettingsInv

\* A thread that goes on elsewhere, and is not about to tell
LEMMA ThreadMoves ==
  ASSUME ThreadsInv, NEW t \in SettingThread, NEW where \in Where \ {"tell"},
         at' = [at EXCEPT ![t] = where],
         NEW ws \in Seq(Fetch), where = "fetch" => ws # <<>>,
         todo' = [todo EXCEPT ![t] = ws] \/ (UNCHANGED todo /\ where # "fetch"),
         UNCHANGED <<older, listed>>
  PROVE  /\ ThreadsInv' /\ at'[t] = where
         /\ \A u \in SettingThread : u # t => at'[u] = at[u] /\ todo'[u] = todo[u]
<1>1. at' \in [SettingThread -> Where] /\ todo' \in [SettingThread -> Seq(Fetch)]
  BY DEF ThreadsInv
<1>2. at'[t] = where /\ (where = "fetch" => todo'[t] = ws)
      /\ \A u \in SettingThread : u # t => at'[u] = at[u] /\ todo'[u] = todo[u]
  BY DEF ThreadsInv
<1>3. \A u \in SettingThread : at'[u] = "fetch" => todo'[u] # <<>>
  BY <1>2 DEF ThreadsInv
<1>4. ~(at'["user"] = "tell" /\ at'["receiver"] = "tell")
  BY <1>2 DEF SettingThread
<1> QED
  BY <1>1, <1>2, <1>3, <1>4, Zenon DEF ThreadsInv

\* A step after which a thread has still to refresh, or to put the settings together
LEMMA StartStep ==
  ASSUME SettingsInv, NEW t \in SettingThread, NEW where \in {"refresh", "list"},
         at[t] # "fetch", at' = [at EXCEPT ![t] = where], UNCHANGED <<todo, listed, older>>,
         SettingsType(definition'), definition'.queue = definition.queue,
         UNCHANGED lapses, underway' = "get" => underway = "get"
  PROVE  SettingsInv'
<1>1. ThreadsInv /\ <<>> \in Seq(Fetch) /\ where \in Where \ {"tell"} /\ where # "fetch"
  BY EmptySeq DEF SettingsInv, Where
<1>2. /\ ThreadsInv' /\ at'[t] = where
      /\ \A u \in SettingThread : u # t => at'[u] = at[u]
  BY <1>1, ThreadMoves, Zenon
<1>3. ASSUME lapses' = {} PROVE TellingInv'
  <2>1. TellingInv
    BY <1>3 DEF SettingsInv
  <2>2. \A u \in SettingThread : at'[u] = "fetch" <=> at[u] = "fetch"
    BY <1>2
  <2>3. Coming'
    BY <1>2 DEF Coming
  <2> QED
    BY <2>1, <2>2, <2>3, Zenon DEF TellingInv
<1> QED
  BY <1>2, <1>3, Zenon DEF SettingsInv

LEMMA RefreshStep ==
  ASSUME SettingsInv, NEW t \in SettingThread, refresh_params(t) PROVE SettingsInv'
<1>1. PICK u : u = get_unknown_params(definition)
  OBVIOUS
<1>2. u \in Seq(CameraParam)
  BY <1>1, UnknownType DEF SettingsInv
<1>3. at[t] = "refresh" /\ UNCHANGED <<definition, listed, older, lapses>>
  BY DEF refresh_params
<1>4. CASE u = <<>>
  <2>1. at' = [at EXCEPT ![t] = "list"] /\ UNCHANGED <<underway, todo>>
    BY <1>1, <1>4, Zenon DEF refresh_params, GoTo
  <2>2. SettingsType(definition') /\ definition'.queue = definition.queue
    BY <1>3, Zenon DEF SettingsInv
  <2>3. at[t] # "fetch"
    BY <1>3
  <2> QED
    BY <1>3, <2>1, <2>2, <2>3, StartStep, Zenon
<1>5. CASE u # <<>>
  <2>1. PICK ws : ws = [i \in 1 .. Len(u) |-> [p |-> u[i], last |-> i = Len(u)]]
    OBVIOUS
  <2>2. ws \in Seq(Fetch) /\ ws # <<>> /\ Last(ws).last
    BY <1>2, <1>5, <2>1, LastTells, Zenon
  <2>3. /\ at' = [at EXCEPT ![t] = "fetch"] /\ todo' = [todo EXCEPT ![t] = ws]
        /\ UNCHANGED underway
    BY <1>1, <1>5, <2>1, Zenon DEF refresh_params, GoTo
  <2>4. /\ ThreadsInv' /\ at'[t] = "fetch"
        /\ \A o \in SettingThread : o # t => at'[o] = at[o] /\ todo'[o] = todo[o]
    <3>1. ThreadsInv /\ "fetch" \in Where \ {"tell"}
      BY DEF SettingsInv, Where
    <3> QED
      BY <1>3, <2>2, <2>3, <3>1, ThreadMoves, Zenon
  <2>5. todo'[t] = ws
    BY <2>3 DEF SettingsInv, ThreadsInv
  <2>6. ASSUME lapses' = {} PROVE TellingInv'
    <3>1. TellingInv
      BY <1>3, <2>6 DEF SettingsInv
    <3>2. Coming'
      BY <2>4 DEF Coming
    <3>3. ASSUME NEW o \in SettingThread, at'[o] = "fetch" PROVE Last(todo'[o]).last
      <4>1. CASE o = t
        BY <2>2, <2>5, <4>1
      <4>2. CASE o # t
        BY <2>4, <3>1, <3>3, <4>2, Zenon DEF TellingInv
      <4> QED
        BY <4>1, <4>2
    <3> QED
      BY <2>4, <3>2, <3>3, Zenon DEF TellingInv
  <2> QED
    BY <1>3, <2>3, <2>4, <2>6, Zenon DEF SettingsInv
<1> QED
  BY <1>4, <1>5

LEMMA AsyncStep ==
  ASSUME SettingsInv, NEW t \in SettingThread, get_param_async(t) PROVE SettingsInv'
<1>0. ThreadsInv /\ SettingsType(definition)
  BY DEF SettingsInv
<1>1. PICK w : w = Head(todo[t])
  OBVIOUS
<1>2. PICK rest : rest = Tail(todo[t])
  OBVIOUS
<1>3. PICK where : where = IF rest # <<>> THEN "fetch" ELSE IF w.last THEN "list" ELSE "idle"
  OBVIOUS
<1>4. /\ at[t] = "fetch" /\ todo[t] \in Seq(Fetch) /\ todo[t] # <<>>
      /\ todo' = [todo EXCEPT ![t] = rest] /\ UNCHANGED <<listed, older>>
  BY <1>0, <1>2 DEF get_param_async, ThreadsInv
<1>5. /\ w \in Fetch /\ rest \in Seq(Fetch)
      /\ rest # <<>> => Last(rest) = Last(todo[t])
      /\ rest = <<>> => Last(todo[t]) = w
  BY <1>1, <1>2, <1>4, RestOfFetches, Zenon
<1>6. todo'[t] = rest
  BY <1>0, <1>4 DEF ThreadsInv
<1>7. ASSUME NEW x \in {"fetch", "list", "idle"}, at' = [at EXCEPT ![t] = x],
             x = "fetch" => rest # <<>>
      PROVE  /\ ThreadsInv' /\ at'[t] = x
             /\ \A o \in SettingThread : o # t => at'[o] = at[o] /\ todo'[o] = todo[o]
  <2>1. x \in Where \ {"tell"}
    BY DEF Where
  <2> QED
    BY <1>0, <1>4, <1>5, <1>7, <2>1, ThreadMoves, Zenon
<1>8. ASSUME lapses = {}, at'[t] = "fetch" => rest # <<>>,
             \A o \in SettingThread : o # t => at'[o] = at[o] /\ todo'[o] = todo[o]
      PROVE  \A o \in SettingThread : at'[o] = "fetch" => Last(todo'[o]).last
  <2>1. \A o \in SettingThread : at[o] = "fetch" => Last(todo[o]).last
    BY <1>8, Zenon DEF SettingsInv, TellingInv
  <2> SUFFICES ASSUME NEW o \in SettingThread, at'[o] = "fetch" PROVE Last(todo'[o]).last
    OBVIOUS
  <2>2. CASE o = t
    BY <1>4, <1>5, <1>6, <1>8, <2>1, <2>2, Zenon
  <2>3. CASE o # t
    BY <1>8, <2>1, <2>3, Zenon
  <2> QED
    BY <2>2, <2>3
<1>9. CASE /\ definition' = set_setting(definition, w.p, cached[w.p])
           /\ IF where = "idle" THEN Return(t) ELSE GoTo(t, where)
           /\ lapses' = lapses \cup
                IF w.last /\ definition.queue # <<>> /\ ~Last(definition.queue).last
                THEN {"overtaken"} ELSE {}
  <2>1. SettingsType(definition') /\ definition'.queue = definition.queue
    BY <1>0, <1>9, SetSettingKeeps, Zenon
  <2>2. where \in {"fetch", "list", "idle"} /\ (where = "fetch" <=> rest # <<>>)
        /\ (where = "idle" => rest = <<>> /\ ~w.last)
    BY <1>3
  <2>3. at' = [at EXCEPT ![t] = where] /\ (underway' = "get" => underway = "get")
    BY <1>9, <2>2 DEF Return, GoTo
  <2>4. /\ ThreadsInv' /\ at'[t] = where
        /\ \A o \in SettingThread : o # t => at'[o] = at[o] /\ todo'[o] = todo[o]
    BY <1>7, <2>2, <2>3, Zenon
  <2>5. ASSUME lapses' = {} PROVE TellingInv'
    <3>1. lapses = {} /\ (w.last /\ definition.queue # <<>> => Last(definition.queue).last)
      BY <1>9, <2>5
    <3>2. Last(todo[t]).last
      BY <1>4, <3>1, Zenon DEF SettingsInv, TellingInv
    <3>3. where # "idle"
      BY <1>5, <2>2, <3>2
    <3>4. Coming'
      BY <2>2, <2>4, <3>3 DEF Coming
    <3>5. ASSUME definition'.queue # <<>>
          PROVE  Last(definition'.queue).last \/ \E o \in SettingThread : at'[o] = "fetch"
      <4>1. CASE rest = <<>>
        BY <1>5, <2>1, <3>1, <3>2, <3>5, <4>1
      <4>2. CASE rest # <<>>
        BY <2>2, <2>4, <4>2
      <4> QED
        BY <4>1, <4>2
    <3> QED
      BY <1>8, <2>2, <2>4, <3>1, <3>4, <3>5, Zenon DEF TellingInv
  <2>6. underway' = "get" => definition'.queue # <<>>
    BY <2>1, <2>3 DEF SettingsInv
  <2> QED
    BY <2>1, <2>4, <2>5, <2>6, Zenon DEF SettingsInv
<1>10. CASE /\ definition' = [definition EXCEPT !.queue = Append(@, w)]
            /\ IF where = "fetch" THEN GoTo(t, where) ELSE Return(t)
            /\ UNCHANGED lapses
  <2>1. PICK q : q = Append(definition.queue, w)
    OBVIOUS
  <2>2. q \in Seq(Fetch) /\ q # <<>> /\ Last(q) = w
    <3>1. definition.queue \in Seq(Fetch)
      BY <1>0 DEF SettingsType
    <3> QED
      BY <1>5, <2>1, <3>1, AppendProperties DEF Last
  <2>3. definition' = [definition EXCEPT !.queue = q]
    BY <1>10, <2>1, Zenon
  <2>4. SettingsType(definition') /\ definition'.queue = q
    BY <1>0, <2>2, <2>3 DEF SettingsType
  <2>5. PICK x \in {"fetch", "idle"} : at' = [at EXCEPT ![t] = x] /\ (x = "fetch" <=> rest # <<>>)
    BY <1>3, <1>10 DEF Return, GoTo
  <2>6. /\ ThreadsInv' /\ at'[t] = x
        /\ \A o \in SettingThread : o # t => at'[o] = at[o] /\ todo'[o] = todo[o]
    BY <1>7, <2>5
  <2>7. ASSUME lapses' = {} PROVE TellingInv'
    <3>1. lapses = {}
      BY <1>10, <2>7
    <3>2. Last(todo[t]).last
      BY <1>4, <3>1, Zenon DEF SettingsInv, TellingInv
    <3>3. Coming'
      BY <2>2, <2>4 DEF Coming
    <3>4. Last(definition'.queue).last \/ \E o \in SettingThread : at'[o] = "fetch"
      <4>1. CASE rest = <<>>
        BY <1>5, <2>2, <2>4, <3>2, <4>1
      <4>2. CASE rest # <<>>
        BY <2>5, <2>6, <4>2
      <4> QED
        BY <4>1, <4>2
    <3> QED
      BY <1>8, <2>5, <2>6, <3>1, <3>3, <3>4, Zenon DEF TellingInv
  <2> QED
    BY <2>2, <2>4, <2>6, <2>7, Zenon DEF SettingsInv
<1> QED
  BY <1>1, <1>2, <1>3, <1>9, <1>10, Zenon DEF get_param_async

\* The list that is put together last is current.
LEMMA ListStep ==
  ASSUME SettingsInv, NEW t \in SettingThread, PutTogether(t) PROVE SettingsInv'
<1>0. ThreadsInv /\ SettingsType(definition)
  BY DEF SettingsInv
<1>1. at[t] = "list" /\ UNCHANGED <<definition, todo, lapses>>
  BY DEF PutTogether
<1>2. ASSUME lapses = {}, NEW x \in {"tell", "idle"}, at'[t] = x,
             \A o \in SettingThread : o # t => at'[o] = at[o], Informed'
      PROVE  TellingInv'
  <2>1. \A o \in SettingThread : at'[o] = "fetch" <=> at[o] = "fetch"
    BY <1>1, <1>2
  <2>2. TellingInv
    BY <1>2 DEF SettingsInv
  <2> QED
    BY <1>1, <1>2, <2>1, <2>2, Zenon DEF TellingInv
<1>3. CASE /\ GoTo(t, "tell") /\ listed' = [listed EXCEPT ![t] = Visible(definition)]
           /\ older' = [u \in SettingThread |-> u # t /\ at[u] = "tell"]
  <2>1. at' = [at EXCEPT ![t] = "tell"] /\ UNCHANGED underway
    BY <1>3 DEF GoTo
  <2>2. at'[t] = "tell" /\ \A o \in SettingThread : o # t => at'[o] = at[o]
    BY <1>0, <2>1 DEF ThreadsInv
  <2>3. listed'[t] = Visible(definition) /\ DOMAIN listed' = SettingThread
    BY <1>0, <1>3 DEF ThreadsInv
  <2>4. /\ older' \in [SettingThread -> BOOLEAN] /\ older'[t] = FALSE
        /\ \A o \in SettingThread : o # t => older'[o] = (at[o] = "tell")
    BY <1>3
  <2>5. ThreadsInv'
    <3>1. at' \in [SettingThread -> Where] /\ todo' \in [SettingThread -> Seq(Fetch)]
      BY <1>0, <1>1, <2>1 DEF ThreadsInv, Where
    <3>2. \A o \in SettingThread : at'[o] = "fetch" => todo'[o] # <<>>
      BY <1>0, <1>1, <2>2 DEF ThreadsInv
    <3>3. at'["user"] = "tell" /\ at'["receiver"] = "tell" => older'["user"] # older'["receiver"]
      BY <2>2, <2>4 DEF SettingThread
    <3> QED
      BY <2>3, <2>4, <3>1, <3>2, <3>3, Zenon DEF ThreadsInv
  <2>6. Informed'
    <3>1. Newest(t)' /\ \A o \in SettingThread : Newest(o)' => o = t
      BY <2>2, <2>4 DEF Newest
    <3>2. Visible(definition') = Visible(definition)
      BY <1>1, Zenon
    <3> QED
      BY <2>3, <3>1, <3>2, Zenon DEF Informed
  <2>7. lapses' = {} => TellingInv'
    BY <1>1, <1>2, <2>2, <2>6, Zenon
  <2> QED
    BY <1>1, <2>1, <2>5, <2>7, Zenon DEF SettingsInv
<1>4. CASE /\ ~(definition.subscribed /\ get_possible_settings(definition) \ {CamMode} # {})
           /\ Return(t) /\ UNCHANGED <<listed, older>>
  <2>1. at' = [at EXCEPT ![t] = "idle"] /\ (underway' = "get" => underway = "get")
    BY <1>4 DEF Return
  <2>2. /\ ThreadsInv' /\ at'[t] = "idle"
        /\ \A u \in SettingThread : u # t => at'[u] = at[u] /\ todo'[u] = todo[u]
    <3>1. <<>> \in Seq(Fetch) /\ "idle" \in Where \ {"tell"} /\ "idle" # "fetch"
      BY EmptySeq DEF Where
    <3> QED
      BY <1>0, <1>1, <1>4, <2>1, <3>1, ThreadMoves, Zenon
  <2>3. Informed'
    BY <1>1, <1>4, Zenon DEF Informed
  <2>4. lapses' = {} => TellingInv'
    BY <1>1, <1>2, <2>2, <2>3, Zenon
  <2> QED
    BY <1>1, <2>1, <2>2, <2>4, Zenon DEF SettingsInv
<1> QED
  BY <1>3, <1>4, Zenon DEF PutTogether

\* It is told last, or the notifications overlap.
LEMMA TellStep ==
  ASSUME SettingsInv, NEW t \in SettingThread, TellSettings(t) PROVE SettingsInv'
<1>0. ThreadsInv /\ SettingsType(definition)
  BY DEF SettingsInv
<1>1. /\ at[t] = "tell" /\ UNCHANGED todo
      /\ definition' = [definition EXCEPT !.told = listed[t]]
      /\ listed' = [listed EXCEPT ![t] = [p \in {} |-> Unread]]
      /\ older' = [older EXCEPT ![t] = FALSE]
      /\ at' = [at EXCEPT ![t] = "idle"] /\ (underway' = "get" => underway = "get")
  BY DEF TellSettings, Return
<1>2. /\ SettingsType(definition') /\ definition'.told = listed[t]
      /\ definition'.queue = definition.queue /\ definition'.known = definition.known
      /\ definition'.current = definition.current
      /\ definition'.subscribed = definition.subscribed
  BY <1>0, <1>1 DEF SettingsType
<1>3. /\ get_possible_settings(definition') = get_possible_settings(definition)
      /\ Visible(definition') = Visible(definition)
  BY <1>2, SameSettings
<1>4. /\ at'[t] = "idle" /\ ~older'[t]
      /\ \A o \in SettingThread :
           o # t => at'[o] = at[o] /\ listed'[o] = listed[o] /\ older'[o] = older[o]
  BY <1>0, <1>1 DEF ThreadsInv
<1>5. ThreadsInv'
  <2>1. /\ at' \in [SettingThread -> Where] /\ older' \in [SettingThread -> BOOLEAN]
        /\ DOMAIN listed' = SettingThread
    BY <1>0, <1>1 DEF ThreadsInv, Where
  <2>2. \A o \in SettingThread : at'[o] = "fetch" => todo'[o] # <<>>
    BY <1>0, <1>1, <1>4 DEF ThreadsInv
  <2>3. ~(at'["user"] = "tell" /\ at'["receiver"] = "tell")
    BY <1>4 DEF SettingThread
  <2>4. todo' \in [SettingThread -> Seq(Fetch)]
    BY <1>0, <1>1, Zenon DEF ThreadsInv
  <2> QED
    BY <2>1, <2>2, <2>3, <2>4, Zenon DEF ThreadsInv
<1>6. ASSUME lapses' = {} PROVE TellingInv'
  <2>1. lapses = {} /\ (older[t] => \E u \in SettingThread \ {t} : at[u] = "tell")
    BY <1>6 DEF TellSettings
  <2>2. TellingInv
    BY <2>1 DEF SettingsInv
  <2>3. \A o \in SettingThread : at'[o] \in {"refresh", "fetch", "list"} <=>
                                 at[o] \in {"refresh", "fetch", "list"}
    BY <1>1, <1>4
  <2>4. \A o \in SettingThread : at'[o] = "fetch" <=> at[o] = "fetch"
    BY <1>1, <1>4
  <2>5. Coming' <=> Coming
    BY <1>2, <2>3, Zenon DEF Coming
  <2>6. \A o \in SettingThread : Newest(o)' => Newest(o) /\ listed'[o] = listed[o]
    BY <1>4 DEF Newest
  <2>7. ASSUME Informed PROVE Informed'
    <3> SUFFICES ASSUME definition.subscribed,
                        get_possible_settings(definition) \ {CamMode} # {}
                 PROVE  /\ definition'.told = Visible(definition)
                             \/ \E o \in SettingThread : Newest(o)'
                        /\ \A o \in SettingThread : Newest(o)' => listed'[o] = Visible(definition)
      BY <1>2, <1>3, Zenon DEF Informed
    <3>1. \A o \in SettingThread : Newest(o) => listed[o] = Visible(definition)
      BY <2>7, Zenon DEF Informed
    <3>2. CASE older[t]
      <4>1. PICK u \in SettingThread : u # t /\ at[u] = "tell"
        BY <2>1, <3>2
      <4>2. ~older[u]
        BY <1>0, <1>1, <3>2, <4>1 DEF ThreadsInv, SettingThread
      <4>3. Newest(u)'
        BY <1>4, <4>1, <4>2 DEF Newest
      <4> QED
        BY <2>6, <3>1, <4>3, Zenon
    <3>3. CASE ~older[t]
      <4>1. Newest(t)
        BY <1>1, <3>3 DEF Newest
      <4> QED
        BY <1>2, <2>6, <3>1, <4>1, Zenon
    <3> QED
      BY <3>2, <3>3
  <2> QED
    BY <1>1, <1>2, <2>2, <2>4, <2>5, <2>7, Zenon DEF TellingInv
<1>7. underway' = "get" => definition'.queue # <<>>
  BY <1>1, <1>2 DEF SettingsInv
<1> QED
  BY <1>2, <1>5, <1>6, <1>7, Zenon DEF SettingsInv

LEMMA FetchedStep == ASSUME SettingsInv, Fetched PROVE SettingsInv'
<1>0. ThreadsInv /\ SettingsType(definition) /\ UNCHANGED todo
  BY DEF SettingsInv, Fetched
<1>1. PICK q : q = definition.queue
  OBVIOUS
<1>2. PICK w : w = Head(q)
  OBVIOUS
<1>3. q \in Seq(Fetch) /\ q # <<>>
  BY <1>1 DEF Fetched, SettingsInv, SettingsType
<1>4. /\ Tail(q) \in Seq(Fetch)
      /\ Tail(q) # <<>> => Last(Tail(q)) = Last(q)
      /\ Tail(q) = <<>> => Last(q) = w
  BY <1>2, <1>3, RestOfFetches, Zenon
<1>5. PICK d : d = [definition EXCEPT !.queue = Tail(@)]
  OBVIOUS
<1>6. SettingsType(d) /\ d.queue = Tail(q)
  BY <1>0, <1>1, <1>4, <1>5 DEF SettingsType
<1>7. CASE /\ at["receiver"] = "idle" /\ definition' = set_setting(d, w.p, actual[w.p])
           /\ IF w.last THEN Start("receiver", "list") /\ underway' = "got"
              ELSE UNCHANGED <<at, listed, older>> /\ underway' = "none"
           /\ UNCHANGED lapses
  <2>1. SettingsType(definition') /\ definition'.queue = Tail(q)
    BY <1>6, <1>7, SetSettingKeeps, Zenon
  <2>2. underway' # "get"
    BY <1>7
  <2>3. ThreadsInv' /\ (w.last => at'["receiver"] = "list")
        /\ \A t \in SettingThread : at'[t] = "fetch" <=> at[t] = "fetch"
    <3>1. CASE w.last
      <4>1. at' = [at EXCEPT !["receiver"] = "list"] /\ UNCHANGED <<listed, older>>
        BY <1>7, <3>1 DEF Start
      <4>2. "receiver" \in SettingThread /\ "list" \in Where \ {"tell"} /\ "list" # "fetch"
            /\ <<>> \in Seq(Fetch)
        BY EmptySeq DEF SettingThread, Where
      <4>3. /\ ThreadsInv' /\ at'["receiver"] = "list"
            /\ \A u \in SettingThread : u # "receiver" => at'[u] = at[u] /\ todo'[u] = todo[u]
        BY <1>0, <4>1, <4>2, ThreadMoves, Zenon
      <4> QED
        BY <1>7, <4>3
    <3>2. CASE ~w.last
      BY <1>0, <1>7, <3>2, Zenon DEF ThreadsInv
    <3> QED
      BY <3>1, <3>2
  <2>4. ASSUME lapses' = {} PROVE TellingInv'
    <3>1. TellingInv
      BY <1>7, <2>4 DEF SettingsInv
    <3>2. Last(q).last \/ \E t \in SettingThread : at'[t] = "fetch"
      BY <1>1, <1>3, <2>3, <3>1, Zenon DEF TellingInv
    <3>3. \A t \in SettingThread : at'[t] = "fetch" => Last(todo'[t]).last
      BY <1>0, <2>3, <3>1, Zenon DEF TellingInv
    <3>4. definition'.queue # <<>> =>
            Last(definition'.queue).last \/ \E t \in SettingThread : at'[t] = "fetch"
      BY <1>4, <2>1, <3>2, Zenon
    <3>5. Coming'
      <4>1. CASE Tail(q) # <<>> \/ \E t \in SettingThread : at'[t] = "fetch"
        BY <2>1, <4>1 DEF Coming
      <4>2. CASE Tail(q) = <<>> /\ w.last
        BY <2>3, <4>2 DEF Coming, SettingThread
      <4> QED
        BY <1>4, <3>2, <4>1, <4>2, Zenon
    <3> QED
      BY <3>3, <3>4, <3>5, Zenon DEF TellingInv
  <2> QED
    BY <2>1, <2>2, <2>3, <2>4, Zenon DEF SettingsInv
<1>8. CASE /\ definition' = d /\ lapses' = lapses \cup {"failed"} /\ underway' = "none"
           /\ UNCHANGED <<at, listed, older>>
  <2>1. lapses' # {} /\ underway' # "get"
    BY <1>8
  <2>2. ThreadsInv'
    BY <1>0, <1>8, Zenon DEF ThreadsInv
  <2> QED
    BY <1>6, <1>8, <2>1, <2>2, Zenon DEF SettingsInv
<1> QED
  BY <1>1, <1>2, <1>5, <1>7, <1>8, Zenon DEF Fetched, FetchEnds

\* Nothing that the invariant is about changes.
LEMMA SettingsRest ==
  ASSUME SettingsInv, UNCHANGED <<definition, lapses, at, todo, older, listed>>,
         underway' = "get" => definition.queue # <<>>
  PROVE  SettingsInv'
<1>1. ThreadsInv => ThreadsInv'
  BY Zenon DEF ThreadsInv
<1>2. TellingInv => TellingInv'
  BY Zenon DEF TellingInv, Coming, Informed, Newest
<1> QED
  BY <1>1, <1>2, Zenon DEF SettingsInv

\* Every step of the settings keeps the invariant.
LEMMA SettingsStep == ASSUME SettingsInv, SettingsNext PROVE SettingsInv'
<1>0. SettingsType(definition) /\ ThreadsInv
  BY DEF SettingsInv
<1>a. "user" \in SettingThread /\ "receiver" \in SettingThread
  BY DEF SettingThread
<1>1. CASE LoadDefinition
  <2>1. PICK n \in 1 .. Len(Definition.params) :
          definition' = [definition EXCEPT !.known = SubSeq(Definition.params, 1, n),
                                           !.current = AllUnknown]
    BY <1>1 DEF LoadDefinition
  <2>2. PICK k : k = SubSeq(Definition.params, 1, n)
    OBVIOUS
  <2>3. k \in Seq(CameraParam)
    <3>1. Definition.params \in Seq(CameraParam)
      BY ParamsType
    <3> QED
      BY <2>2, <3>1, SubSeqProperties
  <2>4. SettingsType(definition') /\ definition'.queue = definition.queue
    <3>1. definition' = [definition EXCEPT !.known = k, !.current = AllUnknown]
      BY <2>1, <2>2, Zenon
    <3> QED
      BY <1>0, <2>3, <3>1 DEF SettingsType
  <2>5. /\ at["receiver"] = "idle" /\ at' = [at EXCEPT !["receiver"] = "refresh"]
        /\ UNCHANGED <<todo, listed, older, lapses, underway>>
    BY <1>1 DEF LoadDefinition, SettingAct, Start
  <2> QED
    BY <1>a, <2>4, <2>5, StartStep
<1>2. CASE EnableSettings
  <2>1. /\ at["receiver"] = "idle" /\ at' = [at EXCEPT !["receiver"] = "refresh"]
        /\ UNCHANGED <<definition, todo, listed, older, lapses, underway>>
    BY <1>2 DEF EnableSettings, SettingAct, Start
  <2>2. SettingsType(definition') /\ definition'.queue = definition.queue
    BY <1>0, <2>1, Zenon
  <2> QED
    BY <1>a, <2>1, <2>2, StartStep
<1>3. CASE DisableSettings
  <2>1. PICK c : c = [p \in CameraParam |-> [definition.current[p] EXCEPT !.unknown = TRUE]]
    OBVIOUS
  <2>2. definition' = [definition EXCEPT !.current = c]
    BY <1>3, <2>1, Zenon DEF DisableSettings, set_all_params_unknown
  <2>3. SettingsType(definition') /\ definition'.queue = definition.queue
    BY <1>0, <2>2 DEF SettingsType
  <2>4. lapses' # {} /\ underway' = underway /\ UNCHANGED <<at, todo, listed, older>>
    BY <1>3 DEF DisableSettings, threadVars
  <2>5. ThreadsInv'
    BY <1>0, <2>4, Zenon DEF ThreadsInv
  <2> QED
    BY <2>3, <2>4, <2>5, Zenon DEF SettingsInv
<1>4. CASE SubscribeSettings
  <2>1. SettingsType(definition') /\ definition'.queue = definition.queue
    BY <1>0, <1>4 DEF SettingsType, SubscribeSettings
  <2>2. /\ at["user"] = "idle" /\ at' = [at EXCEPT !["user"] = "list"]
        /\ UNCHANGED <<todo, listed, older, lapses, underway>>
    BY <1>4 DEF SubscribeSettings, SettingAct, Start
  <2> QED
    BY <1>a, <2>1, <2>2, StartStep
<1>5. CASE SetOption
  BY <1>5, SettingsRest DEF SetOption, threadVars, SettingsInv
<1>6. CASE GetOption
  <2>1. PICK p \in Known(definition) :
          todo' = [todo EXCEPT !["user"] = <<[p |-> p, last |-> FALSE]>>]
    BY <1>6 DEF GetOption
  <2>2. p \in CameraParam
    <3>1. Len(definition.known) \in Nat
      BY <1>0, LenProperties DEF SettingsType
    <3> QED
      BY <1>0, <3>1, ElementOfSeq DEF Known, SettingsType
  <2>3. PICK ws : ws = <<[p |-> p, last |-> FALSE]>>
    OBVIOUS
  <2>4. ws \in Seq(Fetch) /\ ws # <<>>
    BY <2>2, <2>3 DEF Fetch
  <2>5. /\ at' = [at EXCEPT !["user"] = "fetch"] /\ todo' = [todo EXCEPT !["user"] = ws]
        /\ UNCHANGED <<listed, older, definition, underway>>
    BY <1>6, <2>1, <2>3 DEF GetOption, Start
  <2>6. lapses' # {}
    BY <1>6 DEF GetOption
  <2>7. ThreadsInv'
    <3>1. "fetch" \in Where \ {"tell"}
      BY DEF Where
    <3> QED
      BY <1>0, <1>a, <2>4, <2>5, <3>1, ThreadMoves, Zenon
  <2> QED
    BY <2>5, <2>6, <2>7, Zenon DEF SettingsInv
<1>7. ASSUME NEW t \in SettingThread, SaveMode(t) PROVE SettingsInv'
  <2>1. PICK v : definition' = set_setting(definition, CamMode, v)
    BY <1>7 DEF SaveMode
  <2>2. SettingsType(definition') /\ definition'.queue = definition.queue
    BY <1>0, <2>1, SetSettingKeeps, Zenon
  <2>3. /\ at[t] = "idle" /\ at' = [at EXCEPT ![t] = "refresh"]
        /\ UNCHANGED <<todo, listed, older, lapses, underway>>
    BY <1>7 DEF SaveMode, SettingAct, Start
  <2> QED
    BY <2>2, <2>3, StartStep
<1>8. CASE StartWork
  <2>1. /\ UNCHANGED <<definition, lapses, at, todo, older, listed>>
        /\ underway' = "get" => definition.queue # <<>>
    BY <1>8 DEF StartWork, threadVars
  <2> QED
    BY <2>1, SettingsRest
<1>9. CASE Fetched
  BY <1>9, FetchedStep
<1>10. CASE OptionSet
  <2>1. UNCHANGED <<todo, lapses>>
    BY <1>10 DEF OptionSet
  <2>2. CASE underway' = "none" /\ UNCHANGED <<definition, at, listed, older>>
    BY <2>1, <2>2, SettingsRest
  <2>3. CASE /\ at["receiver"] = "idle" /\ Start("receiver", "refresh") /\ underway' = "put"
             /\ \E p, v : definition' = set_setting(definition, p, v)
    <3>1. SettingsType(definition') /\ definition'.queue = definition.queue
      BY <1>0, <2>3, SetSettingKeeps, Zenon
    <3>2. /\ at["receiver"] = "idle" /\ at' = [at EXCEPT !["receiver"] = "refresh"]
          /\ UNCHANGED <<listed, older>> /\ underway' # "get"
      BY <2>3 DEF Start
    <3> QED
      BY <1>a, <2>1, <3>1, <3>2, StartStep
  <2> QED
    BY <1>10, <2>2, <2>3, Zenon DEF OptionSet, SetEnds
<1> QED
  BY <1>1, <1>2, <1>3, <1>4, <1>5, <1>6, <1>7, <1>8, <1>9, <1>10, RefreshStep, AsyncStep,
     ListStep, TellStep DEF SettingsNext

\* Whoever subscribed to the settings was last told them as the plugin has them, for any
\* definition file, any settings made and fetched in any order, any answers of the cache,
\* and any order of the steps of the two threads, but for the cases ToldIsCurrent names:
\* behind each fetch that does not tell waits one that does, and of two lists that are
\* about to be told the newer is current.
THEOREM SettingsAreTold == Spec => []ToldIsCurrent
<1>1. Init => SettingsInv
  BY SettingsStart DEF Init
<1>2. ASSUME SettingsInv, UNCHANGED settingsVars PROVE SettingsInv'
  BY <1>2, SettingsRest DEF settingsVars, threadVars, SettingsInv
<1>3. SettingsInv /\ [Next]_viewVars => SettingsInv'
  BY <1>2, SettingsStep DEF Next, MissionView, TransferView, SettingsView,
     TelemetryView, viewVars
<1>4. SettingsInv => ToldIsCurrent
  <2> SUFFICES ASSUME SettingsInv, lapses = {}, AllReturned, definition.queue = <<>>
               PROVE  ToldLast
    BY Zenon DEF ToldIsCurrent, ToldLast
  <2>1. ~Coming /\ \A t \in SettingThread : ~Newest(t)
    BY DEF AllReturned, Coming, Newest
  <2> QED
    BY <2>1, Zenon DEF SettingsInv, TellingInv, Informed, ToldLast
<1> QED
  BY <1>1, <1>3, <1>4, PTL DEF Spec

=============================================================================
