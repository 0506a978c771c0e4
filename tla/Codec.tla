------------------------------- MODULE Codec -------------------------------
(***************************************************************************)
(* The AMQP 0-9-1 codec (amqp091/): what WriteFrame puts on the wire and   *)
(* what ReadFrame makes of the octets as they arrive.  The functions that  *)
(* write and read keep their names.  Strings, bodies and floats are        *)
(* sequences of octets; a Table that is written is the sequence of its     *)
(* entries in the order in which the map happened to yield them, a Table   *)
(* that was read is a function; times are whole seconds.                   *)
(***************************************************************************)
EXTENDS Integers, Sequences, SequencesExt, FiniteSetsExt, TLC

CONSTANTS
  Leaders,     \* the frames a peer may send first
  Followers,   \* the frames it may send after that
  MaxFrame,    \* bound: how many frames are sent
  MaxChunk,    \* bound: in how many chunks the octets arrive
  MaxTimeout   \* bound: how often the reader's deadline passes

frameMethod    == 1
frameHeader    == 2
frameBody      == 3
frameHeartbeat == 8
frameEnd       == 206

(***************************************************************************)
(* The methods: what ID and Wait return, and the fields in the order in    *)
(* which Write writes and Read reads them; consecutive bits share an octet *)
(***************************************************************************)
Field(kind, name) == [kind |-> kind, name |-> name]
Octet(name)    == Field("octet", name)
Short(name)    == Field("short", name)
Long(name)     == Field("long", name)
Longlong(name) == Field("longlong", name)
Shortstr(name) == Field("shortstr", name)
Longstr(name)  == Field("longstr", name)
Tbl(name)      == Field("table", name)
Bits(names)    == Field("bits", names)

\* wait: whether the method has a reply ("NoWait": unless that field is set)
Msg(name, class, method, wait, fields) ==
  [name |-> name, class |-> class, method |-> method, wait |-> wait, fields |-> fields]
UnlessNoWait == "NoWait"

ConnectionStart == Msg("ConnectionStart", 10, 10, TRUE,
  <<Octet("VersionMajor"), Octet("VersionMinor"), Tbl("ServerProperties"), Longstr("Mechanisms"),
    Longstr("Locales")>>)
ConnectionStartOk == Msg("ConnectionStartOk", 10, 11, TRUE,
  <<Tbl("ClientProperties"), Shortstr("Mechanism"), Longstr("Response"), Shortstr("Locale")>>)
ConnectionSecure == Msg("ConnectionSecure", 10, 20, TRUE, <<Longstr("Challenge")>>)
ConnectionSecureOk == Msg("ConnectionSecureOk", 10, 21, TRUE, <<Longstr("Response")>>)
ConnectionTune == Msg("ConnectionTune", 10, 30, TRUE,
  <<Short("ChannelMax"), Long("FrameMax"), Short("Heartbeat")>>)
ConnectionTuneOk == Msg("ConnectionTuneOk", 10, 31, TRUE,
  <<Short("ChannelMax"), Long("FrameMax"), Short("Heartbeat")>>)
ConnectionOpen == Msg("ConnectionOpen", 10, 40, TRUE,
  <<Shortstr("VirtualHost"), Shortstr("reserved1"), Bits(<<"reserved2">>)>>)
ConnectionOpenOk == Msg("ConnectionOpenOk", 10, 41, TRUE, <<Shortstr("reserved1")>>)
ConnectionClose == Msg("ConnectionClose", 10, 50, TRUE,
  <<Short("ReplyCode"), Shortstr("ReplyText"), Short("ClassId"), Short("MethodId")>>)
ConnectionCloseOk == Msg("ConnectionCloseOk", 10, 51, TRUE, <<>>)
ConnectionBlocked == Msg("ConnectionBlocked", 10, 60, FALSE, <<Shortstr("Reason")>>)
ConnectionUnblocked == Msg("ConnectionUnblocked", 10, 61, FALSE, <<>>)
ConnectionUpdateSecret == Msg("ConnectionUpdateSecret", 10, 70, TRUE,
  <<Longstr("NewSecret"), Shortstr("Reason")>>)
ConnectionUpdateSecretOk == Msg("ConnectionUpdateSecretOk", 10, 71, TRUE, <<>>)
ChannelOpen == Msg("ChannelOpen", 20, 10, TRUE, <<Shortstr("reserved1")>>)
ChannelOpenOk == Msg("ChannelOpenOk", 20, 11, TRUE, <<Longstr("reserved1")>>)
ChannelFlow == Msg("ChannelFlow", 20, 20, TRUE, <<Bits(<<"Active">>)>>)
ChannelFlowOk == Msg("ChannelFlowOk", 20, 21, FALSE, <<Bits(<<"Active">>)>>)
ChannelClose == Msg("ChannelClose", 20, 40, TRUE,
  <<Short("ReplyCode"), Shortstr("ReplyText"), Short("ClassId"), Short("MethodId")>>)
ChannelCloseOk == Msg("ChannelCloseOk", 20, 41, TRUE, <<>>)
ExchangeDeclare == Msg("ExchangeDeclare", 40, 10, UnlessNoWait,
  <<Short("reserved1"), Shortstr("Exchange"), Shortstr("Type"),
    Bits(<<"Passive", "Durable", "AutoDelete", "Internal", "NoWait">>), Tbl("Arguments")>>)
ExchangeDeclareOk == Msg("ExchangeDeclareOk", 40, 11, TRUE, <<>>)
ExchangeDelete == Msg("ExchangeDelete", 40, 20, UnlessNoWait,
  <<Short("reserved1"), Shortstr("Exchange"), Bits(<<"IfUnused", "NoWait">>)>>)
ExchangeDeleteOk == Msg("ExchangeDeleteOk", 40, 21, TRUE, <<>>)
ExchangeBind == Msg("ExchangeBind", 40, 30, UnlessNoWait,
  <<Short("reserved1"), Shortstr("Destination"), Shortstr("Source"), Shortstr("RoutingKey"),
    Bits(<<"NoWait">>), Tbl("Arguments")>>)
ExchangeBindOk == Msg("ExchangeBindOk", 40, 31, TRUE, <<>>)
ExchangeUnbind == Msg("ExchangeUnbind", 40, 40, UnlessNoWait,
  <<Short("reserved1"), Shortstr("Destination"), Shortstr("Source"), Shortstr("RoutingKey"),
    Bits(<<"NoWait">>), Tbl("Arguments")>>)
ExchangeUnbindOk == Msg("ExchangeUnbindOk", 40, 51, TRUE, <<>>)
QueueDeclare == Msg("QueueDeclare", 50, 10, UnlessNoWait,
  <<Short("reserved1"), Shortstr("Queue"),
    Bits(<<"Passive", "Durable", "Exclusive", "AutoDelete", "NoWait">>), Tbl("Arguments")>>)
QueueDeclareOk == Msg("QueueDeclareOk", 50, 11, TRUE,
  <<Shortstr("Queue"), Long("MessageCount"), Long("ConsumerCount")>>)
QueueBind == Msg("QueueBind", 50, 20, UnlessNoWait,
  <<Short("reserved1"), Shortstr("Queue"), Shortstr("Exchange"), Shortstr("RoutingKey"),
    Bits(<<"NoWait">>), Tbl("Arguments")>>)
QueueBindOk == Msg("QueueBindOk", 50, 21, TRUE, <<>>)
QueueUnbind == Msg("QueueUnbind", 50, 50, TRUE,
  <<Short("reserved1"), Shortstr("Queue"), Shortstr("Exchange"), Shortstr("RoutingKey"),
    Tbl("Arguments")>>)
QueueUnbindOk == Msg("QueueUnbindOk", 50, 51, TRUE, <<>>)
QueuePurge == Msg("QueuePurge", 50, 30, UnlessNoWait,
  <<Short("reserved1"), Shortstr("Queue"), Bits(<<"NoWait">>)>>)
QueuePurgeOk == Msg("QueuePurgeOk", 50, 31, TRUE, <<Long("MessageCount")>>)
QueueDelete == Msg("QueueDelete", 50, 40, UnlessNoWait,
  <<Short("reserved1"), Shortstr("Queue"), Bits(<<"IfUnused", "IfEmpty", "NoWait">>)>>)
QueueDeleteOk == Msg("QueueDeleteOk", 50, 41, TRUE, <<Long("MessageCount")>>)
BasicQos == Msg("BasicQos", 60, 10, TRUE,
  <<Long("PrefetchSize"), Short("PrefetchCount"), Bits(<<"Global">>)>>)
BasicQosOk == Msg("BasicQosOk", 60, 11, TRUE, <<>>)
BasicConsume == Msg("BasicConsume", 60, 20, UnlessNoWait,
  <<Short("reserved1"), Shortstr("Queue"), Shortstr("ConsumerTag"),
    Bits(<<"NoLocal", "NoAck", "Exclusive", "NoWait">>), Tbl("Arguments")>>)
BasicConsumeOk == Msg("BasicConsumeOk", 60, 21, TRUE, <<Shortstr("ConsumerTag")>>)
BasicCancel == Msg("BasicCancel", 60, 30, UnlessNoWait,
  <<Shortstr("ConsumerTag"), Bits(<<"NoWait">>)>>)
BasicCancelOk == Msg("BasicCancelOk", 60, 31, TRUE, <<Shortstr("ConsumerTag")>>)
BasicPublish == Msg("BasicPublish", 60, 40, FALSE,
  <<Short("reserved1"), Shortstr("Exchange"), Shortstr("RoutingKey"),
    Bits(<<"Mandatory", "Immediate">>)>>)
BasicReturn == Msg("BasicReturn", 60, 50, FALSE,
  <<Short("ReplyCode"), Shortstr("ReplyText"), Shortstr("Exchange"), Shortstr("RoutingKey")>>)
BasicDeliver == Msg("BasicDeliver", 60, 60, FALSE,
  <<Shortstr("ConsumerTag"), Longlong("DeliveryTag"), Bits(<<"Redelivered">>),
    Shortstr("Exchange"), Shortstr("RoutingKey")>>)
BasicGet == Msg("BasicGet", 60, 70, TRUE,
  <<Short("reserved1"), Shortstr("Queue"), Bits(<<"NoAck">>)>>)
BasicGetOk == Msg("BasicGetOk", 60, 71, TRUE,
  <<Longlong("DeliveryTag"), Bits(<<"Redelivered">>), Shortstr("Exchange"), Shortstr("RoutingKey"),
    Long("MessageCount")>>)
BasicGetEmpty == Msg("BasicGetEmpty", 60, 72, TRUE, <<Shortstr("reserved1")>>)
BasicAck == Msg("BasicAck", 60, 80, FALSE, <<Longlong("DeliveryTag"), Bits(<<"Multiple">>)>>)
BasicReject == Msg("BasicReject", 60, 90, FALSE, <<Longlong("DeliveryTag"), Bits(<<"Requeue">>)>>)
BasicRecoverAsync == Msg("BasicRecoverAsync", 60, 100, FALSE, <<Bits(<<"Requeue">>)>>)
BasicRecover == Msg("BasicRecover", 60, 110, TRUE, <<Bits(<<"Requeue">>)>>)
BasicRecoverOk == Msg("BasicRecoverOk", 60, 111, TRUE, <<>>)
BasicNack == Msg("BasicNack", 60, 120, FALSE,
  <<Longlong("DeliveryTag"), Bits(<<"Multiple", "Requeue">>)>>)
TxSelect == Msg("TxSelect", 90, 10, TRUE, <<>>)
TxSelectOk == Msg("TxSelectOk", 90, 11, TRUE, <<>>)
TxCommit == Msg("TxCommit", 90, 20, TRUE, <<>>)
TxCommitOk == Msg("TxCommitOk", 90, 21, TRUE, <<>>)
TxRollback == Msg("TxRollback", 90, 30, TRUE, <<>>)
TxRollbackOk == Msg("TxRollbackOk", 90, 31, TRUE, <<>>)
ConfirmSelect == Msg("ConfirmSelect", 85, 10, TRUE, <<Bits(<<"Nowait">>)>>)
ConfirmSelectOk == Msg("ConfirmSelectOk", 85, 11, TRUE, <<>>)

\* ParseMethodFrame: the method of each class by its number
ParseConnection ==
  10 :> ConnectionStart @@ 11 :> ConnectionStartOk @@ 20 :> ConnectionSecure @@
    21 :> ConnectionSecureOk @@ 30 :> ConnectionTune @@ 31 :> ConnectionTuneOk @@
    40 :> ConnectionOpen @@ 41 :> ConnectionOpenOk @@ 50 :> ConnectionClose @@
    51 :> ConnectionCloseOk @@ 60 :> ConnectionBlocked @@ 61 :> ConnectionUnblocked @@
    70 :> ConnectionUpdateSecret @@ 71 :> ConnectionUpdateSecretOk
ParseChannel ==
  10 :> ChannelOpen @@ 11 :> ChannelOpenOk @@ 20 :> ChannelFlow @@ 21 :> ChannelFlowOk @@
    40 :> ChannelClose @@ 41 :> ChannelCloseOk
ParseExchange ==
  10 :> ExchangeDeclare @@ 11 :> ExchangeDeclareOk @@ 20 :> ExchangeDelete @@
    21 :> ExchangeDeleteOk @@ 30 :> ExchangeBind @@ 31 :> ExchangeBindOk @@
    40 :> ExchangeUnbind @@ 51 :> ExchangeUnbindOk
ParseQueue ==
  10 :> QueueDeclare @@ 11 :> QueueDeclareOk @@ 20 :> QueueBind @@ 21 :> QueueBindOk @@
    50 :> QueueUnbind @@ 51 :> QueueUnbindOk @@ 30 :> QueuePurge @@ 31 :> QueuePurgeOk @@
    40 :> QueueDelete @@ 41 :> QueueDeleteOk
ParseBasic ==
  10 :> BasicQos @@ 11 :> BasicQosOk @@ 20 :> BasicConsume @@ 21 :> BasicConsumeOk @@
    30 :> BasicCancel @@ 31 :> BasicCancelOk @@ 40 :> BasicPublish @@ 50 :> BasicReturn @@
    60 :> BasicDeliver @@ 70 :> BasicGet @@ 71 :> BasicGetOk @@ 72 :> BasicGetEmpty @@
    80 :> BasicAck @@ 90 :> BasicReject @@ 100 :> BasicRecoverAsync @@ 110 :> BasicRecover @@
    111 :> BasicRecoverOk @@ 120 :> BasicNack
ParseTx ==
  10 :> TxSelect @@ 11 :> TxSelectOk @@ 20 :> TxCommit @@ 21 :> TxCommitOk @@
    30 :> TxRollback @@ 31 :> TxRollbackOk
ParseConfirm ==
  10 :> ConfirmSelect @@ 11 :> ConfirmSelectOk

\* ParseMethodFrame's switch on the class
ParseClass ==
  10 :> ParseConnection @@ 20 :> ParseChannel @@ 40 :> ParseExchange @@ 50 :> ParseQueue @@
    60 :> ParseBasic @@ 90 :> ParseTx @@ 85 :> ParseConfirm

(***************************************************************************)
(* Writing                                                                 *)
(***************************************************************************)
Width == [octet |-> 1, short |-> 2, long |-> 4, longlong |-> 8]

\* v in w octets, big endian, two's complement
RECURSIVE BigEndian(_, _)
BigEndian(w, v) == IF w = 0 THEN <<>> ELSE Append(BigEndian(w - 1, v \div 256), v % 256)

\* Mutant of writeShortstr: all octets after a length that has lost its upper part.
writeShortstrWhole(s) == <<Len(s) % 256>> \o s

\* The length is a uint8: a longer string is cut
writeShortstr(s) == LET length == Len(s) % 256 IN <<length>> \o SubSeq(s, 1, length)

\* Mutant of writeLongstr: a length that is one too large.
writeLongstrOff(s) == BigEndian(4, Len(s) + 1) \o s

writeLongstr(s) == BigEndian(4, Len(s)) \o s

\* A field of a table, with its Go type
Value(type, v) == [type |-> type, v |-> v]

\* Tag and width of the Go types that are written as integers
Scalar ==
  [byte |-> <<66, 1>>, int8 |-> <<98, 1>>, int16 |-> <<115, 2>>, int |-> <<73, 4>>,
   int32 |-> <<73, 4>>, int64 |-> <<108, 8>>, time |-> <<84, 8>>]

\* Any other Go type is ErrFieldType, and then nothing of the frame is written; the tables of the
\* library that talks to the upstreams are such a type, wherever they are inside another one
RECURSIVE Writable(_)
Writable(f) ==
  CASE f.type = "array" -> \A i \in DOMAIN f.v : Writable(f.v[i])
    [] f.type = "Table" -> \A i \in DOMAIN f.v : Writable(f.v[i][2])
    [] OTHER            -> f.type \in DOMAIN Scalar \union
                             {"bool", "float32", "float64", "Decimal", "string", "bytes", "nil"}

RECURSIVE writeField(_), writeTable(_)
writeField(f) ==
  CASE f.type = "bool"       -> <<116, IF f.v THEN 1 ELSE 0>>
    [] f.type \in DOMAIN Scalar -> <<Scalar[f.type][1]>> \o BigEndian(Scalar[f.type][2], f.v)
    [] f.type = "float32"    -> <<102>> \o f.v
    [] f.type = "float64"    -> <<100>> \o f.v
    [] f.type = "Decimal"    -> <<68>> \o BigEndian(1, f.v.Scale) \o BigEndian(4, f.v.Value)
    [] f.type = "string"     -> <<83>> \o writeLongstr(f.v)
    [] f.type = "array"      -> <<65>> \o writeLongstr(FlattenSeq([i \in DOMAIN f.v |-> writeField(f.v[i])]))
    [] f.type = "Table"      -> <<70>> \o writeTable(f.v)
    [] f.type = "bytes"      -> <<120>> \o writeLongstr(f.v)
    [] f.type = "nil"        -> <<86>>
writeTable(t) ==
  writeLongstr(FlattenSeq([i \in DOMAIN t |-> writeShortstr(t[i][1]) \o writeField(t[i][2])]))

\* A field of a method, or a property of a header
writeArg(f, a) ==
  CASE f.kind = "bits"     -> <<MapThenSumSet(LAMBDA i : IF a[f.name[i]] THEN 2^(i - 1) ELSE 0,
                                              DOMAIN f.name)>>
    [] f.kind = "shortstr" -> writeShortstr(a[f.name])
    [] f.kind = "longstr"  -> writeLongstr(a[f.name])
    [] f.kind = "table"    -> writeTable(a[f.name])
    [] OTHER               -> BigEndian(Width[f.kind], a[f.name])

writeFrame(typ, ch, payload) ==
  <<typ>> \o BigEndian(2, ch) \o BigEndian(4, Len(payload)) \o payload \o <<frameEnd>>

MethodFrameWrite(f) ==
  writeFrame(frameMethod, f.ch,
             BigEndian(2, f.msg.class) \o BigEndian(2, f.msg.method)
               \o FlattenSeq([i \in DOMAIN f.msg.fields |-> writeArg(f.msg.fields[i], f.args)]))

\* The properties in the order of their flags, from the highest bit down
Properties ==
  <<Shortstr("ContentType"), Shortstr("ContentEncoding"), Tbl("Headers"), Octet("DeliveryMode"),
    Octet("Priority"), Shortstr("CorrelationId"), Shortstr("ReplyTo"), Shortstr("Expiration"),
    Shortstr("MessageId"), Longlong("Timestamp"), Shortstr("Type"), Shortstr("UserId"),
    Shortstr("AppId"), Shortstr("reserved1")>>
flag(i) == 2^(16 - i)
hasProperty(mask, i) == (mask \div flag(i)) % 2 = 1
\* The zero time.Time is a number no timestamp has
ZeroTime == -1
NoProperties ==
  [n \in {Properties[i].name : i \in 1..14} |->
     IF n = "Timestamp" THEN ZeroTime ELSE IF n \in {"DeliveryMode", "Priority"} THEN 0 ELSE <<>>]

\* Properties with their zero value are left out, and reserved1 always is
Given(props) == {i \in 1..13 : props[Properties[i].name] # NoProperties[Properties[i].name]}

HeaderFrameWrite(f) ==
  LET given == Given(f.props) IN
  writeFrame(frameHeader, f.ch,
             BigEndian(2, f.class) \o BigEndian(2, 0) \o BigEndian(8, f.size)
               \o BigEndian(2, MapThenSumSet(flag, given))
               \o FlattenSeq([i \in 1..13 |->
                    IF i \in given THEN writeArg(Properties[i], f.props) ELSE <<>>]))

WritableFrame(f) ==
  /\ f.typ = frameMethod =>
       \A i \in DOMAIN f.msg.fields :
         f.msg.fields[i].kind = "table" => Writable(Value("Table", f.args[f.msg.fields[i].name]))
  /\ f.typ = frameHeader => Writable(Value("Table", f.props["Headers"]))

WriteFrame(f) ==
  CASE f.typ = frameMethod    -> MethodFrameWrite(f)
    [] f.typ = frameHeader    -> HeaderFrameWrite(f)
    [] f.typ = frameBody      -> writeFrame(frameBody, f.ch, f.body)
    [] f.typ = frameHeartbeat -> writeFrame(frameHeartbeat, f.ch, <<>>)

(***************************************************************************)
(* Reading.  A reader is a sequence of octets and the place of the next    *)
(* one; a read succeeds (st = "ok") with a value and the place after it,   *)
(* runs out of octets before its first one ("eof") or inside ("cut"), or   *)
(* fails.  On the connection a read that runs out waits; inside a table,   *)
(* which is read as a whole first, it fails.                               *)
(***************************************************************************)
Ok(v, at)  == [st |-> "ok", v |-> v, at |-> at]
Fail(st)   == [st |-> st]
\* io.EOF from inside a table, whose octets are all consumed by then
End(at)    == [st |-> "end", at |-> at]
Then(r, F(_, _)) == IF r.st = "ok" THEN F(r.v, r.at) ELSE r

\* io.ReadFull
ReadFull(o, at, n) ==
  IF n <= Len(o) - at + 1 THEN Ok(SubSeq(o, at, at + n - 1), at + n)
  ELSE Fail(IF at > Len(o) THEN "eof" ELSE "cut")

\* TLC's integers have 32 bits: larger values stop at the largest one
Big == 2147483647
Push(a, octet) == IF a \in -8388608..8388607 THEN a * 256 + octet
                  ELSE IF a > 0 THEN Big ELSE -Big
Uint(s) == FoldLeft(Push, 0, s)
Sint(s) == FoldLeft(Push, IF s[1] > 127 THEN -1 ELSE 0, s)

readUint(o, at, w) == Then(ReadFull(o, at, w), LAMBDA s, at1 : Ok(Uint(s), at1))

readShortstr(o, at) == Then(readUint(o, at, 1), LAMBDA n, at1 : ReadFull(o, at1, n))

\* A length beyond the range of int32 reads as the empty string
readLongstr(o, at) ==
  Then(ReadFull(o, at, 4), LAMBDA s, at1 :
    IF s[1] > 127 THEN Ok(<<>>, at1) ELSE ReadFull(o, at1, Uint(s)))

\* Go type and width by tag, for the ones read as integers
ScalarOf ==
  66 :> <<"byte", 1>> @@ 98 :> <<"int8", 1>> @@ 115 :> <<"int16", 2>> @@
    73 :> <<"int32", 4>> @@ 108 :> <<"int64", 8>> @@ 84 :> <<"time", 8>>

As(type, r) == Then(r, LAMBDA v, at : Ok(Value(type, v), at))

RECURSIVE readField(_, _), readEntries(_, _, _), readElems(_, _, _)
readTable(o, at) ==
  Then(readLongstr(o, at), LAMBDA nested, at1 :
    LET r == readEntries(nested, 1, <<>>) IN
    CASE r.st = "ok"              -> Ok(r.v, at1)
      [] r.st \in {"eof", "end"}  -> End(at1)
      [] r.st = "cut"             -> Fail("err")
      [] OTHER                    -> r)

\* io.EOF ends an array, at its limit or from inside a table; the array is then over, and what
\* follows is read from where that was
readArray(o, at) ==
  Then(readUint(o, at, 4), LAMBDA size, at1 :
    LET last == IF size > Len(o) - at1 + 1 THEN Len(o) ELSE at1 + size - 1
        r    == readElems(SubSeq(o, 1, last), at1, <<>>)
    IN IF r.st = "cut" THEN Fail("err") ELSE r)

\* A slice is made of the length, which is an int32: a negative one panics
readBytes(o, at) ==
  Then(ReadFull(o, at, 4), LAMBDA s, at1 :
    IF s[1] > 127 THEN Fail("panic") ELSE ReadFull(o, at1, Uint(s)))

readField(o, at) ==
  Then(ReadFull(o, at, 1), LAMBDA typ, at1 :
    LET tag == typ[1] IN
    CASE tag = 116 -> Then(ReadFull(o, at1, 1), LAMBDA s, at2 : Ok(Value("bool", s[1] # 0), at2))
      [] tag \in DOMAIN ScalarOf ->
           Then(ReadFull(o, at1, ScalarOf[tag][2]), LAMBDA s, at2 :
             Ok(Value(ScalarOf[tag][1], IF tag = 66 THEN Uint(s) ELSE Sint(s)), at2))
      [] tag = 102 -> As("float32", ReadFull(o, at1, 4))
      [] tag = 100 -> As("float64", ReadFull(o, at1, 8))
      [] tag = 68  -> Then(ReadFull(o, at1, 1), LAMBDA s, at2 :
                        Then(ReadFull(o, at2, 4), LAMBDA t, at3 :
                          Ok(Value("Decimal", [Scale |-> s[1], Value |-> Sint(t)]), at3)))
      [] tag = 83  -> As("string", readLongstr(o, at1))
      [] tag = 65  -> As("array", readArray(o, at1))
      [] tag = 70  -> As("Table", readTable(o, at1))
      [] tag = 120 -> As("bytes", readBytes(o, at1))
      [] tag = 86  -> Ok(Value("nil", 0), at1)
      [] OTHER     -> Fail("err"))

readEntries(o, at, table) ==
  IF at > Len(o) THEN Ok(table, at)
  ELSE Then(readShortstr(o, at), LAMBDA key, at1 :
         Then(readField(o, at1), LAMBDA v, at2 : readEntries(o, at2, (key :> v) @@ table)))

readElems(o, at, arr) ==
  LET r == readField(o, at) IN
  CASE r.st = "ok"              -> readElems(o, r.at, Append(arr, r.v))
    [] r.st = "eof"             -> Ok(arr, Len(o) + 1)
    [] r.st = "end"             -> Ok(arr, r.at)
    [] OTHER                    -> r

\* A field of a method or a property of a header, added to what was read before
readArg(f, o, at, a) ==
  CASE f.kind = "bits"     -> Then(ReadFull(o, at, 1), LAMBDA s, at1 :
                                Ok([n \in Range(f.name) |->
                                      \E i \in DOMAIN f.name : /\ f.name[i] = n
                                                               /\ (s[1] \div 2^(i - 1)) % 2 = 1] @@ a, at1))
    [] OTHER -> LET r == CASE f.kind = "shortstr" -> readShortstr(o, at)
                           [] f.kind = "longstr"  -> readLongstr(o, at)
                           [] f.kind = "table"    -> readTable(o, at)
                           [] OTHER               -> readUint(o, at, Width[f.kind])
                IN Then(r, LAMBDA v, at1 : Ok((f.name :> v) @@ a, at1))

RECURSIVE readArgs(_, _, _, _)
readArgs(fs, o, at, a) ==
  IF fs = <<>> THEN Ok(a, at)
  ELSE Then(readArg(Head(fs), o, at, a), LAMBDA a1, at1 : readArgs(Tail(fs), o, at1, a1))

ParseMethodFrame(ch, o, at) ==
  Then(readUint(o, at, 2), LAMBDA class, at1 :
    Then(readUint(o, at1, 2), LAMBDA method, at2 :
      IF class \notin DOMAIN ParseClass THEN Fail("err")
      ELSE IF method \notin DOMAIN ParseClass[class] THEN Fail("err")
      ELSE LET msg == ParseClass[class][method] IN
           Then(readArgs(msg.fields, o, at2, <<>>), LAMBDA args, at3 :
             Ok([typ |-> frameMethod, ch |-> ch, name |-> msg.name, args |-> args], at3))))

\* Without its flag a property keeps its zero value
parseHeaderFrame(ch, o, at) ==
  Then(readUint(o, at, 2), LAMBDA class, at1 :
    Then(ReadFull(o, at1, 2), LAMBDA weight, at2 :
      Then(readUint(o, at2, 8), LAMBDA size, at3 :
        Then(readUint(o, at3, 2), LAMBDA flags, at4 :
          Then(readArgs(SelectSeq(Properties, LAMBDA p :
                          hasProperty(flags, SelectInSeq(Properties, LAMBDA q : q = p))), o, at4, <<>>),
               LAMBDA props, at5 :
                 Ok([typ |-> frameHeader, ch |-> ch, class |-> class, size |-> size,
                     props |-> props @@ NoProperties], at5))))))

parseBodyFrame(ch, size, o, at) ==
  Then(ReadFull(o, at, size), LAMBDA body, at1 :
    Ok([typ |-> frameBody, ch |-> ch, body |-> body], at1))

parseHeartbeatFrame(ch, size, at) ==
  IF size > 0 THEN Fail("err") ELSE Ok([typ |-> frameHeartbeat, ch |-> ch], at)

\* The size of a method or header frame is not looked at
ReadFrame(o) ==
  Then(ReadFull(o, 1, 7), LAMBDA scratch, at :
    LET ch   == Uint(SubSeq(scratch, 2, 3))
        size == Uint(SubSeq(scratch, 4, 7))
        r == CASE scratch[1] = frameMethod    -> ParseMethodFrame(ch, o, at)
               [] scratch[1] = frameHeader    -> parseHeaderFrame(ch, o, at)
               [] scratch[1] = frameBody      -> parseBodyFrame(ch, size, o, at)
               [] scratch[1] = frameHeartbeat -> parseHeartbeatFrame(ch, size, at)
               [] OTHER                       -> Fail("err")
    IN Then(r, LAMBDA frame, at1 :
         Then(ReadFull(o, at1, 1), LAMBDA end, at2 :
           IF end[1] # frameEnd THEN Fail("err") ELSE Ok(frame, at2))))

(***************************************************************************)
(* A connection: frames are written, their octets arrive in chunks cut     *)
(* anywhere, the reader reads frame after frame under a deadline.          *)
(***************************************************************************)
VARIABLES
  sent,      \* the frames written, in order
  net,       \* the octets under way
  arrived,   \* the octets that arrived and are not consumed
  got,       \* the frames read, in order
  failed,    \* ReadFrame returned an error: the connection ends
  chunks, timeouts,   \* how many so far
  torn       \* a deadline passed inside a frame

codecVars == <<sent, net, arrived, got, failed, chunks, timeouts, torn>>

CodecInit ==
  /\ sent = <<>> /\ net = <<>> /\ arrived = <<>> /\ got = <<>>
  /\ failed = FALSE /\ chunks = 0 /\ timeouts = 0 /\ torn = FALSE

\* WriteFrame, and the flush that follows
Send(f) ==
  /\ Len(sent) < MaxFrame /\ WritableFrame(f)
  /\ sent' = Append(sent, f)
  /\ net' = net \o WriteFrame(f)
  /\ UNCHANGED <<arrived, got, failed, chunks, timeouts, torn>>

\* Octets arrive; the last chunk brings whatever is under way
Arrive(n) ==
  /\ chunks + 1 < MaxChunk \/ n = Len(net)
  /\ chunks' = IF chunks + 1 < MaxChunk THEN chunks + 1 ELSE chunks
  /\ arrived' = arrived \o SubSeq(net, 1, n)
  /\ net' = SubSeq(net, n + 1, Len(net))
  /\ UNCHANGED <<sent, got, failed, timeouts, torn>>

\* process: a frame, or an error that ends the connection
Read ==
  LET r == ReadFrame(arrived) IN
  /\ ~failed /\ r.st \notin {"eof", "cut"}
  /\ IF r.st = "ok"
     THEN /\ got' = Append(got, r.v)
          /\ arrived' = SubSeq(arrived, r.at, Len(arrived))
          /\ UNCHANGED failed
     ELSE failed' = TRUE /\ UNCHANGED <<got, arrived>>
  /\ UNCHANGED <<sent, net, chunks, timeouts, torn>>

\* process: the deadline of readClientFrame passes and is taken for a quiet client; the octets
\* that ReadFrame had consumed by then are gone
Timeout ==
  /\ ~failed /\ timeouts < MaxTimeout
  /\ ReadFrame(arrived).st \in {"eof", "cut"}
  /\ timeouts' = timeouts + 1
  /\ torn' = (torn \/ arrived # <<>>)
  /\ arrived' = <<>>
  /\ UNCHANGED <<sent, net, got, failed, chunks>>

CodecNext ==
  \/ \E f \in (IF sent = <<>> THEN Leaders ELSE Followers) : Send(f)
  \/ \E n \in 1..Len(net) : Arrive(n)
  \/ Read
  \/ Timeout

(***************************************************************************)
(* Properties                                                              *)
(***************************************************************************)
\* What a peer may rely on to come out at the other end: a short string keeps as many octets as
\* its length modulo 256, a table becomes a map, an int becomes an int32
Cut(s) == SubSeq(s, 1, Len(s) % 256)
RECURSIVE Meant(_), MeantTable(_)
Meant(f) ==
  CASE f.type = "int"   -> Value("int32", f.v)
    [] f.type = "array" -> Value("array", [i \in DOMAIN f.v |-> Meant(f.v[i])])
    [] f.type = "Table" -> Value("Table", MeantTable(f.v))
    [] OTHER            -> f
MeantTable(t) == [k \in {Cut(t[i][1]) : i \in DOMAIN t} |->
                    Meant(t[CHOOSE i \in DOMAIN t : Cut(t[i][1]) = k][2])]
MeantArgs(fs, a) ==
  [n \in DOMAIN a |->
     LET kind == {fs[i].kind : i \in {j \in DOMAIN fs : fs[j].name = n}} IN
     CASE kind = {"shortstr"} -> Cut(a[n])
       [] kind = {"table"}    -> MeantTable(a[n])
       [] OTHER               -> a[n]]
MeantFrame(f) ==
  CASE f.typ = frameMethod -> [typ |-> f.typ, ch |-> f.ch, name |-> f.msg.name,
                               args |-> MeantArgs(f.msg.fields, f.args)]
    [] f.typ = frameHeader -> [f EXCEPT !.props = [MeantArgs(Properties, @) EXCEPT !["reserved1"] = <<>>]]
    [] OTHER -> f

\* However the octets are cut into chunks, and whatever the deadlines that pass between frames,
\* the frames that ReadFrame returns are the ones that were written, in order
FramesIntact ==
  ~torn => /\ ~failed
           /\ Len(got) <= Len(sent)
           /\ \A i \in DOMAIN got : got[i] = MeantFrame(sent[i])

\* The reader never stops short of a frame, nor begins one early: once every octet has arrived
\* and there is nothing left to read, all frames were read and no octet remains
StaysInSync ==
  (~torn /\ net = <<>> /\ ReadFrame(arrived).st \in {"eof", "cut"})
    => Len(got) = Len(sent) /\ arrived = <<>>

=============================================================================
