------------------------------- MODULE MCWire -------------------------------
(***************************************************************************)
(* Codec with every method, each property and each type of table field,    *)
(* and Framing.  They share no state, so each is explored while the other  *)
(* rests in an initial state.                                              *)
(***************************************************************************)
EXTENDS Codec, Framing

Messages ==
  {ConnectionStart, ConnectionStartOk, ConnectionSecure, ConnectionSecureOk, ConnectionTune,
   ConnectionTuneOk, ConnectionOpen, ConnectionOpenOk, ConnectionClose, ConnectionCloseOk,
   ConnectionBlocked, ConnectionUnblocked, ConnectionUpdateSecret, ConnectionUpdateSecretOk,
   ChannelOpen, ChannelOpenOk, ChannelFlow, ChannelFlowOk, ChannelClose, ChannelCloseOk,
   ExchangeDeclare, ExchangeDeclareOk, ExchangeDelete, ExchangeDeleteOk, ExchangeBind,
   ExchangeBindOk, ExchangeUnbind, ExchangeUnbindOk, QueueDeclare, QueueDeclareOk, QueueBind,
   QueueBindOk, QueueUnbind, QueueUnbindOk, QueuePurge, QueuePurgeOk, QueueDelete, QueueDeleteOk,
   BasicQos, BasicQosOk, BasicConsume, BasicConsumeOk, BasicCancel, BasicCancelOk, BasicPublish,
   BasicReturn, BasicDeliver, BasicGet, BasicGetOk, BasicGetEmpty, BasicAck, BasicReject,
   BasicRecoverAsync, BasicRecover, BasicRecoverOk, BasicNack, TxSelect, TxSelectOk, TxCommit,
   TxCommitOk, TxRollback, TxRollbackOk, ConfirmSelect, ConfirmSelectOk}

Ch == 258   \* both octets of the channel differ

\* One entry of every type; each appears alone and all together, in two orders
Fields ==
  <<Value("bool", TRUE), Value("byte", 200), Value("int8", -2), Value("int16", -300),
    Value("int", 70000), Value("int32", -70000), Value("int64", -5), Value("float32", <<1, 2, 3, 4>>),
    Value("float64", <<1, 2, 3, 4, 5, 6, 7, 8>>), Value("Decimal", [Scale |-> 2, Value |-> -12345]),
    Value("string", <<7, 8>>), Value("bytes", <<206, 1>>), Value("time", 1700000000), Value("nil", 0),
    Value("array", <<Value("byte", 1), Value("string", <<>>), Value("array", <<>>), Value("int16", 9)>>),
    Value("Table", <<<<<<9>>, Value("bool", FALSE)>>, <<<<>>, Value("nil", 0)>>>>)>>
AllEntries == [i \in DOMAIN Fields |-> <<<<i, 206>>, Fields[i]>>]
Tables == {<<>>, AllEntries, Reverse(AllEntries)} \union {<<AllEntries[i]>> : i \in DOMAIN Fields}

\* Values that differ from field to field; k = 0 stands for the zero value
Arg(kind, k) ==
  CASE kind \in {"shortstr", "longstr"} -> [j \in 1..k |-> 200 + j]
    [] kind = "table"    -> IF k = 0 THEN <<>> ELSE <<AllEntries[k]>>
    [] kind = "octet"    -> k
    [] kind = "short"    -> 257 * k
    [] OTHER             -> 65793 * k
ArgsOf(fs, k, bit) ==
  LET plain == {i \in DOMAIN fs : fs[i].kind # "bits"}
      names == UNION {Range(fs[i].name) : i \in DOMAIN fs \ plain}
  IN [n \in {fs[i].name : i \in plain} |->
        LET i == CHOOSE j \in plain : fs[j].name = n IN Arg(fs[i].kind, k * i)]
     @@ [n \in names |-> n = bit \/ bit = "all"]
BitNames(fs) == UNION {Range(fs[i].name) : i \in {j \in DOMAIN fs : fs[j].kind = "bits"}}

Method(msg, args) == [typ |-> frameMethod, ch |-> Ch, msg |-> msg, args |-> args]
Header(props) == [typ |-> frameHeader, ch |-> Ch, class |-> 60, size |-> 65537, props |-> props]
Body(body) == [typ |-> frameBody, ch |-> Ch, body |-> body]
HeartbeatFrame == [typ |-> frameHeartbeat, ch |-> 0]

MethodFrames ==
  UNION {{Method(m, ArgsOf(m.fields, k, bit)) : k \in {0, 1}, bit \in BitNames(m.fields) \union {"none", "all"}}
           : m \in Messages}

\* Reply texts at the limit of a short string
LongTexts ==
  {Method(ConnectionClose, [ArgsOf(ConnectionClose.fields, 1, "none") EXCEPT !["ReplyText"] = [j \in 1..n |-> j % 251]])
     : n \in {255, 256, 258}}

TableFrames == {Method(ConnectionStartOk, [ArgsOf(ConnectionStartOk.fields, 1, "none") EXCEPT !["ClientProperties"] = t])
                  : t \in Tables}

PropertySets ==
  {{}, 1..13} \union {{i} : i \in 1..13} \union {(1..13) \ {i} : i \in 1..13}
HeaderFrames ==
  {Header([n \in DOMAIN NoProperties |->
             IF \E i \in is : Properties[i].name = n
             THEN LET i == CHOOSE j \in is : Properties[j].name = n IN Arg(Properties[i].kind, i)
             ELSE NoProperties[n]]) : is \in PropertySets}
  \union {Header([NoProperties EXCEPT !["Timestamp"] = 0])}
  \union {Header([NoProperties EXCEPT !["Headers"] = <<<<<<1>>, Value("array", <<Value("rabbitmq.Table", <<>>)>>)>>>>])}

MCFrames ==
  MethodFrames \union LongTexts \union TableFrames \union HeaderFrames
    \union {Body(<<>>), Body(<<206, 1, 0>>), HeartbeatFrame}

MCFollowers ==
  {HeartbeatFrame, Method(BasicAck, ArgsOf(BasicAck.fields, 1, "Multiple"))}

\* Codec is explored once, beside a Framing without heartbeats
WireInit == CodecInit /\ Init

WireNext ==
  \/ Init /\ hb = "off" /\ CodecNext /\ UNCHANGED vars
  \/ CodecInit /\ Next /\ UNCHANGED codecVars

WireSpec == WireInit /\ [][WireNext]_<<codecVars, vars>> /\ Fairness

=============================================================================
