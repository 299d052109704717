------------------------------ MODULE WireProofs ------------------------------
(***************************************************************************)
(* What is proved of PrompterWire: for all protocol versions, options and  *)
(* secrets, what the agent takes for an answer was asked for as meant,     *)
(* what the helper acts on is what was meant, and neither leaves a secret  *)
(* in a buffer.                                                            *)
(***************************************************************************)
EXTENDS PrompterWire, TLAPS

(***************************************************************************)
(* Frames.                                                                 *)
(***************************************************************************)

\* The keys of a request that are no fields.
Names == {"t", "v", "kind"}

\* What a message says under which key.
LEMMA MessageTag ==
  ASSUME NEW v, NEW t, NEW kind, NEW fields
  PROVE  Message(v, t, kind, fields)["t"] = Text(t)
  BY DEF Message

LEMMA MessageVersion ==
  ASSUME NEW v, NEW t, NEW kind, NEW fields, v # 1
  PROVE  Message(v, t, kind, fields)["v"] = Value("uint", v)
  BY DEF Message, emplaceVersion

LEMMA MessageKind ==
  \A v, t, kind, fields : kind = "" \/ Message(v, t, kind, fields)["kind"] = Text(kind)
  BY DEF Message

\* A garbled frame has its keys and, but for one, its values.
LEMMA GarbleIs ==
  ASSUME NEW m, NEW k
  PROVE  /\ DOMAIN Garble(m, k) = DOMAIN m
         /\ \A j \in DOMAIN m : j # k => Garble(m, k)[j] = m[j]
         /\ k \in DOMAIN m => Garble(m, k)[k] = Value("other", "")
         /\ k \notin DOMAIN m => Garble(m, k) = m
  BY Zenon DEF Garble

\* The types of values.
LEMMA ValueIs == \A type, v : Value(type, v).type = type /\ Value(type, v).val = v
  BY DEF Value

LEMMA OtherIs == Value("other", "").type = "other"
  BY DEF Value

LEMMA TextIs == \A s : Text(s).type = "text" /\ Text(s).val = s
  BY DEF Value, Text

LEMMA TypedIs ==
  \A k, v : /\ Typed(k, v).val = v /\ Typed(k, v).type = Typed(k, Default(k)).type
            /\ Typed(k, v).type # "other" /\ Typed(k, v).type # "bytes"
  BY DEF Value, Typed

(***************************************************************************)
(* Reading a request.                                                      *)
(***************************************************************************)

\* What is asked, in the terms of this agent or of another: ask never changes.
AskInv ==
    /\ agentV \in Versions /\ helperV \in Versions /\ (agentV = Own \/ helperV = Own)
    /\ ask.t \in Tags /\ ask.kind \in Kinds(ask.t)
    /\ ask.fields = [k \in KeysOf(ask.t) |-> ask.fields[k]]
    /\ \A k \in KeysOf(ask.t) : k \in UintKeys => ask.fields[k] \in 0..(Width - 1)

\* A request without an error, taken apart.
LEMMA NoRequestError ==
  ASSUME NEW m, RequestError(m) = "none"
  PROVE  /\ ~VersionMistyped(m) /\ ~(Announced(m) > Own) /\ Has(m, "t", "text")
         /\ m["t"].val \in Tags
         /\ m["t"].val \notin {"Reset", "CancelCurrent"} => Has(m, "kind", "text")
         /\ \A k \in KeysOf(m["t"].val) : ~Mistyped(m, k)
  BY DEF RequestError

LEMMA NewerIsTooNew ==
  ASSUME NEW m, ~VersionMistyped(m), Announced(m) > Own
  PROVE  RequestError(m) = "UnsupportedVersion"
  BY DEF RequestError

LEMMA KeysAreFields ==
  /\ \A t \in Tags : KeysOf(t) \cap Names = {} /\ "none" \notin KeysOf(t) /\ "later" \notin KeysOf(t)
  /\ \A t \in Tags : \A kind \in Kinds(t) : (kind = "") <=> (t \in {"Reset", "CancelCurrent"})
<1>1. ASSUME NEW t \in Tags 
      PROVE  /\ KeysOf(t) \cap Names = {} /\ "none" \notin KeysOf(t) /\ "later" \notin KeysOf(t)
             /\ \A kind \in Kinds(t) : (kind = "") <=> (t \in {"Reset", "CancelCurrent"})
  <2>1. CASE t = "RequestSecret"
    BY <2>1 DEF KeysOf, Kinds, Names
  <2>2. CASE t = "RequestSecrets"
    BY <2>2 DEF KeysOf, Kinds, Names
  <2>3. CASE t = "ConfirmAction"
    BY <2>3 DEF KeysOf, Kinds, Names
  <2>4. CASE t = "CancelCurrent"
    BY <2>4 DEF KeysOf, Kinds, Names
  <2>5. CASE t = "Reset"
    BY <2>5 DEF KeysOf, Kinds, Names
  <2> QED
    BY <2>1, <2>2, <2>3, <2>4, <2>5 DEF Tags
<1> QED
  BY <1>1

\* The request as its sender means it, and a sender's fields.
MeantBy(t, kind, fields) ==
    [t |-> t, kind |-> kind,
     fields |-> [j \in KeysOf(t) |-> IF Spoken(j, fields[j]) THEN fields[j] ELSE Default(j)]]
WellFormed(t, fields) ==
    /\ DOMAIN fields = KeysOf(t)
    /\ \A j \in KeysOf(t) : j \in UintKeys => fields[j] \in 0..(Width - 1)
NoNames(fields) == \A j \in DOMAIN fields : j \notin Names /\ j # "none"

\* What arrives: the frame of an agent, in which k may be garbled.
Arrived(w, tag, t, kind, fields, k, m) ==
    /\ w \in Nat /\ t \in Tags /\ kind \in Kinds(t) /\ NoNames(fields)
    /\ k \in {"none"} \cup DOMAIN Message(w, tag, kind, fields)
    /\ m = Garble(Message(w, tag, kind, fields), k)

\* A frame of an agent, read by this helper: a newer one is refused as such
\* unless its version is unreadable, and one without an error is what was
\* meant, with nothing left out.
LEMMA ReadBack ==
  ASSUME NEW w, NEW tag, NEW t, NEW kd, NEW fields, NEW k, NEW m, Arrived(w, tag, t, kd, fields, k, m)
  PROVE  /\ w > Own /\ k # "v" => RequestError(m) = "UnsupportedVersion"
         /\ RequestError(m) = "none" => w <= Own
         /\ RequestError(m) = "none" /\ tag = t /\ WellFormed(t, fields) =>
               parsePrompterRequest(m) = MeantBy(t, kd, fields)
<1> PICK f : f = Message(w, tag, kd, fields) /\ k \in {"none"} \cup DOMAIN f /\ m = Garble(f, k)
  BY DEF Arrived
<1> w \in Nat /\ t \in Tags /\ kd \in Kinds(t) /\ NoNames(fields)
  BY DEF Arrived
<1>a. Own \in Nat /\ Own > 1
  BY WireAssumption
<1>k. /\ \A j \in KeysOf(t) : j \notin Names
      /\ ((kd = "") <=> (t \in {"Reset", "CancelCurrent"}))
  BY KeysAreFields
<1>2. /\ DOMAIN f = {"t"} \cup emplaceVersion(w) \cup (IF kd = "" THEN {} ELSE {"kind"}) \cup Spelled(fields)
      /\ f["t"] = Text(tag)
      /\ w # 1 => f["v"] = Value("uint", w)
      /\ kd # "" => f["kind"] = Text(kd)
      /\ \A j \in Spelled(fields) : f[j] = Typed(j, fields[j])
  <2>0. f = Message(w, tag, kd, fields)
    OBVIOUS
  <2>1. \A j \in Spelled(fields) : j \notin Names
    BY DEF Spelled, NoNames
  <2>2. DOMAIN f = {"t"} \cup emplaceVersion(w) \cup (IF kd = "" THEN {} ELSE {"kind"}) \cup Spelled(fields)
    BY ONLY <2>0, ZenonT(60) DEF Message
  <2>3. f["t"] = Text(tag)
    BY ONLY <2>0, MessageTag, Zenon
  <2>4. w # 1 => f["v"] = Value("uint", w)
    BY ONLY <2>0, MessageVersion, Zenon
  <2>5. kd # "" => f["kind"] = Text(kd)
    BY ONLY <2>0, MessageKind, Zenon
  <2>6. \A j \in Spelled(fields) : f[j] = Typed(j, fields[j])
    <3> SUFFICES ASSUME NEW j \in Spelled(fields) PROVE f[j] = Typed(j, fields[j])
      OBVIOUS
    <3>1. j \in Spelled(fields) /\ j # "t" /\ j # "v" /\ j # "kind"
      BY <2>1 DEF Names
    <3> QED
      BY ONLY <2>0, <3>1, ZenonT(60) DEF Message
  <2> QED
    BY ONLY <2>2, <2>3, <2>4, <2>5, <2>6
<1>3. /\ DOMAIN m = DOMAIN f
      /\ \A j \in DOMAIN f : j # k => m[j] = f[j]
      /\ k \in DOMAIN f => m[k] = Value("other", "")
      /\ k \notin DOMAIN f => m = f
  <2>1. m = Garble(f, k)
    OBVIOUS
  <2> QED
    BY ONLY <2>1, GarbleIs
<1>4. "none" \notin DOMAIN f /\ Spelled(fields) \subseteq DOMAIN fields
  BY <1>2 DEF Spelled, emplaceVersion, NoNames
<1>v. w # 1 => "v" \in DOMAIN f
  BY <1>2 DEF emplaceVersion
<1>w. ASSUME w # 1, k = "v"
      PROVE  VersionMistyped(m)
  <2>1. "v" \in DOMAIN m /\ m["v"] = Value("other", "")
    BY <1>v, <1>w, <1>3
  <2>2. m["v"].type = "other"
    BY ONLY <2>1, OtherIs
  <2> QED
    BY <2>1, <2>2 DEF VersionMistyped
<1>x. ASSUME w # 1, k # "v"
      PROVE  ~VersionMistyped(m) /\ Announced(m) = w
  <2>1. "v" \in DOMAIN m /\ m["v"] = Value("uint", w)
    BY <1>v, <1>x, <1>2, <1>3
  <2>2. m["v"].type = "uint" /\ m["v"].val = w
    BY ONLY <2>1, ValueIs
  <2> QED
    BY <2>1, <2>2 DEF VersionMistyped, Announced, Has
<1>5. CASE w > Own
  <2>1. w # 1
    BY <1>a, <1>5
  <2>2. CASE k = "v"
    BY <1>w, <2>1, <2>2, NoRequestError
  <2>3. CASE k # "v"
    BY <1>x, <1>5, <2>1, <2>3, NewerIsTooNew, NoRequestError
  <2> QED
    BY <2>2, <2>3
<1>6. CASE ~(w > Own)
  <2> SUFFICES ASSUME RequestError(m) = "none", tag = t, DOMAIN fields = KeysOf(t),
                      \A j \in KeysOf(t) : j \in UintKeys => fields[j] \in 0..(Width - 1)
               PROVE  parsePrompterRequest(m) = MeantBy(t, kd, fields)
    BY <1>a, <1>6 DEF WellFormed
  <2>1. /\ ~VersionMistyped(m) /\ Has(m, "t", "text")
        /\ m["t"].val \notin {"Reset", "CancelCurrent"} => Has(m, "kind", "text")
        /\ \A j \in KeysOf(m["t"].val) : ~Mistyped(m, j)
    BY NoRequestError
  <2>2. k # "t"
    <3>1. k = "t" => m["t"] = Value("other", "")
      BY <1>2, <1>3
    <3> QED
      BY <2>1, <3>1, OtherIs DEF Has
  <2>3. m["t"] = Text(t) /\ m["t"].val = t
    <3>1. m["t"] = Text(t)
      BY <1>2, <1>3, <2>2
    <3> QED
      BY ONLY <3>1, TextIs
  <2>4. k # "v"
    <3>1. SUFFICES ASSUME k = "v" PROVE FALSE
      OBVIOUS
    <3>2. "v" \in DOMAIN f
      BY <1>4, <3>1
    <3>3. m["v"].type # "uint"
      <4>1. m["v"] = Value("other", "")
        BY <1>3, <3>1, <3>2
      <4> QED
        BY ONLY <4>1, OtherIs
    <3> QED
      BY <1>3, <2>1, <3>2, <3>3 DEF VersionMistyped
  <2>5. ~(k = "kind" /\ k \in DOMAIN f)
    <3>1. SUFFICES ASSUME k = "kind", "kind" \in DOMAIN f PROVE FALSE
      OBVIOUS
    <3>2. kd # ""
      BY <1>2, <1>4, <3>1 DEF emplaceVersion, Names, NoNames
    <3>3. Has(m, "kind", "text")
      BY <1>k, <2>1, <2>3, <3>2
    <3>4. m["kind"] = Value("other", "")
      BY <1>3, <3>1
    <3> QED
      BY <3>3, <3>4, OtherIs DEF Has
  <2>6. k \notin Spelled(fields)
    <3>1. SUFFICES ASSUME k \in Spelled(fields) PROVE FALSE
      OBVIOUS
    <3>2. k \in KeysOf(t) /\ k \in DOMAIN f
      BY <1>2, <1>4, <3>1
    <3>3. m[k].type = "other"
      <4>1. m[k] = Value("other", "")
        BY <1>3, <3>2
      <4> QED
        BY ONLY <4>1, OtherIs
    <3> QED
      <4>1. Typed(k, Default(k)).type # "other"
        BY ONLY TypedIs
      <4>2. k \in DOMAIN m /\ k \in KeysOf(m["t"].val)
        BY <1>3, <2>3, <3>2
      <4> QED
        BY <2>1, <3>3, <4>1, <4>2 DEF Mistyped
  <2>7. m = f
    <3>1. k \notin DOMAIN f
      BY <1>2, <2>2, <2>4, <2>5, <2>6 DEF emplaceVersion
    <3> QED
      BY <1>3, <3>1
  <2>8. (IF "kind" \in DOMAIN m THEN m["kind"].val ELSE "") = kd
    <3>1. "kind" \in DOMAIN f <=> kd # ""
      BY <1>2, <1>4 DEF emplaceVersion, Names, NoNames
    <3>2. kd # "" => m["kind"] = Text(kd)
      BY <1>2, <2>7
    <3>3. kd # "" => m["kind"].val = kd
      BY ONLY <3>2, TextIs
    <3> QED
      BY <2>7, <3>1, <3>3
  <2>9. ASSUME NEW j \in KeysOf(t)
        PROVE  Read(m, j) = IF Spoken(j, fields[j]) THEN fields[j] ELSE Default(j)
    <3>2. /\ j \in DOMAIN fields /\ j # "t" /\ j # "v" /\ j # "kind"
          /\ j \in UintKeys => fields[j] \in 0..(Width - 1)
      BY <1>k DEF Names
    <3>3. j \in DOMAIN m <=> Spoken(j, fields[j])
      BY <1>2, <2>7, <3>2 DEF Spelled, emplaceVersion
    <3>4. CASE ~Spoken(j, fields[j])
      BY <3>3, <3>4 DEF Read
    <3>5. CASE Spoken(j, fields[j])
      <4>1. m[j] = Typed(j, fields[j])
        BY <1>2, <2>7, <3>2, <3>5 DEF Spelled
      <4>2. m[j].val = fields[j]
        BY ONLY <4>1, TypedIs
      <4>3. j \in UintKeys => Narrow(fields[j]) = fields[j]
        <5>1. \A n \in 0..(Width - 1) : n % Width = n
          BY WireAssumption
        <5> QED
          BY <3>2, <5>1 DEF Narrow
      <4> QED
        BY <3>3, <3>5, <4>2, <4>3 DEF Read
    <3> QED
      BY <3>4, <3>5
  <2> QED
    BY <2>3, <2>8, <2>9 DEF parsePrompterRequest, MeantBy
<1> QED
  BY <1>5, <1>6

(***************************************************************************)
(* Reading a reply.                                                        *)
(***************************************************************************)

\* The secrets a frame of this reply carries.
Carried(r) == IF r.status = "ok" THEN SecretKeys(r.t) ELSE << >>
CarriedKeys(r) == {Carried(r)[i] : i \in DOMAIN Carried(r)}
SecretUnder(r, k) == r.secrets[CHOOSE i \in DOMAIN Carried(r) : Carried(r)[i] = k]
PlainKeys == {"t", "v", "status", "userMessage", "closed"}

\* What a reply says under which key.
LEMMA ReplyKeys ==
  ASSUME NEW v, NEW r
  PROVE  DOMAIN ReplyFrame(v, r) =
               {"t"} \cup emplaceVersion(v) \cup (IF r.t = "ResetDone" THEN {} ELSE {"status"})
                  \cup {Carried(r)[i] : i \in DOMAIN Carried(r)}
                  \cup Spelled([userMessage |-> r.userMessage, closed |-> r.closed])
<1>1. PICK keys : keys = Carried(r)
  OBVIOUS
<1>2. PICK D : D = {"t"} \cup emplaceVersion(v) \cup (IF r.t = "ResetDone" THEN {} ELSE {"status"})
                     \cup {keys[i] : i \in DOMAIN keys}
                     \cup Spelled([userMessage |-> r.userMessage, closed |-> r.closed])
  OBVIOUS
<1>3. DOMAIN ReplyFrame(v, r) = D
  BY <1>1, <1>2, Zenon DEF ReplyFrame, Carried
<1> QED
  BY <1>1, <1>2, <1>3

LEMMA ReplyTag == \A v, r : ReplyFrame(v, r)["t"] = Text(r.t)
  BY Zenon DEF ReplyFrame

LEMMA ReplyVersion == \A v, r : v = 1 \/ ReplyFrame(v, r)["v"] = Value("uint", v)
  BY Zenon DEF ReplyFrame, emplaceVersion

LEMMA ReplyStatus == \A v, r : r.t = "ResetDone" \/ ReplyFrame(v, r)["status"] = Text(r.status)
  BY Zenon DEF ReplyFrame

LEMMA ReplySecret ==
  \A v, r, k : k \in PlainKeys \/ k \notin CarriedKeys(r) \/
                 ReplyFrame(v, r)[k] = Value("bytes", SecretUnder(r, k))
  BY Zenon DEF ReplyFrame, Carried, CarriedKeys, SecretUnder, PlainKeys

LEMMA ReplyClosed ==
  ASSUME NEW v, NEW r, "closed" \in DOMAIN ReplyFrame(v, r)
  PROVE  ReplyFrame(v, r)["closed"] = Typed("closed", r.closed)
  BY Zenon DEF ReplyFrame

LEMMA SecretKeysAre ==
  /\ SecretKeys("Secret") = <<"secret">> /\ SecretKeys("RequestSecret") = <<"secret">>
  /\ SecretKeys("Secrets") = <<"primary", "secondary">> /\ SecretKeys("RequestSecrets") = <<"primary", "secondary">>
  /\ SecretKeys("Confirm") = << >> /\ SecretKeys("ConfirmAction") = << >>
  /\ SecretKeys("Reset") = << >> /\ SecretKeys("ResetDone") = << >> /\ SecretKeys("CancelCurrent") = << >>
  BY Zenon DEF SecretKeys

\* The parse stops at the first secret it cannot have.
LEMMA CopiedAre ==
  ASSUME NEW m, NEW keys, keys \in {<< >>, <<"secret">>, <<"primary", "secondary">>}
  PROVE  /\ CopiedSecrets(m, keys) \in 0..Len(keys)
         /\ \A i \in DOMAIN keys : SecretError(m, keys[i]) # "none" => CopiedSecrets(m, keys) < Len(keys)
         /\ CopiedSecrets(m, keys) < Len(keys) => SecretError(m, keys[CopiedSecrets(m, keys) + 1]) # "none"
<1> DEFINE Bad(i) == SecretError(m, keys[i]) # "none"
           First(i) == Bad(i) /\ \A j \in 1..(i - 1) : SecretError(m, keys[j]) = "none"
<1>1. CASE \A i \in DOMAIN keys : ~Bad(i)
  <2>1. CopiedSecrets(m, keys) = Len(keys)
    BY <1>1 DEF CopiedSecrets
  <2>2. Len(keys) \in Nat
    OBVIOUS
  <2> QED
    BY <1>1, <2>1, <2>2
<1>2. CASE \E i \in DOMAIN keys : Bad(i)
  <2>1. DOMAIN keys = 1..Len(keys) /\ Len(keys) \in 0..2
    OBVIOUS
  <2>2. \E i \in DOMAIN keys : First(i)
    <3>1. CASE Bad(1) /\ 1 \in DOMAIN keys
      BY <3>1
    <3>2. CASE ~(Bad(1) /\ 1 \in DOMAIN keys)
      <4>1. PICK i \in DOMAIN keys : Bad(i)
        BY <1>2
      <4>2. i = 2
        BY <2>1, <3>2, <4>1
      <4>3. First(2)
        BY <2>1, <3>2, <4>1, <4>2
      <4> QED
        BY <4>1, <4>2, <4>3
    <3> QED
      BY <3>1, <3>2
  <2>3. PICK n : n = CHOOSE i \in DOMAIN keys : First(i)
    OBVIOUS
  <2>4. n \in DOMAIN keys /\ Bad(n)
    BY <2>2, <2>3
  <2>5. CopiedSecrets(m, keys) = n - 1
    BY <1>2, <2>3 DEF CopiedSecrets
  <2>6. CopiedSecrets(m, keys) + 1 = n
    BY <2>1, <2>4, <2>5
  <2> QED
    BY <2>1, <2>4, <2>5, <2>6
<1> QED
  BY <1>1, <1>2

\* A reply without an error, taken apart.
LEMMA NoReplyError ==
  ASSUME NEW m, NEW keys, keys \in {<< >>, <<"secret">>, <<"primary", "secondary">>}, ReplyError(m, keys) = "none"
  PROVE  /\ Has(m, "status", "text")
         /\ m["status"].val = "ok" => \A i \in DOMAIN keys : Has(m, keys[i], "bytes")
<1>0. CopiedSecrets(m, keys) < Len(keys) => SecretError(m, keys[CopiedSecrets(m, keys) + 1]) # "none"
  BY CopiedAre
<1>1. Has(m, "status", "text")
  BY <1>0, Zenon DEF ReplyError
<1>2. ASSUME m["status"].val = "ok", NEW i \in DOMAIN keys, SecretError(m, keys[i]) # "none"
      PROVE  FALSE
  <2>1. CopiedSecrets(m, keys) < Len(keys) /\ SecretError(m, keys[CopiedSecrets(m, keys) + 1]) # "none"
    BY <1>0, <1>2, CopiedAre
  <2> QED
    BY <1>2, <2>1, Zenon DEF ReplyError
<1>3. \A k : ~Has(m, k, "bytes") => SecretError(m, k) # "none"
  BY Zenon DEF SecretError
<1> QED
  BY <1>1, <1>2, <1>3

\* The replies to a request: a newer helper may answer a confirmation with a
\* secret.
Answers(t, rt) ==
    \/ t = "RequestSecret" /\ rt = "Secret"
    \/ t = "RequestSecrets" /\ rt = "Secrets"
    \/ t = "ConfirmAction" /\ rt \in {"Confirm", "Secret"}

\* What the agent takes for ok is a reply of this protocol or a newer one that
\* says ok, and the secrets it takes are the ones that were entered.
LEMMA OkReply ==
  ASSUME NEW v \in Versions, NEW r, NEW g, g = ReplyFrame(v, r), NEW k, NEW m, m = Garble(g, k),
         NEW t, r.t # "ResetDone",
         r.status = "ok" => Answers(t, r.t) /\ r.secrets \in [DOMAIN SecretKeys(r.t) -> Secrets],
         t \in {"RequestSecret", "RequestSecrets", "ConfirmAction"},
         ErrorOf(t, m) = "none", ~TooOld(m), promptStatusFor(m["status"].val) = "Ok"
  PROVE  /\ v >= Own /\ r.status = "ok"
         /\ r.secrets = [i \in DOMAIN SecretKeys(t) |-> m[SecretKeys(t)[i]].val]
<1>g. /\ DOMAIN m = DOMAIN g
      /\ \A j \in DOMAIN g : j # k => m[j] = g[j]
      /\ k \in DOMAIN g => m[k] = Value("other", "")
  <2>1. m = Garble(g, k)
    OBVIOUS
  <2> QED
    BY ONLY <2>1, GarbleIs
<1>d. DOMAIN g = {"t"} \cup emplaceVersion(v) \cup {"status"}
                  \cup {Carried(r)[i] : i \in DOMAIN Carried(r)}
                  \cup Spelled([userMessage |-> r.userMessage, closed |-> r.closed])
  <2>1. DOMAIN g = {"t"} \cup emplaceVersion(v) \cup (IF r.t = "ResetDone" THEN {} ELSE {"status"})
                  \cup {Carried(r)[i] : i \in DOMAIN Carried(r)}
                  \cup Spelled([userMessage |-> r.userMessage, closed |-> r.closed])
    BY ReplyKeys, Zenon
  <2> QED
    BY <2>1
<1>1. m["status"].val = "ok"
  BY Zenon DEF promptStatusFor
<1>2. /\ Has(m, "status", "text")
      /\ t = "ConfirmAction" => "secret" \notin DOMAIN m
      /\ t # "ConfirmAction" => \A i \in DOMAIN SecretKeys(t) : Has(m, SecretKeys(t)[i], "bytes")
  <2>1. CASE t = "ConfirmAction"
    <3>1. ConfirmError(m) = "none"
      BY <2>1, Zenon DEF ErrorOf
    <3>2. Has(m, "status", "text")
      BY <3>1, Zenon DEF ConfirmError
    <3>3. "secret" \notin DOMAIN m
      BY <3>1, Zenon DEF ConfirmError
    <3> QED
      BY <2>1, <3>2, <3>3
  <2>2. CASE t \in {"RequestSecret", "RequestSecrets"}
    <3>1. ReplyError(m, SecretKeys(t)) = "none"
      BY <2>2, Zenon DEF ErrorOf
    <3>2. SecretKeys(t) \in {<<"secret">>, <<"primary", "secondary">>}
      BY <2>2, SecretKeysAre
    <3> QED
      BY <1>1, <2>2, <3>1, <3>2, NoReplyError
  <2> QED
    BY <2>1, <2>2
<1>3. r.status = "ok"
  <2>1. k # "status"
    <3>1. k = "status" => m["status"] = Value("other", "")
      BY <1>d, <1>g
    <3> QED
      BY <1>2, <3>1, OtherIs DEF Has
  <2>2. m["status"] = Text(r.status)
    <3>1. g["status"] = Text(r.status)
      BY ReplyStatus, Zenon
    <3> QED
      BY <1>d, <1>g, <2>1, <3>1
  <2>3. m["status"].val = r.status
    BY ONLY <2>2, TextIs
  <2> QED
    BY <1>1, <2>3
<1>c. /\ Answers(t, r.t) /\ Carried(r) = SecretKeys(r.t) /\ r.secrets \in [DOMAIN SecretKeys(r.t) -> Secrets]
      /\ Carried(r) \in {<< >>, <<"secret">>, <<"primary", "secondary">>}
  <2>1. Answers(t, r.t) /\ Carried(r) = SecretKeys(r.t) /\ r.secrets \in [DOMAIN SecretKeys(r.t) -> Secrets]
    BY <1>3 DEF Carried
  <2>2. r.t \in {"Secret", "Secrets", "Confirm"}
    BY <2>1 DEF Answers
  <2> QED
    BY <2>1, <2>2, SecretKeysAre
<1>4. v >= Own
  <2>1. Own \in Nat /\ Own > 1
    BY WireAssumption
  <2>2. Has(m, "v", "uint")
    <3>1. Has(m, "v", "uint") \/ Announced(m) = 0
      BY DEF Announced
    <3>2. ~(Announced(m) < Own)
      BY DEF TooOld
    <3> QED
      BY <2>1, <3>1, <3>2
  <2>3. v # 1
    <3>1. "v" \in DOMAIN g
      BY <1>g, <2>2 DEF Has
    <3>2. "v" \notin Spelled([userMessage |-> r.userMessage, closed |-> r.closed])
      BY DEF Spelled
    <3>3. "v" \notin {Carried(r)[i] : i \in DOMAIN Carried(r)}
      BY <1>c
    <3> QED
      BY <1>d, <3>1, <3>2, <3>3 DEF emplaceVersion
  <2> QED
    BY <2>3, VersionsAssumption
<1>5. CASE t = "ConfirmAction"
  <2>1. r.t = "Confirm"
    <3>1. SUFFICES ASSUME r.t = "Secret" PROVE FALSE
      BY <1>5, <1>c DEF Answers
    <3>2. Carried(r) = <<"secret">>
      BY <1>c, <3>1, SecretKeysAre
    <3>3. "secret" \in {Carried(r)[i] : i \in DOMAIN Carried(r)}
      BY <3>2
    <3> QED
      BY <1>2, <1>5, <1>d, <1>g, <3>3
  <2>2. SecretKeys(t) = << >> /\ SecretKeys(r.t) = << >>
    BY <1>5, <2>1, SecretKeysAre
  <2>3. r.secrets \in [{} -> Secrets]
    BY <1>c, <2>2
  <2> QED
    BY <1>3, <1>4, <2>2, <2>3
<1>6. CASE t \in {"RequestSecret", "RequestSecrets"}
  <2>1. PICK keys : keys = SecretKeys(t)
    OBVIOUS
  <2>2. /\ keys \in {<<"secret">>, <<"primary", "secondary">>}
        /\ Carried(r) = keys /\ r.secrets \in [DOMAIN keys -> Secrets]
    BY <1>6, <1>c, <2>1, SecretKeysAre DEF Answers
  <2>3. ASSUME NEW i \in DOMAIN keys PROVE m[keys[i]].val = r.secrets[i]
    <3>1. keys[i] \in {"secret", "primary", "secondary"} /\ (CHOOSE n \in DOMAIN keys : keys[n] = keys[i]) = i
      BY <2>2
    <3>2. PICK x : x = keys[i]
      OBVIOUS
    <3>3. x \in DOMAIN g /\ x \notin PlainKeys /\ x \in CarriedKeys(r)
      BY <1>d, <2>2, <3>1, <3>2 DEF PlainKeys, CarriedKeys
    <3>4. g[x] = Value("bytes", SecretUnder(r, x))
      <4>1. g = ReplyFrame(v, r)
        OBVIOUS
      <4> QED
        BY ONLY <3>3, <4>1, ReplySecret, Zenon
    <3>5. g[x] = Value("bytes", r.secrets[i])
      <4>1. SecretUnder(r, x) = r.secrets[i]
        BY <2>2, <3>1, <3>2 DEF SecretUnder
      <4> QED
        BY <3>4, <4>1
    <3>6. x # k
      <4>1. Has(m, x, "bytes")
        BY <1>2, <1>6, <2>1, <3>2
      <4>2. x = k => m[x] = Value("other", "")
        BY <1>g, <3>3
      <4> QED
        BY <4>1, <4>2, OtherIs DEF Has
    <3>7. m[x] = Value("bytes", r.secrets[i])
      BY <1>g, <3>3, <3>5, <3>6
    <3>8. m[x].val = r.secrets[i]
      BY ONLY <3>7, ValueIs
    <3> QED
      BY <3>2, <3>8
  <2> QED
    BY <1>3, <1>4, <2>1, <2>2, <2>3
<1> QED
  BY <1>3, <1>4, <1>5, <1>6

\* What the agent takes for the end of a reset says so, and how many windows
\* were closed.
LEMMA ResetReply ==
  ASSUME NEW v, NEW r, NEW g, g = ReplyFrame(v, r), NEW k, NEW m, m = Garble(g, k),
         r.closed \in 0..2, ErrorOf("Reset", m) = "none"
  PROVE  r.t = "ResetDone" /\ Read(m, "closed") = r.closed
<1>g. /\ DOMAIN m = DOMAIN g
      /\ \A j \in DOMAIN g : j # k => m[j] = g[j]
      /\ k \in DOMAIN g => m[k] = Value("other", "")
  <2>1. m = Garble(g, k)
    OBVIOUS
  <2> QED
    BY ONLY <2>1, GarbleIs
<1>d. DOMAIN g = {"t"} \cup emplaceVersion(v) \cup (IF r.t = "ResetDone" THEN {} ELSE {"status"})
                  \cup {Carried(r)[i] : i \in DOMAIN Carried(r)}
                  \cup Spelled([userMessage |-> r.userMessage, closed |-> r.closed])
  BY ReplyKeys, Zenon
<1>0. ResetError(m) = "none"
  BY Zenon DEF ErrorOf
<1>1. Has(m, "t", "text") /\ m["t"].val = "ResetDone" /\ ~Mistyped(m, "closed")
  BY <1>0, Zenon DEF ResetError
<1>2. r.t = "ResetDone"
  <2>1. k # "t"
    <3>1. k = "t" => m["t"] = Value("other", "")
      BY <1>d, <1>g
    <3> QED
      BY <1>1, <3>1, OtherIs DEF Has
  <2>2. m["t"] = Text(r.t)
    <3>1. g["t"] = Text(r.t)
      BY ReplyTag, Zenon
    <3> QED
      BY <1>d, <1>g, <2>1, <3>1
  <2>3. m["t"].val = r.t
    BY ONLY <2>2, TextIs
  <2> QED
    BY <1>1, <2>3
<1>3. Default("closed") = 0 /\ "closed" \in UintKeys /\ Narrow(r.closed) = r.closed
  <2>1. \A n \in 0..2 : n % Width = n
    BY WireAssumption
  <2> QED
    BY <2>1 DEF Default, UintKeys, Narrow
<1>4. "closed" \in DOMAIN m <=> r.closed # 0
  <2>1. {Carried(r)[i] : i \in DOMAIN Carried(r)} = {}
    <3>1. Carried(r) = << >>
      BY <1>2, SecretKeysAre DEF Carried
    <3> QED
      BY <3>1
  <2>2. "closed" \in Spelled([userMessage |-> r.userMessage, closed |-> r.closed]) <=> r.closed # 0
    BY <1>3 DEF Spelled, Spoken
  <2> QED
    BY <1>d, <1>g, <2>1, <2>2 DEF emplaceVersion
<1>5. CASE "closed" \notin DOMAIN m
  BY <1>2, <1>3, <1>4, <1>5 DEF Read
<1>6. CASE "closed" \in DOMAIN m
  <2>1. k # "closed"
    <3>1. k = "closed" => m["closed"] = Value("other", "")
      BY <1>6, <1>g
    <3>2. Typed("closed", Default("closed")).type # "other"
      BY ONLY TypedIs
    <3> QED
      BY <1>1, <1>6, <3>1, <3>2, OtherIs DEF Mistyped
  <2>2. g["closed"] = Typed("closed", r.closed)
    BY <1>6, <1>g, ReplyClosed, Zenon
  <2>3. m["closed"] = Typed("closed", r.closed)
    BY <1>6, <1>g, <2>1, <2>2
  <2>4. m["closed"].val = r.closed
    BY ONLY <2>3, TypedIs
  <2> QED
    BY <1>2, <1>3, <1>6, <2>4 DEF Read
<1> QED
  BY <1>5, <1>6

\* Every parser of a status reads the refusal of a newer agent as an error of
\* this version.
LEMMA TooNewReply ==
  ASSUME NEW m, m = ReplyFrame(Own, unsupportedVersionReply)
  PROVE  /\ \A t \in {"RequestSecret", "RequestSecrets", "ConfirmAction"} : ErrorOf(t, m) = "none"
         /\ promptStatusFor(m["status"].val) = "Error" /\ Announced(m) = Own
<1>a. Own \in Nat /\ Own > 1 /\ Width \in Nat /\ Width > Own
  BY WireAssumption
<1> DEFINE r == unsupportedVersionReply
<1>r. /\ r.t = "Secret" /\ r.status = "error" /\ r.userMessage = "too new" /\ r.closed = 0
      /\ Carried(r) = << >>
  BY DEF unsupportedVersionReply, Reply, Carried
<1>d. DOMAIN m = {"t", "v", "status", "userMessage"}
  <2>1. DOMAIN m = {"t"} \cup emplaceVersion(Own) \cup (IF r.t = "ResetDone" THEN {} ELSE {"status"})
                    \cup {Carried(r)[i] : i \in DOMAIN Carried(r)}
                    \cup Spelled([userMessage |-> r.userMessage, closed |-> r.closed])
    BY ReplyKeys, Zenon
  <2>2. emplaceVersion(Own) = {"v"} /\ {Carried(r)[i] : i \in DOMAIN Carried(r)} = {}
    <3>1. Own # 1
      BY <1>a
    <3>2. {Carried(r)[i] : i \in DOMAIN Carried(r)} = {}
      <4>1. PICK c : c = Carried(r)
        OBVIOUS
      <4>2. c = << >>
        BY <1>r, <4>1
      <4>3. {c[i] : i \in DOMAIN c} = {}
        BY ONLY <4>2
      <4> QED
        BY <4>1, <4>3
    <3> QED
      BY <3>1, <3>2 DEF emplaceVersion
  <2>3. Spelled([userMessage |-> r.userMessage, closed |-> r.closed]) = {"userMessage"}
    <3>1. PICK f : f = [userMessage |-> "too new", closed |-> 0]
      OBVIOUS
    <3>2. Spelled(f) = {"userMessage"}
      <4>1. DOMAIN f = {"userMessage", "closed"} /\ f["userMessage"] = "too new" /\ f["closed"] = 0
        BY <3>1
      <4>2. Spoken("userMessage", "too new") /\ ~Spoken("closed", 0)
        BY DEF Spoken, Default, UintKeys
      <4>3. PICK D : D = {k \in DOMAIN f : Spoken(k, f[k])}
        OBVIOUS
      <4>4. "userMessage" \in D /\ "closed" \notin D /\ D \subseteq {"userMessage", "closed"}
        BY ONLY <4>1, <4>2, <4>3, Zenon
      <4>5. D = {"userMessage"}
        BY ONLY <4>4
      <4> QED
        BY <4>3, <4>5 DEF Spelled
    <3> QED
      BY <1>r, <3>1, <3>2
  <2> QED
    BY <1>r, <2>1, <2>2, <2>3
<1>v. m["v"].type = "uint" /\ m["v"].val = Own
  <2>1. m["v"] = Value("uint", Own)
    <3>1. Own # 1
      BY <1>a
    <3> QED
      BY <3>1, ReplyVersion, Zenon
  <2> QED
    BY ONLY <2>1, ValueIs
<1>s. m["status"].type = "text" /\ m["status"].val = "error"
  <2>1. m["status"] = Text(r.status)
    BY <1>r, ReplyStatus, Zenon
  <2>2. m["status"].type = "text" /\ m["status"].val = r.status
    BY ONLY <2>1, TextIs
  <2> QED
    BY <1>r, <2>2
<1>u. ~Mistyped(m, "userMessage")
  <2>1. "userMessage" # "t" /\ "userMessage" # "v" /\ "userMessage" # "status"
    OBVIOUS
  <2>2. m["userMessage"] = Typed("userMessage", r.userMessage)
    BY <1>d, Zenon DEF ReplyFrame
  <2>3. m["userMessage"].type = Typed("userMessage", Default("userMessage")).type
    BY ONLY <2>2, TypedIs
  <2> QED
    BY <2>3 DEF Mistyped
<1>1. Announced(m) = Own
  BY <1>d, <1>v DEF Announced, Has
<1>2. promptStatusFor(m["status"].val) = "Error"
  BY <1>s, Zenon DEF promptStatusFor
<1>3. Has(m, "status", "text") /\ m["status"].val \in StatusWords /\ ~ReplyVersionError(m)
  BY <1>a, <1>d, <1>s, <1>v, <1>1 DEF Has, StatusWords, ReplyVersionError, VersionMistyped
<1>4. ConfirmError(m) = "none"
  <2>1. \A k \in {"secret", "primary", "secondary"} : k \notin DOMAIN m
    BY <1>d
  <2> QED
    BY <1>3, <1>u, <2>1, Zenon DEF ConfirmError
<1>5. \A keys : ReplyError(m, keys) = "none"
  BY <1>3, <1>s, <1>u, Zenon DEF ReplyError
<1>6. ASSUME NEW t \in {"RequestSecret", "RequestSecrets", "ConfirmAction"}
      PROVE  ErrorOf(t, m) = "none"
  BY <1>4, <1>5, <1>6, Zenon DEF ErrorOf
<1> QED
  BY <1>1, <1>2, <1>6

(***************************************************************************)
(* The inductive invariant.                                                *)
(***************************************************************************)

HelperBuffers == {"helper.reply", "helper.tree", "helper.body"}
SecretCopies == {"secret", "primary", "secondary"}

\* What is on its way to the helper is the request as its sender spells it,
\* with the one key garbled that a sender of another build garbled.
UpInv ==
    /\ agent = "asking" => up = << >> /\ helper = "idle"
    /\ helper # "idle" => up = << >>
    /\ helper = "idle" /\ ~Foreign(agentV) => garbled = "none"
    /\ up # << >> => \E tag \in ForeignTags :
           LET f == Message(agentV, tag, ask.kind, ForeignFields) IN
           garbled \in {"none"} \cup DOMAIN f /\ up = <<Garble(f, garbled)>>
    /\ agent \notin {"asking", "done"} /\ ~Foreign(agentV) => ask.t # "CancelCurrent"

\* What the helper acts on is what was meant, but for a helper that is older.
TakenInv ==
    /\ helper = "idle" => taken = << >>
    /\ helper = "asking" => taken # << >>
    /\ taken # << >> /\ ~Foreign(helperV) => agentV <= Own /\ AsMeant
    /\ taken # << >> /\ helperV > Own => AsMeant
    /\ taken # << >> /\ helperV = 1 => ask.t # "Reset"
    /\ helper = "asking" /\ ~Foreign(helperV) => ask.t \notin {"CancelCurrent", "Reset"}

\* A positive answer is one to what was asked and taken.
AnswerInv ==
    /\ helper \in {"idle", "asking"} => answer = NoReply /\ down = << >>
    /\ helper \in {"answered", "encoded", "sent"} => ~Foreign(helperV)
    /\ answer.closed \in 0..2
    /\ answer.t # "ResetDone" => answer.closed = 0
    /\ answer.t = "ResetDone" => taken # << >> /\ ask.t = "Reset" /\ answer.secrets = << >>
    /\ answer.status = "ok" /\ answer.t # "ResetDone" =>
           /\ taken # << >> /\ Answers(ask.t, answer.t)
           /\ answer.secrets \in [DOMAIN SecretKeys(answer.t) -> Secrets]

\* What is on its way back is the answer, once it was given, with at most the
\* one key garbled that a helper of another build garbled.
GarbledKeys == {"none", "v", "status", "secret", "secondary", "userMessage", "closed"}
DownInv ==
    down # << >> =>
        /\ helper \in {"sent", "done"}
        /\ \E k \in GarbledKeys : down = <<Garble(ReplyFrame(helperV, answer), k)>>

\* What the agent reads and makes of it.
OutcomeInv ==
    /\ agent \in {"received", "parsed"} => agentV = Own /\ down # << >>
    /\ agent = "parsed" => ErrorOf(ask.t, Head(down)) = "none"
    /\ agent # "done" => outcome.status = "none"
    /\ outcome.status \in {"Ok", "ResetDone"} => down # << >>
    /\ OkMeansHonoured

\* A newer agent whose version can be read is refused.
RefusedInv ==
    ~Foreign(helperV) /\ agentV > Own /\ garbled # "v" /\ helper # "idle" =>
        /\ helper # "asking" /\ answer = unsupportedVersionReply
        /\ helper \in {"sent", "done"} /\ ~threw /\ ~lost => down = <<ReplyFrame(Own, answer)>>

\* Where there is plaintext, at every stage of either end.
PlainInv ==
    /\ helper \in {"idle", "asking"} \/ Foreign(helperV) => plain \cap HelperBuffers = {}
    /\ helper = "answered" => plain \cap HelperBuffers \subseteq {"helper.reply"}
    /\ helper = "done" => plain \cap HelperBuffers \subseteq IF threw THEN {"helper.tree", "helper.body"} ELSE {}
    /\ agent # "parsed" => plain \cap SecretCopies = {}
    /\ agent = "parsed" => plain \cap SecretCopies \subseteq {SecretKeys(ask.t)[i] : i \in DOMAIN SecretKeys(ask.t)}
    /\ agent \in {"asking", "waiting"} => "agent.frame" \notin plain
    /\ agent \in {"parsed", "done"} /\ AsksSecret => "agent.frame" \notin plain

IInv == AskInv /\ UpInv /\ TakenInv /\ AnswerInv /\ DownInv /\ OutcomeInv /\ RefusedInv /\ PlainInv

(***************************************************************************)
(* Initially.                                                              *)
(***************************************************************************)

\* The fields of a request are its keys', and its numbers have 32 bits.
LEMMA FieldsAre ==
  ASSUME NEW t \in Tags, NEW o \in Options, NEW k \in KeysOf(t)
  PROVE  k \in UintKeys => FieldsOf(t, o)[k] \in 0..(Width - 1)
<1>a. \A j \in {"minLength", "attempt", "deadlineMs", "altDeadlineMs"} : o[j] \in 0..(Width - 1)
  BY OptionsAssumption
<1>1. CASE t = "RequestSecret"
  <2>1. k \in {"title", "minLength", "artifacts", "attempt", "promptId", "deadlineMs",
               "altDeadlineMs", "readerInterface"}
    BY <1>1, Zenon DEF KeysOf
  <2>2. FieldsOf(t, o) = buildRequest(o)
    BY <1>1, Zenon DEF FieldsOf
  <2>3. KeysOf("RequestSecret") = KeysOf(t)
    BY <1>1
  <2>4. k # "readerInterface" => buildRequest(o)[k] = o[k]
    BY <2>3 DEF buildRequest
  <2> QED
    BY <1>a, <2>1, <2>2, <2>4 DEF UintKeys
<1>2. CASE t = "RequestSecrets"
  <2>1. k \in {"title", "primaryMinLength", "newMinLength", "promptId", "deadlineMs"}
    BY <1>2, Zenon DEF KeysOf
  <2>2. FieldsOf(t, o) = buildChangeRequest(o)
    BY <1>2, Zenon DEF FieldsOf
  <2>3. KeysOf("RequestSecrets") = KeysOf(t)
    BY <1>2
  <2>4. k \in {"primaryMinLength", "newMinLength"} => buildChangeRequest(o)[k] = o.minLength
    BY <2>3, Zenon DEF buildChangeRequest
  <2>5. k = "deadlineMs" => buildChangeRequest(o)[k] = o[k]
    BY <2>3, Zenon DEF buildChangeRequest
  <2>6. o.minLength \in 0..(Width - 1)
    BY <1>a
  <2> QED
    BY <1>a, <2>1, <2>2, <2>4, <2>5, <2>6 DEF UintKeys
<1>3. CASE t \in {"ConfirmAction", "CancelCurrent", "Reset"}
  <2>1. KeysOf("ConfirmAction") = {"title", "descriptionKey"} /\ KeysOf("CancelCurrent") = {"promptId"}
           /\ KeysOf("Reset") = {}
    BY Zenon DEF KeysOf
  <2> QED
    BY <1>3, <2>1 DEF UintKeys
<1> QED
  BY <1>1, <1>2, <1>3 DEF Tags

LEMMA InitIInv == Init => IInv
<1> SUFFICES ASSUME Init PROVE IInv
  OBVIOUS
<1>a. Own \in Nat /\ Own > 1 /\ Width \in Nat /\ Width > Own
  BY WireAssumption
<1>1. AskInv
  <2>1. PICK o \in Options, t \in Tags : \E kind \in Kinds(t) :
          ask = [t |-> t, kind |-> kind,
                 fields |-> IF agentV > 1 THEN FieldsOf(t, o)
                            ELSE [k \in KeysOf(t) |-> IF k \in Since2 THEN 0 ELSE FieldsOf(t, o)[k]]]
    BY DEF Init
  <2>2. PICK kind \in Kinds(t) :
          ask = [t |-> t, kind |-> kind,
                 fields |-> IF agentV > 1 THEN FieldsOf(t, o)
                            ELSE [k \in KeysOf(t) |-> IF k \in Since2 THEN 0 ELSE FieldsOf(t, o)[k]]]
    BY <2>1
  <2>3. PICK f : f = FieldsOf(t, o)
    OBVIOUS
  <2>4. f = [k \in KeysOf(t) |-> f[k]]
    <3>1. CASE t = "RequestSecret"
      <4>1. f = buildRequest(o)
        BY <2>3, <3>1, Zenon DEF FieldsOf
      <4> QED
        BY <3>1, <4>1 DEF buildRequest
    <3>2. CASE t = "RequestSecrets"
      <4>1. f = buildChangeRequest(o)
        BY <2>3, <3>2, Zenon DEF FieldsOf
      <4> QED
        BY <3>2, <4>1, Zenon DEF buildChangeRequest
    <3>3. CASE t \in {"ConfirmAction", "CancelCurrent", "Reset"}
      <4>1. f = [k \in KeysOf(t) |-> IF k = "descriptionKey" THEN o.title ELSE o[k]]
        BY <2>3, <3>3, Zenon DEF FieldsOf
      <4> QED
        BY <4>1
    <3> QED
      BY <3>1, <3>2, <3>3 DEF Tags
  <2>5. \A k \in KeysOf(t) : k \in UintKeys => f[k] \in 0..(Width - 1)
    BY <2>3, FieldsAre
  <2>6. PICK g : g = [k \in KeysOf(t) |-> IF k \in Since2 THEN 0 ELSE f[k]]
    OBVIOUS
  <2>7. \A k \in KeysOf(t) : k \in UintKeys => g[k] \in 0..(Width - 1)
    BY <1>a, <2>5, <2>6
  <2>8. ask = [t |-> t, kind |-> kind, fields |-> IF agentV > 1 THEN f ELSE g]
    BY ONLY <2>2, <2>3, <2>6
  <2>9. ask.t = t /\ ask.kind = kind /\ (ask.fields = f \/ ask.fields = g)
    BY ONLY <2>8
  <2>10. g = [k \in KeysOf(t) |-> g[k]]
    BY ONLY <2>6
  <2>11. ask.fields = [k \in KeysOf(ask.t) |-> ask.fields[k]]
    BY ONLY <2>4, <2>9, <2>10
  <2>12. \A k \in KeysOf(ask.t) : k \in UintKeys => ask.fields[k] \in 0..(Width - 1)
    BY ONLY <2>5, <2>7, <2>9
  <2>13. agentV \in Versions /\ helperV \in Versions /\ (agentV = Own \/ helperV = Own)
    BY DEF Init
  <2> QED
    BY <2>9, <2>11, <2>12, <2>13 DEF AskInv
<1>2. /\ garbled = "none" /\ agent = "asking" /\ helper = "idle"
      /\ up = << >> /\ down = << >> /\ taken = << >> /\ answer = NoReply
      /\ outcome.status = "none" /\ plain = {}
  BY DEF Init
<1>3. UpInv /\ TakenInv /\ DownInv /\ RefusedInv /\ PlainInv
  BY ONLY <1>2 DEF UpInv, TakenInv, DownInv, RefusedInv, PlainInv
<1>4. AnswerInv
  <2>1. answer.closed = 0 /\ answer.t = "none" /\ answer.status = "none"
    BY <1>2 DEF NoReply, Reply
  <2> QED
    BY <1>2, <2>1 DEF AnswerInv
<1>5. OutcomeInv
  BY <1>2 DEF OutcomeInv, OkMeansHonoured
<1> QED
  BY <1>1, <1>3, <1>4, <1>5 DEF IInv

(***************************************************************************)
(* What a step leaves alone.                                               *)
(***************************************************************************)

LEMMA AskStays ==
  ASSUME AskInv, UNCHANGED <<agentV, helperV, ask>>
  PROVE  AskInv'
  BY DEF AskInv

LEMMA UpStays ==
  ASSUME UpInv, UNCHANGED <<agentV, ask, garbled, helper, up>>,
         agent \in {"waiting", "received", "parsed"}, agent' # "asking"
  PROVE  UpInv'
  BY DEF UpInv, ForeignTags, ForeignFields, Foreign

\* The frame is taken.
LEMMA UpTaken ==
  ASSUME UpInv, UNCHANGED <<agentV, ask, agent>>, helper # "idle" \/ up # << >>,
         up' = << >>, helper' # "idle"
  PROVE  UpInv'
  BY DEF UpInv, Foreign

LEMMA TakenStays ==
  ASSUME TakenInv, UNCHANGED <<agentV, helperV, ask, taken>>, helper # "idle",
         helper' \notin {"idle", "asking"} \/ helper' = helper
  PROVE  TakenInv'
  BY DEF TakenInv, AsMeant, Meant, Foreign

LEMMA TakenUnchanged ==
  ASSUME TakenInv, UNCHANGED <<agentV, helperV, ask, taken, helper>>
  PROVE  TakenInv'
  BY DEF TakenInv, AsMeant, Meant, Foreign

LEMMA AnswerStays ==
  ASSUME AnswerInv, UNCHANGED <<helperV, ask, answer, taken>>,
         \/ UNCHANGED <<helper, down>>
         \/ helper' = "done"
         \/ helper' \in {"answered", "encoded", "sent"} /\ ~Foreign(helperV)
  PROVE  AnswerInv'
  BY DEF AnswerInv, Answers, Foreign

LEMMA DownStays ==
  ASSUME DownInv, UNCHANGED <<helperV, answer, down>>, helper' = helper \/ helper' \in {"sent", "done"}
  PROVE  DownInv'
  BY DEF DownInv

\* No frame, nothing to be held true of it.
LEMMA NoDown == ASSUME down' = << >> PROVE DownInv'
  BY DEF DownInv

LEMMA OutcomeStays ==
  ASSUME OutcomeInv, UNCHANGED <<agentV, helperV, ask, agent, outcome>>,
         down = << >> \/ UNCHANGED <<down, taken, answer>>
  PROVE  OutcomeInv'
<1>1. CASE down = << >>
  BY <1>1 DEF OutcomeInv, OkMeansHonoured
<1>2. CASE UNCHANGED <<down, taken, answer>>
  BY <1>2 DEF OutcomeInv, OkMeansHonoured, AsMeant, Meant
<1> QED
  BY <1>1, <1>2

LEMMA RefusedStays ==
  ASSUME RefusedInv, UNCHANGED <<agentV, helperV, garbled, helper, answer, threw, lost, down>>
  PROVE  RefusedInv'
  BY DEF RefusedInv, Foreign

LEMMA PlainStays ==
  ASSUME PlainInv, UNCHANGED <<helperV, ask, agent, helper, plain, threw>>
  PROVE  PlainInv'
  BY DEF PlainInv, AsksSecret, Foreign

\* A step of the agent leaves the helper alone.
LEMMA HelperStays ==
  ASSUME IInv, UNCHANGED <<agentV, helperV, ask, garbled, helper, down, taken, answer, threw, lost>>,
         UpInv', OutcomeInv', PlainInv'
  PROVE  IInv'
<1>1. AskInv' /\ TakenInv'
  BY AskStays, TakenUnchanged DEF IInv
<1>2. AnswerInv' /\ DownInv'
  BY AnswerStays, DownStays DEF IInv
<1>3. RefusedInv'
  BY RefusedStays DEF IInv
<1> QED
  BY <1>1, <1>2, <1>3 DEF IInv

\* No answer was read yet, or one that is not positive.
LEMMA OutcomeNotOk ==
  ASSUME OutcomeInv, agent # "done",
         \/ agent' = "waiting" /\ outcome' = outcome
         \/ agent' = "done" /\ outcome'.status \notin {"Ok", "ResetDone"}
  PROVE  OutcomeInv'
  BY DEF OutcomeInv, OkMeansHonoured

LEMMA PlainNotRead ==
  ASSUME PlainInv, UNCHANGED <<helperV, ask, helper, plain, threw>>,
         agent \in {"asking", "waiting"}, agent' \in {"waiting", "done"}
  PROVE  PlainInv'
  BY DEF PlainInv, AsksSecret, Foreign

(***************************************************************************)
(* The steps of the agent.                                                 *)
(***************************************************************************)

LEMMA SendKeeps == IInv /\ Send => IInv'
<1> SUFFICES ASSUME IInv, Send PROVE IInv'
  OBVIOUS
<1>0. AskInv /\ UpInv /\ TakenInv /\ AnswerInv /\ DownInv /\ OutcomeInv /\ RefusedInv /\ PlainInv
  BY DEF IInv
<1>1. /\ agent = "asking" /\ agentV = Own /\ UNCHANGED <<agentV, helperV, ask, garbled, helper, down, closed,
                                                        taken, answer, plain, threw, lost>>
      /\ up' = <<Message(Own, ask.t, ask.kind, ask.fields)>>
      /\ \/ ask.t = "CancelCurrent" /\ agent' = "done" /\ outcome' = Outcome("Sent", << >>, 0)
         \/ ask.t # "CancelCurrent" /\ agent' = "waiting" /\ outcome' = outcome
  BY DEF Send, Return, Foreign
<1>2. UpInv'
  <2>1. helper = "idle" /\ garbled = "none"
    BY <1>0, <1>1 DEF UpInv, Foreign
  <2>2. PICK f : f = Message(Own, ask.t, ask.kind, ask.fields)
    OBVIOUS
  <2>3. "none" \notin DOMAIN f
    <3>1. PICK fields : fields = ask.fields
      OBVIOUS
    <3>2. DOMAIN f \subseteq {"t"} \cup emplaceVersion(Own) \cup {"kind"} \cup Spelled(fields)
      <4>1. PICK t, kind : t = ask.t /\ kind = ask.kind
        OBVIOUS
      <4>2. f = Message(Own, t, kind, fields)
        BY <2>2, <3>1, <4>1
      <4>3. DOMAIN f = {"t"} \cup emplaceVersion(Own) \cup (IF kind = "" THEN {} ELSE {"kind"}) \cup Spelled(fields)
        BY ONLY <4>2, ZenonT(60) DEF Message
      <4> QED
        BY ONLY <4>3
    <3>3. "none" \notin Spelled(fields)
      BY <1>0, <3>1, KeysAreFields DEF AskInv, Spelled
    <3> QED
      BY <3>2, <3>3 DEF emplaceVersion
  <2>4. Garble(f, "none") = f
    BY <2>3 DEF Garble
  <2>5. ForeignTags' = {ask.t} /\ ForeignFields' = ask.fields
    BY <1>1, WireAssumption DEF ForeignTags, ForeignFields
  <2>6. up' = <<Garble(f, "none")>> /\ f = Message(agentV', ask.t, (ask.kind)', ForeignFields')
    BY <1>1, <2>2, <2>4, <2>5
  <2>7. \E tag \in ForeignTags' :
           LET g == Message(agentV', tag, (ask.kind)', ForeignFields') IN
           garbled' \in {"none"} \cup DOMAIN g /\ up' = <<Garble(g, garbled')>>
    BY <1>1, <2>1, <2>5, <2>6
  <2> QED
    BY <1>1, <2>1, <2>7 DEF UpInv, Foreign
<1>3. OutcomeInv'
  <2>1. Outcome("Sent", << >>, 0).status = "Sent"
    BY DEF Outcome
  <2> QED
    BY <1>0, <1>1, <2>1, OutcomeNotOk
<1>4. PlainInv'
  BY <1>0, <1>1, PlainNotRead
<1> QED
  BY <1>1, <1>2, <1>3, <1>4, HelperStays

LEMMA ForeignSendKeeps == IInv /\ ForeignSend => IInv'
<1> SUFFICES ASSUME IInv, ForeignSend PROVE IInv'
  OBVIOUS
<1>0. AskInv /\ UpInv /\ TakenInv /\ AnswerInv /\ DownInv /\ OutcomeInv /\ RefusedInv /\ PlainInv
  BY DEF IInv
<1>1. /\ agent = "asking" /\ Foreign(agentV) /\ agent' = "waiting"
      /\ UNCHANGED <<agentV, helperV, ask, helper, down, closed, taken, answer, outcome, plain, threw, lost>>
      /\ helper = "idle" /\ helperV = Own
  BY <1>0 DEF ForeignSend, UpInv, AskInv, Foreign
<1>2. UpInv'
  <2>1. PICK tag \in ForeignTags : \E k \in {"none"} \cup DOMAIN Message(agentV, tag, ask.kind, ForeignFields) :
          up' = <<Garble(Message(agentV, tag, ask.kind, ForeignFields), k)>> /\ garbled' = k
    BY DEF ForeignSend
  <2>2. ForeignTags' = ForeignTags /\ ForeignFields' = ForeignFields
    BY <1>1 DEF ForeignTags, ForeignFields
  <2>3. PICK f : f = Message(agentV, tag, ask.kind, ForeignFields)
    OBVIOUS
  <2>4. garbled' \in {"none"} \cup DOMAIN f /\ up' = <<Garble(f, garbled')>>
    BY <2>1, <2>3
  <2>5. f = Message(agentV', tag, (ask.kind)', ForeignFields')
    BY <1>1, <2>2, <2>3
  <2>6. \E g \in ForeignTags' :
           LET h == Message(agentV', g, (ask.kind)', ForeignFields') IN
           garbled' \in {"none"} \cup DOMAIN h /\ up' = <<Garble(h, garbled')>>
    BY <2>1, <2>2, <2>4, <2>5
  <2> QED
    BY <1>1, <2>6 DEF UpInv, Foreign
<1>3. OutcomeInv'
  BY <1>0, <1>1, OutcomeNotOk
<1>4. PlainInv'
  BY <1>0, <1>1, PlainNotRead
<1>5. RefusedInv'
  BY <1>1 DEF RefusedInv
<1>6. AskInv' /\ TakenInv' /\ AnswerInv' /\ DownInv'
  BY <1>0, <1>1, AskStays, TakenUnchanged, AnswerStays, DownStays
<1> QED
  BY <1>2, <1>3, <1>4, <1>5, <1>6 DEF IInv

LEMMA NoAnswerKeeps == IInv /\ (ReceiveFails \/ Budget) => IInv'
<1> SUFFICES ASSUME IInv, ReceiveFails \/ Budget PROVE IInv'
  OBVIOUS
<1>0. UpInv /\ OutcomeInv /\ PlainInv
  BY DEF IInv
<1>1. /\ agent = "waiting" /\ agent' = "done" /\ outcome'.status \notin {"Ok", "ResetDone"}
      /\ UNCHANGED <<agentV, helperV, ask, garbled, helper, up, down, taken, answer, plain, threw, lost>>
  BY DEF ReceiveFails, Budget, Return, Outcome
<1>2. UpInv' /\ OutcomeInv' /\ PlainInv'
  BY <1>0, <1>1, UpStays, OutcomeNotOk, PlainNotRead
<1> QED
  BY <1>1, <1>2, HelperStays

LEMMA ReceiveKeeps == IInv /\ Receive => IInv'
<1> SUFFICES ASSUME IInv, Receive PROVE IInv'
  OBVIOUS
<1>0. UpInv /\ OutcomeInv /\ PlainInv
  BY DEF IInv
<1>1. /\ agent = "waiting" /\ agentV = Own /\ down # << >> /\ agent' = "received"
      /\ plain' = plain \cup (IF Carries(Head(down)) THEN {"agent.frame"} ELSE {})
      /\ UNCHANGED <<agentV, helperV, ask, garbled, helper, up, down, closed, taken, answer, outcome, threw, lost>>
  BY DEF Receive, Foreign
<1>2. UpInv'
  BY <1>0, <1>1, UpStays
<1>3. OutcomeInv'
  BY <1>0, <1>1 DEF OutcomeInv, OkMeansHonoured
<1>4. PlainInv'
  <2>1. plain' \cap HelperBuffers = plain \cap HelperBuffers /\ plain' \cap SecretCopies = plain \cap SecretCopies
    BY <1>1 DEF HelperBuffers, SecretCopies
  <2> QED
    BY <1>0, <1>1, <2>1 DEF PlainInv, Foreign
<1> QED
  BY <1>1, <1>2, <1>3, <1>4, HelperStays

\* The copies of a reply's secrets are kept under the names of its secrets.
LEMMA CopiesAre ==
  ASSUME NEW m, NEW t, NEW keys, keys = SecretKeys(t)
  PROVE  /\ keys \in {<< >>, <<"secret">>, <<"primary", "secondary">>}
         /\ {keys[i] : i \in DOMAIN keys} \subseteq SecretCopies
         /\ Copies(m, keys) \subseteq {keys[i] : i \in DOMAIN keys}
<1>1. keys \in {<< >>, <<"secret">>, <<"primary", "secondary">>}
  BY Zenon DEF SecretKeys
<1>2. {keys[i] : i \in DOMAIN keys} \subseteq SecretCopies
  BY ONLY <1>1 DEF SecretCopies
<1>3. PICK n : n = CopiedSecrets(m, keys)
  OBVIOUS
<1>4. n \in 0..Len(keys) /\ DOMAIN keys = 1..Len(keys) /\ Len(keys) \in Nat
  BY <1>1, <1>3, CopiedAre
<1>5. {keys[i] : i \in 1..n} \subseteq {keys[i] : i \in DOMAIN keys}
  BY ONLY <1>4
<1>6. Copies(m, keys) \subseteq {keys[i] : i \in 1..n}
  BY <1>3 DEF Copies
<1> QED
  BY ONLY <1>1, <1>2, <1>5, <1>6

LEMMA ParseReplyKeeps == IInv /\ ParseReply => IInv'
<1> SUFFICES ASSUME IInv, ParseReply PROVE IInv'
  OBVIOUS
<1>0. UpInv /\ OutcomeInv /\ PlainInv
  BY DEF IInv
<1>1. PICK m, keys, made : m = Head(down) /\ keys = SecretKeys(ask.t) /\ made = Copies(m, keys)
  OBVIOUS
<1>2. /\ agent = "received" /\ agentV = Own /\ down # << >>
      /\ UNCHANGED <<agentV, helperV, ask, garbled, helper, up, down, closed, taken, answer, threw, lost>>
      /\ \/ /\ agent' = "done" /\ outcome' = Outcome("Malformed", << >>, 0)
            /\ plain' = FrameZeroed \cup (made \ made)
         \/ /\ ErrorOf(ask.t, m) = "none" /\ agent' = "parsed" /\ outcome' = outcome
            /\ plain' = FrameZeroed \cup made
  BY <1>0, <1>1 DEF ParseReply, OutcomeInv, Return, ZeroedByError
<1>3. UpInv'
  BY <1>0, <1>2, UpStays
<1>4. OutcomeInv'
  <2>1. CASE agent' = "done" /\ outcome' = Outcome("Malformed", << >>, 0)
    <3>1. outcome'.status = "Malformed"
      BY <2>1 DEF Outcome
    <3> QED
      BY <1>0, <1>2, <2>1, <3>1, OutcomeNotOk
  <2>2. CASE ErrorOf(ask.t, m) = "none" /\ agent' = "parsed" /\ outcome' = outcome
    BY <1>0, <1>1, <1>2, <2>2 DEF OutcomeInv, OkMeansHonoured
  <2> QED
    BY <1>2, <2>1, <2>2
<1>5. PlainInv'
  <2>1. /\ {keys[i] : i \in DOMAIN keys} \subseteq SecretCopies
        /\ made \subseteq {keys[i] : i \in DOMAIN keys}
    BY <1>1, CopiesAre
  <2>2. FrameZeroed \subseteq plain /\ FrameZeroed \cap HelperBuffers = plain \cap HelperBuffers
        /\ (AsksSecret => "agent.frame" \notin FrameZeroed)
    BY DEF FrameZeroed, HelperBuffers
  <2>3. plain' \cap HelperBuffers = plain \cap HelperBuffers
    <3>1. plain' \subseteq FrameZeroed \cup SecretCopies /\ FrameZeroed \subseteq plain'
      BY <1>2, <2>1
    <3> QED
      BY <2>2, <3>1 DEF HelperBuffers, SecretCopies
  <2>4. AsksSecret' <=> AsksSecret
    BY <1>2 DEF AsksSecret
  <2>5. AsksSecret => "agent.frame" \notin plain'
    BY <1>2, <2>1, <2>2 DEF SecretCopies
  <2>6. agent' = "parsed" => plain' \cap SecretCopies \subseteq {keys[i] : i \in DOMAIN keys}
    BY <1>0, <1>2, <2>1, <2>2 DEF PlainInv
  <2>7. agent' # "parsed" => plain' \cap SecretCopies = {}
    BY <1>0, <1>2, <2>2 DEF PlainInv
  <2>8. agent' \in {"parsed", "done"} /\ keys = SecretKeys(ask.t)'
    BY <1>1, <1>2
  <2> QED
    BY <1>0, <1>2, <2>3, <2>4, <2>5, <2>6, <2>7, <2>8 DEF PlainInv, Foreign
<1> QED
  BY <1>2, <1>3, <1>4, <1>5, HelperStays

LEMMA JudgeKeeps == IInv /\ Judge => IInv'
<1> SUFFICES ASSUME IInv, Judge PROVE IInv'
  OBVIOUS
<1>0. AskInv /\ UpInv /\ TakenInv /\ AnswerInv /\ DownInv /\ OutcomeInv /\ PlainInv
  BY DEF IInv
<1>1. PICK m, keys : m = Head(down) /\ keys = SecretKeys(ask.t)
  OBVIOUS
<1>2. /\ agent = "parsed" /\ agent' = "done" /\ agentV = Own /\ down # << >> /\ ErrorOf(ask.t, m) = "none"
      /\ UNCHANGED <<agentV, helperV, ask, garbled, helper, up, down, closed, taken, answer, threw, lost>>
      /\ plain' = plain \ {keys[i] : i \in DOMAIN keys}
  BY <1>0, <1>1 DEF Judge, OutcomeInv, Return
<1>3. \/ ask.t = "Reset" /\ outcome' = Outcome("ResetDone", << >>, Read(m, "closed"))
      \/ outcome' = Outcome("HelperTooOld", << >>, 0)
      \/ /\ ask.t # "Reset" /\ ~TooOld(m)
         /\ outcome' = Outcome(promptStatusFor(m["status"].val),
                               IF promptStatusFor(m["status"].val) = "Ok"
                               THEN [i \in DOMAIN keys |-> m[keys[i]].val] ELSE << >>, 0)
  BY <1>1 DEF Judge, Return
<1>4. UpInv'
  BY <1>0, <1>2, UpStays
<1>5. PlainInv'
  <2>1. /\ {keys[i] : i \in DOMAIN keys} \subseteq SecretCopies
        /\ plain \cap SecretCopies \subseteq {keys[i] : i \in DOMAIN keys}
    BY <1>0, <1>1, <1>2, CopiesAre DEF PlainInv
  <2>2. plain' \cap HelperBuffers = plain \cap HelperBuffers /\ plain' \cap SecretCopies = {}
    BY <1>2, <2>1 DEF HelperBuffers, SecretCopies
  <2>3. "agent.frame" \in plain' => "agent.frame" \in plain
    BY <1>2
  <2> QED
    BY <1>0, <1>2, <2>2, <2>3 DEF PlainInv, AsksSecret, Foreign
<1>k. PICK k : m = Garble(ReplyFrame(helperV, answer), k)
  <2>1. PICK k \in GarbledKeys : down = <<Garble(ReplyFrame(helperV, answer), k)>>
    BY <1>0, <1>2 DEF DownInv
  <2> QED
    BY <1>1, <2>1
<1>c. /\ agent' # "received" /\ agent' # "parsed" /\ down' # << >>
      /\ AsMeant' = AsMeant /\ helperV' = helperV /\ answer' = answer /\ ask' = ask
  BY <1>2 DEF AsMeant, Meant
<1>d. helperV \in Versions /\ Own \in Nat /\ (helperV = 1 \/ helperV >= Own) /\ Versions \subseteq Nat /\ Own > 1
  BY <1>0, WireAssumption, VersionsAssumption DEF AskInv
<1>e. taken # << >> /\ helperV >= Own => AsMeant
  <2>1. helperV >= Own => helperV = Own \/ helperV > Own
    BY <1>d
  <2> QED
    BY <1>0, <2>1 DEF TakenInv, Foreign
<1>6. CASE ask.t = "Reset" /\ outcome' = Outcome("ResetDone", << >>, Read(m, "closed"))
  <2>1. answer.t = "ResetDone" /\ Read(m, "closed") = answer.closed
    <3>1. ErrorOf("Reset", m) = "none" /\ answer.closed \in 0..2
      BY <1>0, <1>2, <1>6 DEF AnswerInv
    <3> QED
      BY <1>k, <3>1, ResetReply
  <2>2. taken # << >> /\ answer.secrets = << >>
    BY <1>0, <2>1 DEF AnswerInv
  <2>3. helperV >= Own
    BY <1>0, <1>6, <1>d, <2>2 DEF TakenInv
  <2>4. outcome'.status = "ResetDone" /\ outcome'.secrets = << >> /\ outcome'.closed = answer.closed
    BY <1>6, <2>1 DEF Outcome
  <2>5. OkMeansHonoured'
    BY <1>6, <1>c, <1>e, <2>2, <2>3, <2>4 DEF OkMeansHonoured
  <2>6. OutcomeInv'
    BY <1>2, <1>c, <2>5 DEF OutcomeInv
  <2> QED
    BY <1>2, <1>4, <1>5, <2>6, HelperStays
<1>7. CASE outcome' = Outcome("HelperTooOld", << >>, 0)
  <2>1. outcome'.status = "HelperTooOld"
    BY <1>7 DEF Outcome
  <2>2. OutcomeInv'
    BY <1>0, <1>2, <2>1, OutcomeNotOk
  <2> QED
    BY <1>2, <1>4, <1>5, <2>2, HelperStays
<1>8. CASE /\ ask.t # "Reset" /\ ~TooOld(m)
           /\ outcome' = Outcome(promptStatusFor(m["status"].val),
                                 IF promptStatusFor(m["status"].val) = "Ok"
                                 THEN [i \in DOMAIN keys |-> m[keys[i]].val] ELSE << >>, 0)
  <2>1. PICK status, secrets :
          /\ status = promptStatusFor(m["status"].val)
          /\ secrets = IF status = "Ok" THEN [i \in DOMAIN keys |-> m[keys[i]].val] ELSE << >>
          /\ outcome' = Outcome(status, secrets, 0)
    BY <1>8
  <2>2. outcome'.status = status /\ outcome'.secrets = secrets /\ outcome'.closed = 0
    BY <2>1 DEF Outcome
  <2>3. CASE status # "Ok"
    <3>1. status # "ResetDone"
      BY <2>1, Zenon DEF promptStatusFor
    <3>2. OutcomeInv'
      BY <1>0, <1>2, <2>2, <2>3, <3>1, OutcomeNotOk
    <3> QED
      BY <1>2, <1>4, <1>5, <3>2, HelperStays
  <2>4. CASE status = "Ok"
    <3>1. ask.t \in {"RequestSecret", "RequestSecrets", "ConfirmAction"}
      BY <1>0, <1>2, <1>8 DEF AskInv, UpInv, Tags, Foreign
    <3>2. answer.t # "ResetDone" /\ answer.closed = 0
      BY <1>0, <1>8 DEF AnswerInv
    <3>3. answer.status = "ok" => /\ taken # << >> /\ Answers(ask.t, answer.t)
                                  /\ answer.secrets \in [DOMAIN SecretKeys(answer.t) -> Secrets]
      BY <1>0, <3>2 DEF AnswerInv
    <3>4. PICK v, r, t, g : v = helperV /\ r = answer /\ t = ask.t /\ g = ReplyFrame(v, r)
      OBVIOUS
    <3>5. /\ v \in Versions /\ g = ReplyFrame(v, r) /\ m = Garble(g, k) /\ r.t # "ResetDone"
          /\ r.status = "ok" => Answers(t, r.t) /\ r.secrets \in [DOMAIN SecretKeys(r.t) -> Secrets]
          /\ t \in {"RequestSecret", "RequestSecrets", "ConfirmAction"}
          /\ ErrorOf(t, m) = "none" /\ ~TooOld(m) /\ promptStatusFor(m["status"].val) = "Ok"
      BY <1>2, <1>8, <1>d, <1>k, <2>1, <2>4, <3>1, <3>2, <3>3, <3>4
    <3>6. /\ v >= Own /\ r.status = "ok"
          /\ r.secrets = [i \in DOMAIN SecretKeys(t) |-> m[SecretKeys(t)[i]].val]
      BY ONLY <3>5, OkReply
    <3>7. answer.secrets = secrets
      BY <1>1, <2>1, <2>4, <3>4, <3>6
    <3>8. OkMeansHonoured'
      BY <1>c, <1>e, <2>2, <3>2, <3>3, <3>4, <3>6, <3>7 DEF OkMeansHonoured
    <3>9. OutcomeInv'
      BY <1>2, <1>c, <3>8 DEF OutcomeInv
    <3> QED
      BY <1>2, <1>4, <1>5, <3>9, HelperStays
  <2> QED
    BY <2>3, <2>4
<1> QED
  BY <1>3, <1>6, <1>7, <1>8

(***************************************************************************)
(* The steps of the helper.                                                *)
(***************************************************************************)

\* What is in the pipe, read by this helper.
LEMMA HeadOfUp ==
  ASSUME IInv, up # << >>
  PROVE  /\ agentV > Own /\ garbled # "v" => RequestError(Head(up)) = "UnsupportedVersion"
         /\ RequestError(Head(up)) = "none" => agentV <= Own
         /\ RequestError(Head(up)) = "none" =>
               parsePrompterRequest(Head(up)) = [t |-> ask.t, kind |-> ask.kind, fields |-> Meant]
<1>0. AskInv /\ UpInv
  BY DEF IInv
<1>1. PICK tag \in ForeignTags :
         /\ garbled \in {"none"} \cup DOMAIN Message(agentV, tag, ask.kind, ForeignFields)
         /\ up = <<Garble(Message(agentV, tag, ask.kind, ForeignFields), garbled)>>
  BY <1>0 DEF UpInv
<1>2. PICK w, t, kd, fields, k, m :
         w = agentV /\ t = ask.t /\ kd = ask.kind /\ fields = ForeignFields /\ k = garbled /\ m = Head(up)
  OBVIOUS
<1>5. w \in Nat /\ t \in Tags /\ kd \in Kinds(t) /\ Own \in Nat
  BY <1>0, <1>2, WireAssumption DEF AskInv
<1>6. WellFormed(t, ask.fields)
  BY <1>0, <1>2 DEF AskInv, WellFormed
<1>7. NoNames(fields)
  <2>1. DOMAIN fields \subseteq KeysOf(t) \cup {"later"}
    BY <1>2, <1>6 DEF ForeignFields, WellFormed
  <2>2. \A j \in KeysOf(t) : j \notin Names /\ j # "none"
    BY <1>5, KeysAreFields
  <2> QED
    BY <2>1, <2>2 DEF Names, NoNames
<1>8. /\ w > Own /\ k # "v" => RequestError(m) = "UnsupportedVersion"
      /\ RequestError(m) = "none" => w <= Own
      /\ RequestError(m) = "none" /\ tag = t /\ WellFormed(t, fields) =>
            parsePrompterRequest(m) = MeantBy(t, kd, fields)
  <2>1. Arrived(w, tag, t, kd, fields, k, m)
    BY <1>1, <1>2, <1>5, <1>7 DEF Arrived
  <2> QED
    BY ONLY <2>1, ReadBack
<1>9. ASSUME RequestError(m) = "none"
      PROVE  parsePrompterRequest(m) = [t |-> ask.t, kind |-> ask.kind, fields |-> Meant]
  <2>1. ~(agentV > Own)
    BY <1>2, <1>5, <1>8, <1>9
  <2>2. tag = t /\ fields = ask.fields
    BY <1>1, <1>2, <2>1 DEF ForeignTags, ForeignFields
  <2>3. parsePrompterRequest(m) = MeantBy(t, kd, fields)
    BY <1>6, <1>8, <1>9, <2>2
  <2>4. MeantBy(t, kd, fields) = [t |-> ask.t, kind |-> ask.kind, fields |-> Meant]
    BY <1>2, <2>2 DEF Meant, MeantBy
  <2> QED
    BY <2>3, <2>4
<1> QED
  BY <1>2, <1>8, <1>9

\* Nothing is plaintext in the helper before there is an answer.
LEMMA PlainNoAnswer ==
  ASSUME PlainInv, UNCHANGED <<helperV, ask, agent, plain, threw>>,
         helper \in {"idle", "asking"}, helper' \in {"asking", "answered", "done"}
  PROVE  PlainInv'
  BY DEF PlainInv, AsksSecret, Foreign

\* A step of the helper that takes the frame leaves the agent alone.
LEMMA AgentStays ==
  ASSUME IInv, helper \in {"idle", "asking"}, helper = "idle" => up # << >>, up' = << >>, down' = down,
         UNCHANGED <<agentV, helperV, ask, agent, outcome>>, helper' # "idle",
         TakenInv', AnswerInv', RefusedInv', PlainInv'
  PROVE  IInv'
<1>0. AskInv /\ UpInv /\ AnswerInv /\ DownInv /\ OutcomeInv
  BY DEF IInv
<1>1. down = << >>
  BY <1>0 DEF AnswerInv
<1>2. AskInv' /\ UpInv'
  BY <1>0, AskStays, UpTaken
<1>3. OutcomeInv' /\ DownInv'
  BY <1>0, <1>1, OutcomeStays, NoDown
<1> QED
  BY <1>2, <1>3 DEF IInv

\* The replies that carry no secret and say no.
LEMMA RefusalsAre ==
  \A r \in {unsupportedVersionReply, unsupportedConfirmation, unsupportedSecrets} :
     r.closed = 0 /\ r.t # "ResetDone" /\ r.status = "error" /\ r.secrets = << >>
<1> DEFINE No(r) == r.closed = 0 /\ r.t # "ResetDone" /\ r.status = "error" /\ r.secrets = << >>
<1>1. No(unsupportedVersionReply)
  BY DEF unsupportedVersionReply, Reply
<1>2. No(unsupportedConfirmation)
  BY DEF unsupportedConfirmation, Reply
<1>3. No(unsupportedSecrets)
  BY DEF unsupportedSecrets, Reply
<1> HIDE DEF No
<1>4. \A r \in {unsupportedVersionReply, unsupportedConfirmation, unsupportedSecrets} : No(r)
  BY <1>1, <1>2, <1>3
<1> QED
  BY <1>4 DEF No

LEMMA ReadRequestKeeps == IInv /\ ReadRequest => IInv'
<1> SUFFICES ASSUME IInv, ReadRequest PROVE IInv'
  OBVIOUS
<1>0. AskInv /\ UpInv /\ TakenInv /\ AnswerInv /\ PlainInv
  BY DEF IInv
<1>1. PICK m, error, q : m = Head(up) /\ error = RequestError(m) /\ q = parsePrompterRequest(m)
  OBVIOUS
<1>2. /\ helper = "idle" /\ helperV = Own /\ up # << >> /\ up' = << >>
      /\ UNCHANGED <<agentV, helperV, ask, garbled, agent, down, outcome, threw, lost>>
  BY DEF ReadRequest, Foreign
<1>3. \/ error = "UnsupportedVersion" /\ Refuse(unsupportedVersionReply)
      \/ error \notin {"UnsupportedVersion", "none"} /\ StaySilent
      \/ /\ error = "none"
         /\ Refuse(IF q.t = "ConfirmAction" THEN unsupportedConfirmation ELSE unsupportedSecrets)
      \/ error = "none" /\ Dispatch(q)
  BY <1>1 DEF ReadRequest
<1>4. /\ agentV > Own /\ garbled # "v" => error = "UnsupportedVersion"
      /\ error = "none" => agentV <= Own /\ q = [t |-> ask.t, kind |-> ask.kind, fields |-> Meant]
  BY <1>1, <1>2, HeadOfUp
<1>5. taken = << >> /\ down = << >> /\ answer = NoReply /\ Own \in Nat /\ agentV \in Nat
  BY <1>0, <1>2, WireAssumption DEF TakenInv, AnswerInv, AskInv
<1>6. ASSUME NEW r \in {unsupportedVersionReply, unsupportedConfirmation, unsupportedSecrets}, Refuse(r),
             agentV > Own /\ garbled # "v" => r = unsupportedVersionReply
      PROVE  IInv'
  <2>1. r.closed = 0 /\ r.t # "ResetDone" /\ r.status = "error" /\ r.secrets = << >>
    BY RefusalsAre
  <2>2. answer' = r /\ helper' = "answered" /\ plain' = plain /\ taken' = taken
    BY <1>6, <2>1 DEF Refuse, Answered
  <2>3. TakenInv'
    BY <1>5, <2>2 DEF TakenInv
  <2>4. AnswerInv'
    BY <1>2, <2>1, <2>2 DEF AnswerInv, Foreign
  <2>5. RefusedInv'
    BY <1>2, <1>6, <2>2 DEF RefusedInv
  <2>6. PlainInv'
    BY <1>0, <1>2, <2>2, PlainNoAnswer
  <2> QED
    BY <1>2, <2>2, <2>3, <2>4, <2>5, <2>6, AgentStays
<1>7. CASE error = "UnsupportedVersion" /\ Refuse(unsupportedVersionReply)
  BY <1>6, <1>7
<1>8. CASE error \notin {"UnsupportedVersion", "none"} /\ StaySilent
  <2>1. helper' = "done" /\ UNCHANGED <<taken, answer, plain>>
    BY <1>8 DEF StaySilent, LetGo
  <2>2. TakenInv'
    BY <1>5, <2>1 DEF TakenInv
  <2>3. AnswerInv'
    BY <1>0, <1>2, <2>1, AnswerStays
  <2>4. RefusedInv'
    BY <1>2, <1>4, <1>8 DEF RefusedInv
  <2>5. PlainInv'
    BY <1>0, <1>2, <2>1, PlainNoAnswer
  <2> QED
    BY <1>2, <2>1, <2>2, <2>3, <2>4, <2>5, AgentStays
<1>9. CASE error = "none" /\ Refuse(IF q.t = "ConfirmAction" THEN unsupportedConfirmation ELSE unsupportedSecrets)
  <2>1. ~(agentV > Own)
    BY <1>4, <1>5, <1>9
  <2> QED
    BY <1>6, <1>9, <2>1
<1>10. CASE error = "none" /\ Dispatch(q)
  <2>1. agentV <= Own /\ ~(agentV > Own) /\ q.t = ask.t /\ q.kind = ask.kind /\ q.fields = Meant
    BY <1>4, <1>5, <1>10
  <2>2. taken' = <<q>> /\ taken' # << >> /\ taken'[1] = q
    BY <1>10 DEF Dispatch
  <2>3. AsMeant'
    <3>1. Meant' = Meant
      BY <1>2 DEF Meant
    <3> QED
      BY <1>2, <2>1, <2>2, <3>1 DEF AsMeant
  <2>4. RefusedInv'
    BY <1>2, <2>1 DEF RefusedInv
  <2>5. Own > 1
    BY WireAssumption
  <2>6. helper' # "idle" /\ (helper' = "asking" => ask.t \notin {"CancelCurrent", "Reset"}) => TakenInv'
    BY <1>2, <1>5, <2>1, <2>2, <2>3, <2>5 DEF TakenInv, Foreign
  <2>7. CASE q.t = "CancelCurrent" /\ LetGo /\ UNCHANGED <<answer, plain>>
    <3>1. helper' = "done" /\ TakenInv'
      BY <2>6, <2>7 DEF LetGo
    <3>2. AnswerInv'
      BY <1>0, <1>2, <1>5, <2>2, <2>7, <3>1 DEF AnswerInv, NoReply, Reply, Foreign
    <3>3. PlainInv'
      BY <1>0, <1>2, <2>7, <3>1, PlainNoAnswer
    <3> QED
      BY <1>2, <2>4, <3>1, <3>2, <3>3, AgentStays
  <2>8. CASE q.t = "Reset" /\ \E n \in 0..2 : Answered(Reply("ResetDone", "none", << >>, "", n))
    <3>1. PICK n \in 0..2 : Answered(Reply("ResetDone", "none", << >>, "", n))
      BY <2>8
    <3>2. PICK r : r = Reply("ResetDone", "none", << >>, "", n)
      OBVIOUS
    <3>3. r.t = "ResetDone" /\ r.status = "none" /\ r.secrets = << >> /\ r.closed = n
      BY <3>2 DEF Reply
    <3>4. answer' = r /\ helper' = "answered" /\ plain' = plain
      BY <3>1, <3>2, <3>3 DEF Answered
    <3>5. TakenInv'
      BY <2>6, <3>4
    <3>6. AnswerInv'
      BY <1>2, <2>1, <2>2, <2>8, <3>3, <3>4 DEF AnswerInv, Foreign
    <3>7. PlainInv'
      BY <1>0, <1>2, <3>4, PlainNoAnswer
    <3> QED
      BY <1>2, <2>4, <3>4, <3>5, <3>6, <3>7, AgentStays
  <2>9. CASE q.t \notin {"CancelCurrent", "Reset"} /\ helper' = "asking" /\ UNCHANGED <<answer, plain>>
    <3>1. TakenInv'
      BY <2>1, <2>6, <2>9
    <3>2. AnswerInv'
      BY <1>0, <1>2, <1>5, <2>2, <2>9 DEF AnswerInv, NoReply, Reply, Foreign
    <3>3. PlainInv'
      BY <1>0, <1>2, <2>9, PlainNoAnswer
    <3> QED
      BY <1>2, <2>4, <2>9, <3>1, <3>2, <3>3, AgentStays
  <2> QED
    BY <1>10, <2>7, <2>8, <2>9 DEF Dispatch
<1> QED
  BY <1>3, <1>7, <1>8, <1>9, <1>10

\* A step of the helper that has its answer leaves what it answers alone.
LEMMA AnsweredStays ==
  ASSUME IInv, helper \in {"answered", "encoded", "sent"},
         helper' \in {"encoded", "sent", "done"},
         UNCHANGED <<agentV, helperV, ask, agent, up, taken, answer, outcome>>,
         down = << >> \/ down' = down, DownInv', RefusedInv', PlainInv'
  PROVE  IInv'
<1>0. AskInv /\ UpInv /\ TakenInv /\ AnswerInv /\ OutcomeInv
  BY DEF IInv
<1>1. up' = << >> /\ ~Foreign(helperV)
  BY <1>0 DEF UpInv, AnswerInv
<1>2. AskInv' /\ UpInv' /\ TakenInv'
  BY <1>0, <1>1, AskStays, UpTaken, TakenStays
<1>3. AnswerInv'
  BY <1>0, <1>1, AnswerStays
<1>4. OutcomeInv'
  BY <1>0, OutcomeStays
<1> QED
  BY <1>2, <1>3, <1>4 DEF IInv

LEMMA WindowAnswersKeeps == IInv /\ WindowAnswers => IInv'
<1> SUFFICES ASSUME IInv, WindowAnswers PROVE IInv'
  OBVIOUS
<1>0. AskInv /\ UpInv /\ TakenInv /\ AnswerInv /\ PlainInv
  BY DEF IInv
<1>1. PICK q : q = taken[1]
  OBVIOUS
<1>2. PICK t : t = CASE q.t = "RequestSecret" -> "Secret"
                     [] q.t = "RequestSecrets" -> "Secrets"
                     [] OTHER -> "Confirm"
  OBVIOUS
<1>3. /\ helper = "asking" /\ helperV = Own
      /\ UNCHANGED <<agentV, helperV, ask, garbled, agent, up, down, closed, taken, outcome, threw, lost>>
  BY DEF WindowAnswers, Foreign
<1>4. \/ \E s \in [DOMAIN SecretKeys(t) -> Secrets] : Answered(Reply(t, "ok", s, "", 0))
      \/ \E status \in {"cancelled", "error", "timeout"} : Answered(Reply(t, status, << >>, "", 0))
  BY <1>1, <1>2, Zenon DEF WindowAnswers
<1>5. taken # << >> /\ agentV <= Own /\ q.t = ask.t /\ ask.t \in {"RequestSecret", "RequestSecrets", "ConfirmAction"}
  BY <1>0, <1>1, <1>3 DEF TakenInv, AsMeant, AskInv, Tags, Foreign
<1>6. t # "ResetDone" /\ Answers(ask.t, t)
  <2>1. CASE ask.t = "RequestSecret"
    <3>1. t = "Secret"
      BY <1>2, <1>5, <2>1, Zenon
    <3> QED
      BY <2>1, <3>1 DEF Answers
  <2>2. CASE ask.t = "RequestSecrets"
    <3>1. t = "Secrets"
      BY <1>2, <1>5, <2>2, Zenon
    <3> QED
      BY <2>2, <3>1 DEF Answers
  <2>3. CASE ask.t = "ConfirmAction"
    <3>1. t = "Confirm"
      BY <1>2, <1>5, <2>3, Zenon
    <3> QED
      BY <2>3, <3>1 DEF Answers
  <2> QED
    BY <1>5, <2>1, <2>2, <2>3
<1>7. PICK r : /\ Answered(r) /\ r.t = t /\ r.closed = 0
               /\ r.status = "ok" => r.secrets \in [DOMAIN SecretKeys(t) -> Secrets]
  <2>1. CASE \E s \in [DOMAIN SecretKeys(t) -> Secrets] : Answered(Reply(t, "ok", s, "", 0))
    <3>1. PICK s \in [DOMAIN SecretKeys(t) -> Secrets] : Answered(Reply(t, "ok", s, "", 0))
      BY <2>1
    <3>2. PICK r : r = Reply(t, "ok", s, "", 0)
      OBVIOUS
    <3>3. r.t = t /\ r.closed = 0 /\ r.secrets = s
      BY <3>2 DEF Reply
    <3> QED
      BY <3>1, <3>2, <3>3
  <2>2. CASE \E status \in {"cancelled", "error", "timeout"} : Answered(Reply(t, status, << >>, "", 0))
    <3>1. PICK status \in {"cancelled", "error", "timeout"} : Answered(Reply(t, status, << >>, "", 0))
      BY <2>2
    <3>2. PICK r : r = Reply(t, status, << >>, "", 0)
      OBVIOUS
    <3>3. r.t = t /\ r.closed = 0 /\ r.status = status /\ status # "ok"
      BY <3>2 DEF Reply
    <3> QED
      BY <3>1, <3>2, <3>3
  <2> QED
    BY <1>4, <2>1, <2>2
<1>8. /\ answer' = r /\ helper' = "answered"
      /\ plain' = plain \cup (IF r.secrets # << >> THEN {"helper.reply"} ELSE {})
  BY <1>7 DEF Answered
<1>9. TakenInv'
  BY <1>0, <1>3, <1>8, TakenStays
<1>10. AnswerInv'
  BY <1>3, <1>5, <1>6, <1>7, <1>8 DEF AnswerInv, Foreign
<1>11. RefusedInv'
  <2>1. ~(agentV > Own)
    BY <1>0, <1>5, WireAssumption DEF AskInv
  <2> QED
    BY <1>3, <2>1 DEF RefusedInv
<1>12. PlainInv'
  <2>1. plain' \cap HelperBuffers \subseteq {"helper.reply"}
    BY <1>0, <1>3, <1>8 DEF PlainInv
  <2>2. plain' \cap SecretCopies = plain \cap SecretCopies /\ ("agent.frame" \in plain' => "agent.frame" \in plain)
    BY <1>8 DEF SecretCopies
  <2> QED
    BY <1>0, <1>3, <1>8, <2>1, <2>2 DEF PlainInv, AsksSecret, Foreign
<1>13. up' = << >>
  BY <1>0, <1>3 DEF UpInv
<1> QED
  BY <1>3, <1>8, <1>9, <1>10, <1>11, <1>12, <1>13, AgentStays

LEMMA EncodeKeeps == IInv /\ Encode => IInv'
<1> SUFFICES ASSUME IInv, Encode PROVE IInv'
  OBVIOUS
<1>0. AnswerInv /\ DownInv /\ RefusedInv /\ PlainInv
  BY DEF IInv
<1>1. /\ helper = "answered" /\ helper' = "encoded"
      /\ plain' = plain \cup (IF HasSecret THEN {"helper.tree", "helper.body"} ELSE {})
      /\ UNCHANGED <<agentV, helperV, ask, garbled, agent, up, down, closed, taken, answer, outcome, threw, lost>>
  BY DEF Encode
<1>2. DownInv'
  BY <1>0, <1>1 DEF DownInv
<1>3. RefusedInv'
  BY <1>0, <1>1 DEF RefusedInv, Foreign
<1>4. PlainInv'
  <2>1. ~Foreign(helperV)'
    BY <1>0, <1>1 DEF AnswerInv, Foreign
  <2>2. plain' \cap SecretCopies = plain \cap SecretCopies /\ ("agent.frame" \in plain' => "agent.frame" \in plain)
    BY <1>1 DEF SecretCopies
  <2> QED
    BY <1>0, <1>1, <2>1, <2>2 DEF PlainInv, AsksSecret
<1> QED
  BY <1>1, <1>2, <1>3, <1>4, AnsweredStays

LEMMA SendReplyKeeps == IInv /\ SendReply => IInv'
<1> SUFFICES ASSUME IInv, SendReply PROVE IInv'
  OBVIOUS
<1>0. AnswerInv /\ DownInv /\ RefusedInv /\ PlainInv
  BY DEF IInv
<1>1. /\ helper = "encoded" /\ helper' = "sent"
      /\ (down' = <<ReplyFrame(Own, answer)>> /\ lost' = lost) \/ (lost' = TRUE /\ down' = down)
      /\ UNCHANGED <<agentV, helperV, ask, garbled, agent, up, closed, taken, answer, outcome, plain, threw>>
  BY DEF SendReply
<1>2. down = << >> /\ helperV = Own
  BY <1>0, <1>1 DEF AnswerInv, DownInv, Foreign
<1>3. DownInv'
  <2>1. CASE down' = << >>
    BY <2>1, NoDown
  <2>2. CASE down' = <<ReplyFrame(Own, answer)>>
    <3>0. PICK r : r = answer
      OBVIOUS
    <3>1. PICK g : g = ReplyFrame(Own, r)
      OBVIOUS
    <3>2. "none" \notin DOMAIN g
      <4>1. DOMAIN g = {"t"} \cup emplaceVersion(Own) \cup (IF r.t = "ResetDone" THEN {} ELSE {"status"})
                  \cup {Carried(r)[i] : i \in DOMAIN Carried(r)}
                  \cup Spelled([userMessage |-> r.userMessage, closed |-> r.closed])
        BY ONLY <3>1, ReplyKeys, Zenon
      <4>2. Carried(r) \in {<< >>, <<"secret">>, <<"primary", "secondary">>}
        BY CopiesAre DEF Carried
      <4>3. "none" \notin {Carried(r)[i] : i \in DOMAIN Carried(r)}
        BY <4>2
      <4>4. "none" \notin Spelled([userMessage |-> r.userMessage, closed |-> r.closed])
        BY DEF Spelled
      <4> QED
        BY <4>1, <4>3, <4>4 DEF emplaceVersion
    <3>3. Garble(g, "none") = g
      BY <3>2 DEF Garble
    <3>4. down' = <<Garble(ReplyFrame(helperV', answer'), "none")>>
      BY <1>1, <1>2, <2>2, <3>0, <3>1, <3>3
    <3> QED
      BY <1>1, <3>4 DEF DownInv, GarbledKeys
  <2> QED
    BY <1>1, <1>2, <2>1, <2>2
<1>4. RefusedInv'
  BY <1>0, <1>1 DEF RefusedInv, Foreign
<1>5. PlainInv'
  BY <1>0, <1>1, <1>2 DEF PlainInv, AsksSecret, Foreign
<1> QED
  BY <1>1, <1>2, <1>3, <1>4, <1>5, AnsweredStays

LEMMA ScrubReplyKeeps == IInv /\ ScrubReply => IInv'
<1> SUFFICES ASSUME IInv, ScrubReply PROVE IInv'
  OBVIOUS
<1>0. DownInv /\ RefusedInv /\ PlainInv
  BY DEF IInv
<1>1. /\ helper = "sent" /\ helper' = "done"
      /\ plain' = plain \ {"helper.body", "helper.tree", "helper.reply"}
      /\ UNCHANGED <<agentV, helperV, ask, garbled, agent, up, down, taken, answer, outcome, threw, lost>>
  BY DEF ScrubReply, LetGo
<1>2. DownInv'
  BY <1>0, <1>1, DownStays
<1>3. RefusedInv'
  BY <1>0, <1>1 DEF RefusedInv, Foreign
<1>4. PlainInv'
  <2>1. plain' \cap HelperBuffers = {}
    BY <1>1 DEF HelperBuffers
  <2>2. plain' \cap SecretCopies = plain \cap SecretCopies /\ ("agent.frame" \in plain' => "agent.frame" \in plain)
    BY <1>1 DEF SecretCopies
  <2> QED
    BY <1>0, <1>1, <2>1, <2>2 DEF PlainInv, AsksSecret, Foreign
<1> QED
  BY <1>1, <1>2, <1>3, <1>4, AnsweredStays

LEMMA ThrowInSendKeeps == IInv /\ ThrowInSend => IInv'
<1> SUFFICES ASSUME IInv, ThrowInSend PROVE IInv'
  OBVIOUS
<1>0. AnswerInv /\ DownInv /\ RefusedInv /\ PlainInv
  BY DEF IInv
<1>1. /\ helper \in {"answered", "encoded"} /\ helper' = "done" /\ threw' = TRUE
      /\ plain' = (plain \cup (IF HasSecret THEN {"helper.tree"} ELSE {})) \ {"helper.reply"}
      /\ UNCHANGED <<agentV, helperV, ask, garbled, agent, up, down, taken, answer, outcome, lost>>
  BY DEF ThrowInSend, LetGo
<1>2. DownInv'
  BY <1>0, <1>1, DownStays
<1>3. RefusedInv'
  BY <1>0, <1>1 DEF RefusedInv, Foreign
<1>4. PlainInv'
  <2>1. ~Foreign(helperV)'
    BY <1>0, <1>1 DEF AnswerInv, Foreign
  <2>2. plain' \cap HelperBuffers \subseteq {"helper.tree", "helper.body"}
    BY <1>1 DEF HelperBuffers
  <2>3. plain' \cap SecretCopies = plain \cap SecretCopies /\ ("agent.frame" \in plain' => "agent.frame" \in plain)
    BY <1>1 DEF SecretCopies
  <2> QED
    BY <1>0, <1>1, <2>1, <2>2, <2>3 DEF PlainInv, AsksSecret
<1> QED
  BY <1>1, <1>2, <1>3, <1>4, AnsweredStays

LEMMA ForeignTakeKeeps == IInv /\ ForeignTake => IInv'
<1> SUFFICES ASSUME IInv, ForeignTake PROVE IInv'
  OBVIOUS
<1>0. AskInv /\ TakenInv /\ AnswerInv /\ PlainInv
  BY DEF IInv
<1>1. /\ helper = "idle" /\ Foreign(helperV) /\ up # << >> /\ up' = << >>
      /\ UNCHANGED <<agentV, helperV, ask, garbled, agent, down, answer, outcome, plain, threw, lost>>
  BY DEF ForeignTake
<1>2. PICK f : f = [k \in KeysOf(ask.t) |-> IF (helperV = 1 /\ k \in Since2) \/ ~Spoken(k, ask.fields[k])
                                           THEN Default(k) ELSE ask.fields[k]]
  OBVIOUS
<1>3. \/ helper' = "done" /\ taken' = taken
      \/ /\ ~(helperV = 1 /\ ask.t = "Reset") /\ helper' = "asking"
         /\ taken' = <<[t |-> ask.t, kind |-> ask.kind, fields |-> f]>>
  BY <1>2 DEF ForeignTake, LetGo
<1>4. TakenInv'
  <2>1. CASE helper' = "done" /\ taken' = taken
    BY <1>0, <1>1, <2>1 DEF TakenInv
  <2>2. CASE /\ ~(helperV = 1 /\ ask.t = "Reset") /\ helper' = "asking"
             /\ taken' = <<[t |-> ask.t, kind |-> ask.kind, fields |-> f]>>
    <3>1. taken' # << >> /\ taken'[1].t = ask.t /\ taken'[1].kind = ask.kind /\ taken'[1].fields = f
      BY <2>2
    <3>2. Own > 1 /\ Own \in Nat
      BY WireAssumption
    <3>3. helperV > Own => AsMeant'
      <4>1. helperV > Own => f = Meant
        BY <1>2, <3>2 DEF Meant
      <4>2. Meant' = Meant
        BY <1>1 DEF Meant
      <4> QED
        BY <1>1, <3>1, <4>1, <4>2 DEF AsMeant
    <3> QED
      BY <1>1, <2>2, <3>1, <3>3 DEF TakenInv, Foreign
  <2> QED
    BY <1>3, <2>1, <2>2
<1>5. AnswerInv'
  <2>1. answer.closed = 0 /\ answer.t = "none" /\ answer.status = "none" /\ answer = NoReply /\ down = << >>
    <3>1. answer = NoReply /\ down = << >>
      BY <1>0, <1>1 DEF AnswerInv
    <3>2. answer.closed = 0 /\ answer.t = "none" /\ answer.status = "none"
      BY <3>1 DEF NoReply, Reply
    <3> QED
      BY <3>1, <3>2
  <2> QED
    BY <1>1, <1>3, <2>1 DEF AnswerInv
<1>6. RefusedInv'
  BY <1>1 DEF RefusedInv, Foreign
<1>7. PlainInv'
  BY <1>0, <1>1, <1>3, PlainNoAnswer
<1> QED
  BY <1>1, <1>3, <1>4, <1>5, <1>6, <1>7, AgentStays

LEMMA EmptyTuple == DOMAIN << >> = {} /\ \A S : \A s \in [{} -> S] : s = << >>
<1>1. DOMAIN << >> = {}
  <2>1. PICK e : e = << >>
    OBVIOUS
  <2>2. Len(e) = 0 /\ e \in Seq({})
    BY ONLY <2>1
  <2>3. DOMAIN e = {}
    BY ONLY <2>2
  <2> QED
    BY <2>1, <2>3
<1>2. ASSUME NEW S, NEW s \in [{} -> S] PROVE s = << >>
  OBVIOUS
<1> QED
  BY <1>1, <1>2

LEMMA OneOrZero == \A c : c = 1 \/ c = 0 => c \in 0..2
<1>1. ASSUME NEW c, c = 1 \/ c = 0 PROVE c \in 0..2
  BY <1>1
<1> QED
  BY <1>1

LEMMA ForeignReplyKeeps == IInv /\ ForeignReply => IInv'
<1> SUFFICES ASSUME IInv, ForeignReply PROVE IInv'
  OBVIOUS
<1>0. AskInv /\ UpInv /\ TakenInv /\ AnswerInv /\ OutcomeInv /\ PlainInv
  BY DEF IInv
<1>1. /\ helper = "asking" /\ Foreign(helperV) /\ agent # "done" /\ helper' = "done"
      /\ UNCHANGED <<agentV, helperV, ask, agent, up, taken, outcome, plain, threw, lost>>
  BY DEF ForeignReply, LetGo
<1>2. PICK shapes, words :
        /\ shapes = CASE ask.t = "RequestSecret" -> {"Secret"}
                      [] ask.t = "RequestSecrets" -> {"Secrets"}
                      [] ask.t = "Reset" -> {"ResetDone"}
                      [] OTHER -> {"Confirm"} \cup (IF helperV > Own THEN {"Secret"} ELSE {})
        /\ words = {"ok", "cancelled"} \cup (IF helperV > Own THEN {"timeout", "later"} ELSE {})
  OBVIOUS
<1>3. PICK t \in shapes : \E s \in [DOMAIN SecretKeys(t) -> Secrets], w \in words, msg \in {"", "x"} :
         /\ answer' = Reply(t, w, IF w = "ok" THEN s ELSE << >>, msg, IF t = "ResetDone" THEN 1 ELSE 0)
         /\ \E k \in GarbledKeys : down' = <<Garble(ReplyFrame(helperV, answer'), k)>> /\ garbled' = k
  BY <1>2, Zenon DEF ForeignReply, GarbledKeys
<1>4. PICK s \in [DOMAIN SecretKeys(t) -> Secrets], w \in words, msg \in {"", "x"} :
         answer' = Reply(t, w, IF w = "ok" THEN s ELSE << >>, msg, IF t = "ResetDone" THEN 1 ELSE 0)
  BY <1>3
<1>5. PICK k \in GarbledKeys : down' = <<Garble(ReplyFrame(helperV, answer'), k)>>
  BY <1>3
<1>6. /\ answer'.t = t /\ answer'.status = w /\ answer'.secrets = (IF w = "ok" THEN s ELSE << >>)
      /\ answer'.closed = IF t = "ResetDone" THEN 1 ELSE 0
  BY <1>4 DEF Reply
<1>7. /\ taken # << >> /\ down = << >> /\ up = << >> /\ agentV = Own
      /\ ask.t \in {"RequestSecret", "RequestSecrets", "ConfirmAction", "Reset"}
  BY <1>0, <1>1 DEF AskInv, UpInv, TakenInv, AnswerInv, Tags, Foreign
<1>8. (t = "ResetDone" /\ ask.t = "Reset") \/ (t # "ResetDone" /\ Answers(ask.t, t))
  <2>1. CASE ask.t = "RequestSecret"
    <3>1. shapes = {"Secret"}
      BY <1>2, <2>1, Zenon
    <3> QED
      BY <2>1, <3>1 DEF Answers
  <2>2. CASE ask.t = "RequestSecrets"
    <3>1. shapes = {"Secrets"}
      BY <1>2, <2>2, Zenon
    <3> QED
      BY <2>2, <3>1 DEF Answers
  <2>3. CASE ask.t = "Reset"
    <3>1. shapes = {"ResetDone"}
      BY <1>2, <2>3, Zenon
    <3> QED
      BY <2>3, <3>1
  <2>4. CASE ask.t = "ConfirmAction"
    <3>1. shapes = {"Confirm"} \cup (IF helperV > Own THEN {"Secret"} ELSE {})
      BY <1>2, <2>4, Zenon
    <3>2. t \in {"Confirm", "Secret"}
      BY <3>1
    <3> QED
      BY <2>4, <3>2 DEF Answers
  <2> QED
    BY <1>7, <2>1, <2>2, <2>3, <2>4
<1>9. AnswerInv'
  <2>1. t = "ResetDone" => s = << >>
    <3>1. t = "ResetDone" => SecretKeys(t) = << >>
      BY SecretKeysAre
    <3>2. t = "ResetDone" => s \in [{} -> Secrets]
      BY <3>1, EmptyTuple
    <3> QED
      BY <3>2, EmptyTuple
  <2>2. taken' # << >> /\ ask' = ask /\ helper' = "done"
    BY <1>1, <1>7
  <2>3. answer'.closed \in 0..2 /\ (answer'.t # "ResetDone" => answer'.closed = 0)
    <3>1. answer'.closed = 1 \/ answer'.closed = 0
      BY ONLY <1>6
    <3>2. answer'.t # "ResetDone" => answer'.closed = 0
      BY ONLY <1>6
    <3> QED
      BY ONLY <3>1, <3>2, OneOrZero, Zenon
  <2>4. answer'.t = "ResetDone" => ask.t = "Reset" /\ answer'.secrets = << >>
    BY <1>6, <1>8, <2>1
  <2>5. answer'.status = "ok" /\ answer'.t # "ResetDone" =>
           Answers(ask.t, answer'.t) /\ answer'.secrets \in [DOMAIN SecretKeys(answer'.t) -> Secrets]
    BY <1>6, <1>8
  <2> QED
    BY <2>2, <2>3, <2>4, <2>5 DEF AnswerInv
<1>10. AskInv' /\ UpInv' /\ TakenInv'
  BY <1>0, <1>1, <1>7, AskStays, UpTaken, TakenStays
<1>11. OutcomeInv'
  BY <1>0, <1>1, <1>7, OutcomeStays
<1>12. DownInv'
  BY <1>1, <1>5 DEF DownInv
<1>13. RefusedInv'
  BY <1>1 DEF RefusedInv, Foreign
<1>14. PlainInv'
  BY <1>0, <1>1, PlainNoAnswer
<1> QED
  BY <1>9, <1>10, <1>11, <1>12, <1>13, <1>14 DEF IInv

(***************************************************************************)
(* The theorems.                                                           *)
(***************************************************************************)

LEMMA StutterKeeps == IInv /\ UNCHANGED vars => IInv'
<1> SUFFICES ASSUME IInv, UNCHANGED vars PROVE IInv'
  OBVIOUS
<1>0. AskInv /\ UpInv /\ TakenInv /\ AnswerInv /\ DownInv /\ OutcomeInv /\ RefusedInv /\ PlainInv
  BY DEF IInv
<1>1. UNCHANGED <<agentV, helperV, ask, garbled, agent, helper, up, down, taken, answer, outcome, plain, threw, lost>>
  BY DEF vars
<1>2. UpInv'
  BY <1>0, <1>1 DEF UpInv, ForeignTags, ForeignFields, Foreign
<1>3. OutcomeInv' /\ PlainInv'
  BY <1>0, <1>1, OutcomeStays, PlainStays
<1> QED
  BY <1>1, <1>2, <1>3, HelperStays

\* The inductive invariant holds throughout the exchange.
THEOREM Invariant == Spec => []IInv
<1>1. IInv /\ [Next]_vars => IInv'
  BY SendKeeps, ForeignSendKeeps, NoAnswerKeeps, ReceiveKeeps, ParseReplyKeeps, JudgeKeeps, ReadRequestKeeps,
     WindowAnswersKeeps, EncodeKeeps, SendReplyKeeps, ScrubReplyKeeps, ThrowInSendKeeps, ForeignTakeKeeps,
     ForeignReplyKeeps, StutterKeeps, Zenon DEF Next, AgentStep, HelperStep
<1> QED
  BY <1>1, InitIInv, PTL DEF Spec

\* What this agent accepts was entered in a window that had everything it
\* asked for, at a helper of its own protocol or a newer one, and is what was
\* entered there, between any two builds (MacPrompterClient.cpp 349-372).
THEOREM Honoured == Spec => []OkMeansHonoured
<1>1. IInv => OkMeansHonoured
  BY DEF IInv, OutcomeInv
<1> QED
  BY <1>1, Invariant, PTL

\* This helper acts on exactly what was asked, or on nothing, and tells a newer
\* agent so in a way that every parser reads (PrompterProtocol.cpp 443-455).
THEOREM NothingLeftOut == Spec => []HonouredOrRefused
<1>1. IInv => HonouredOrRefused
  <2> SUFFICES ASSUME IInv, ~Foreign(helperV) PROVE HonouredOrRefused
    BY DEF HonouredOrRefused
  <2>1. taken # << >> => agentV <= Own /\ AsMeant
    BY DEF IInv, TakenInv
  <2>2. ASSUME helper = "done", agentV > Own, garbled # "v", ~threw, ~lost
        PROVE  down # << >> /\ Head(down) = ReplyFrame(Own, unsupportedVersionReply)
    BY <2>2 DEF IInv, RefusedInv
  <2>3. PICK m : m = Head(down)
    OBVIOUS
  <2>4. ASSUME helper = "done", agentV > Own, garbled # "v", ~threw, ~lost
        PROVE  /\ down # << >>
               /\ \A t \in {"RequestSecret", "RequestSecrets", "ConfirmAction"} : ErrorOf(t, m) = "none"
               /\ promptStatusFor(m["status"].val) = "Error" /\ Announced(m) = Own
    <3>1. down # << >> /\ m = ReplyFrame(Own, unsupportedVersionReply)
      BY <2>2, <2>3, <2>4
    <3> QED
      BY <3>1, TooNewReply
  <2> QED
    BY <2>1, <2>3, <2>4, Zenon DEF HonouredOrRefused
<1> QED
  BY <1>1, Invariant, PTL

\* No buffer of an end of this build holds plaintext when it is through,
\* whichever way it left (PrompterProtocol.cpp 590-634, 710-761).
THEOREM Scrubbed == Spec => []SecretsScrubbed
<1>1. IInv => SecretsScrubbed
  BY DEF IInv, PlainInv, SecretsScrubbed, HelperBuffers, SecretCopies
<1> QED
  BY <1>1, Invariant, PTL
=============================================================================
