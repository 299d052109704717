----------------------------- MODULE PrompterWire -----------------------------
(***************************************************************************)
(* One exchange on the private wire between an agent and a prompter, of    *)
(* which at least one is this build (PrompterProtocol.cpp and the two ends *)
(* that use it, MacPrompterClient.cpp and PrompterServer.cpp).  The helper *)
(* outlives the agent that installed it, so the other end may be older or  *)
(* newer, and its frames may hold what this build cannot read.             *)
(*                                                                         *)
(* A frame is a function from the keys it carries to typed values; a zero  *)
(* or empty value is not carried.  Keys that are treated alike are         *)
(* represented by one of them: title stands for the display texts,         *)
(* lastError and the reader's names, minLength for both bounds.  A body    *)
(* that is no CBOR map ends where one without "t" or "status" does.        *)
(*                                                                         *)
(* plain is the set of buffers that hold plaintext: what is zeroed leaves  *)
(* it, what goes out of scope as it is does not.                           *)
(***************************************************************************)
EXTENDS Integers, Sequences

CONSTANTS
    Own,            \* kPrompterProtocolVersion
    Width,          \* stands for 2^32: versions and numbers are 64 bits wide on the wire
    Versions,       \* protocols of the builds that meet; 1 is the one without "v"
    Options,        \* what the agent's core asks with (PromptOptions)
    Secrets,        \* what a person may enter
    Oversized       \* the secrets longer than kMaxSecretBytes

ASSUME WireAssumption ==
    /\ Own \in Nat /\ Own > 1 /\ Width \in Nat /\ Width > Own
    /\ Own \in Versions /\ Versions \subseteq Nat \ {0}
    /\ Oversized \subseteq Secrets

\* Before this protocol there was only the first.
ASSUME VersionsAssumption == \A v \in Versions : v = 1 \/ v >= Own

\* The core asks with 32 bit numbers (std::uint32_t).
ASSUME OptionsAssumption ==
    \A o \in Options : \A k \in {"minLength", "attempt", "deadlineMs", "altDeadlineMs"} :
        o[k] \in 0..(Width - 1)

VARIABLES
    agentV, helperV,    \* the protocol each end speaks
    ask,                \* what the agent asks, in its own terms
    garbled,            \* the key a foreign sender gave another type, or "none"
    agent, helper,      \* how far each end is
    up, down,           \* the frame on its way, if any
    closed,             \* the helper has let go of the connection
    taken,              \* what the helper acts on, if anything
    answer,             \* what came of it: the reply before it is a frame
    outcome,            \* what the agent's caller gets
    plain,              \* buffers with plaintext
    threw, lost         \* the reply ran out of memory; it could not be sent

vars == <<agentV, helperV, ask, garbled, agent, helper, up, down, closed, taken, answer,
          outcome, plain, threw, lost>>

-----------------------------------------------------------------------------
(* Messages. *)

UintKeys == {"minLength", "attempt", "deadlineMs", "altDeadlineMs", "primaryMinLength",
             "newMinLength", "closed", "later"}
Default(k) == IF k \in UintKeys THEN 0 ELSE IF k = "artifacts" THEN << >> ELSE ""

Value(type, v) == [type |-> type, val |-> v]
Text(s) == Value("text", s)
Typed(k, v) == Value(IF k \in UintKeys THEN "uint" ELSE IF k = "artifacts" THEN "array" ELSE "text", v)

KeysOf(t) ==
    CASE t = "RequestSecret" -> {"title", "minLength", "artifacts", "attempt", "promptId",
                                 "deadlineMs", "altDeadlineMs", "readerInterface"}
      [] t = "RequestSecrets" -> {"title", "primaryMinLength", "newMinLength", "promptId", "deadlineMs"}
      [] t = "ConfirmAction" -> {"title", "descriptionKey"}
      [] t = "CancelCurrent" -> {"promptId"}
      [] t = "Reset" -> {}

Tags == {"RequestSecret", "RequestSecrets", "ConfirmAction", "CancelCurrent", "Reset"}

\* The kinds this build's agent asks for; a flow of another build of the same
\* protocol is "other", and a PIN pair is not RequestSecret's to ask.
Kinds(t) ==
    CASE t = "RequestSecret" -> {"pin", "change_pin"}
      [] t = "RequestSecrets" -> {"change_pin", "other"}
      [] t = "ConfirmAction" -> {"configure_trust", "other"}
      [] OTHER -> {""}

\* The keys and the tag that the first protocol does not have.
Since2 == {"deadlineMs", "altDeadlineMs"}

buildRequest(o) ==
    [k \in KeysOf("RequestSecret") |-> IF k = "readerInterface" THEN o.iface ELSE o[k]]

\* One pair of bounds for both roles; the PIN's label stands in for a title.
buildChangeRequest(o) ==
    [k \in KeysOf("RequestSecrets") |->
        CASE k \in {"primaryMinLength", "newMinLength"} -> o.minLength
          [] k = "title" -> IF o.title = "" THEN o.pinLabel ELSE o.title
          [] OTHER -> o[k]]

\* The fields of the message a caller with options o sends.
FieldsOf(t, o) ==
    CASE t = "RequestSecret" -> buildRequest(o)
      [] t = "RequestSecrets" -> buildChangeRequest(o)
      [] OTHER -> [k \in KeysOf(t) |-> IF k = "descriptionKey" THEN o.title ELSE o[k]]

\* Zero and empty are spelled as absence, and so is a reader interface the
\* agent does not know.
Spoken(k, v) == v # Default(k) /\ ~(k = "readerInterface" /\ v = "unknown")
Spelled(fields) == {k \in DOMAIN fields : Spoken(k, fields[k])}

\* The first protocol has no version key.
emplaceVersion(v) == IF v = 1 THEN {} ELSE {"v"}

Message(v, t, kind, fields) ==
    [k \in {"t"} \cup emplaceVersion(v) \cup (IF kind = "" THEN {} ELSE {"kind"}) \cup Spelled(fields) |->
        CASE k = "t" -> Text(t)
          [] k = "v" -> Value("uint", v)
          [] k = "kind" -> Text(kind)
          [] OTHER -> Typed(k, fields[k])]

\* A sender of another build may give a key a type this one does not expect.
Garble(m, k) == IF k \in DOMAIN m THEN [m EXCEPT ![k] = Value("other", "")] ELSE m

-----------------------------------------------------------------------------
(* Reading a request: parsePrompterRequest(). *)

Has(m, k, type) == k \in DOMAIN m /\ m[k].type = type

\* A key that is there and of another type; absent is not an error.
Mistyped(m, k) == k \in DOMAIN m /\ m[k].type # Typed(k, Default(k)).type

\* optText(), optUint() and optStringArray(), the numbers narrowed.
Narrow(n) == n % Width
Read(m, k) ==
    IF k \notin DOMAIN m THEN Default(k)
    ELSE IF k \in UintKeys THEN Narrow(m[k].val) ELSE m[k].val

\* optAnnouncedVersion(): at the full width of the wire.
VersionMistyped(m) == "v" \in DOMAIN m /\ m["v"].type # "uint"

\* Mutant: narrowed before it is judged.
AnnouncedNarrowed(m) == IF Has(m, "v", "uint") THEN Narrow(m["v"].val) ELSE 0

Announced(m) == IF Has(m, "v", "uint") THEN m["v"].val ELSE 0

\* The error, in the order of the code: version, tag, kind, the other fields.
RequestError(m) ==
    CASE VersionMistyped(m) -> "WrongType"
      [] Announced(m) > Own -> "UnsupportedVersion"
      [] OTHER ->
    CASE ~Has(m, "t", "text") -> "MissingField"
      [] m["t"].val \notin Tags -> "UnknownMessage"
      [] OTHER ->
    CASE m["t"].val \notin {"Reset", "CancelCurrent"} /\ ~Has(m, "kind", "text") -> "MissingField"
      [] m["t"].val = "RequestSecret" /\ m["kind"].val \notin {"pin", "can", "mrz"} -> "BadEnum"
      [] \E k \in KeysOf(m["t"].val) : Mistyped(m, k) -> "WrongType"
      [] OTHER -> "none"

parsePrompterRequest(m) ==
    [t |-> m["t"].val, kind |-> IF "kind" \in DOMAIN m THEN m["kind"].val ELSE "",
     fields |-> [k \in KeysOf(m["t"].val) |-> Read(m, k)]]

-----------------------------------------------------------------------------
(* Replies. *)

\* What a reply says before it is a frame.
Reply(t, status, secrets, message, n) ==
    [t |-> t, status |-> status, secrets |-> secrets, userMessage |-> message, closed |-> n]
NoReply == Reply("none", "none", << >>, "", 0)

unsupportedVersionReply == Reply("Secret", "error", << >>, "too new", 0)
unsupportedConfirmation == Reply("Confirm", "error", << >>, "unsupported", 0)
unsupportedSecrets == Reply("Secrets", "error", << >>, "unsupported", 0)

\* The keys the secrets of a reply travel under.
SecretKeys(t) ==
    CASE t \in {"Secret", "RequestSecret"} -> <<"secret">>
      [] t \in {"Secrets", "RequestSecrets"} -> <<"primary", "secondary">>
      [] OTHER -> << >>

\* toCbor() of a reply: secrets iff ok.
ReplyFrame(v, r) ==
    LET keys == IF r.status = "ok" THEN SecretKeys(r.t) ELSE << >> IN
    [k \in {"t"} \cup emplaceVersion(v) \cup (IF r.t = "ResetDone" THEN {} ELSE {"status"})
              \cup {keys[i] : i \in DOMAIN keys}
              \cup Spelled([userMessage |-> r.userMessage, closed |-> r.closed]) |->
        CASE k = "t" -> Text(r.t)
          [] k = "v" -> Value("uint", v)
          [] k = "status" -> Text(r.status)
          [] k = "userMessage" -> Typed(k, r.userMessage)
          [] k = "closed" -> Typed(k, r.closed)
          [] OTHER -> Value("bytes", r.secrets[CHOOSE i \in DOMAIN keys : keys[i] = k])]

StatusWords == {"ok", "ok_mrz", "cancelled", "timeout", "error", "unauthorized"}

\* optReplyVersion(): too wide to name is unreadable.
ReplyVersionError(m) == VersionMistyped(m) \/ Announced(m) >= Width

\* requiredSecret().
SecretError(m, k) ==
    CASE ~Has(m, k, "bytes") -> "MissingField"
      [] m[k].val \in Oversized -> "SecretTooLarge"
      [] OTHER -> "none"

\* How many of the secrets were copied out of the tree before the parse ended.
CopiedSecrets(m, keys) ==
    IF \E i \in DOMAIN keys : SecretError(m, keys[i]) # "none"
    THEN (CHOOSE i \in DOMAIN keys : /\ SecretError(m, keys[i]) # "none"
                                     /\ \A j \in 1..(i - 1) : SecretError(m, keys[j]) = "none") - 1
    ELSE Len(keys)

\* The error of parsePromptReply() and parseMultiPromptReply().
ReplyError(m, keys) ==
    CASE ~Has(m, "status", "text") -> "MissingField"
      [] m["status"].val \notin StatusWords -> "BadEnum"
      [] ReplyVersionError(m) -> "WrongType"
      [] m["status"].val = "ok" /\ CopiedSecrets(m, keys) < Len(keys) ->
            SecretError(m, keys[CopiedSecrets(m, keys) + 1])
      [] Mistyped(m, "userMessage") -> "WrongType"
      [] OTHER -> "none"

\* The copies that were made of the secrets when the parse ended, and the ones
\* an error exit zeroes: the sibling of a secret that failed, and both when
\* the message is unreadable.
Copies(m, keys) ==
    IF Has(m, "status", "text") /\ m["status"].val = "ok" /\ ~ReplyVersionError(m)
    THEN {keys[i] : i \in 1..CopiedSecrets(m, keys)} ELSE {}

\* Mutant: the sibling of a secret that failed is left as it is.
ZeroedByErrorButSibling(m, keys) == IF CopiedSecrets(m, keys) = Len(keys) THEN Copies(m, keys) ELSE {}

ZeroedByError(m, keys) == Copies(m, keys)

ConfirmError(m) ==
    CASE \E k \in {"secret", "primary", "secondary"} : k \in DOMAIN m -> "UnknownMessage"
      [] ~Has(m, "status", "text") -> "MissingField"
      [] m["status"].val \notin StatusWords -> "BadEnum"
      [] Mistyped(m, "userMessage") \/ ReplyVersionError(m) -> "WrongType"
      [] OTHER -> "none"

ResetError(m) ==
    CASE ~Has(m, "t", "text") -> "MissingField"
      [] m["t"].val # "ResetDone" -> "UnknownMessage"
      [] Mistyped(m, "closed") -> "WrongType"
      [] OTHER -> "none"

ErrorOf(t, m) ==
    CASE t = "ConfirmAction" -> ConfirmError(m)
      [] t = "Reset" -> ResetError(m)
      [] OTHER -> ReplyError(m, SecretKeys(t))

-----------------------------------------------------------------------------
(* The exchange. *)

Foreign(v) == v # Own

Init ==
    /\ agentV \in Versions /\ helperV \in Versions
    /\ Own \in {agentV, helperV}
    /\ \E o \in Options, t \in Tags : \E kind \in Kinds(t) :
        /\ agentV = 1 => t # "Reset"
        /\ ask = [t |-> t, kind |-> kind,
                  fields |-> IF agentV > 1 THEN FieldsOf(t, o)
                             ELSE [k \in KeysOf(t) |-> IF k \in Since2 THEN 0 ELSE FieldsOf(t, o)[k]]]
    /\ garbled = "none" /\ agent = "asking" /\ helper = "idle"
    /\ up = << >> /\ down = << >> /\ closed = FALSE
    /\ taken = << >> /\ answer = NoReply /\ outcome = [status |-> "none", secrets |-> << >>, closed |-> 0]
    /\ plain = {} /\ threw = FALSE /\ lost = FALSE

Outcome(status, secrets, n) == [status |-> status, secrets |-> secrets, closed |-> n]

\* The agent's caller gets this and no more.
Return(o) == agent' = "done" /\ outcome' = o

\* The agent of this build sends; a dismissal asks for no answer.
Send ==
    /\ agent = "asking" /\ ~Foreign(agentV)
    /\ up' = <<Message(Own, ask.t, ask.kind, ask.fields)>>
    /\ IF ask.t = "CancelCurrent" THEN Return(Outcome("Sent", << >>, 0))
       ELSE agent' = "waiting" /\ UNCHANGED outcome
    /\ UNCHANGED <<agentV, helperV, ask, garbled, helper, down, closed, taken, answer, plain, threw, lost>>

\* A newer agent may depend on a key or a tag that this build does not know.
ForeignTags == {ask.t} \cup (IF agentV > Own THEN {"Later"} ELSE {})
ForeignFields ==
    IF agentV > Own
    THEN [k \in DOMAIN ask.fields \cup {"later"} |-> IF k = "later" THEN 1 ELSE ask.fields[k]]
    ELSE ask.fields

\* An older or newer agent sends.
ForeignSend ==
    /\ agent = "asking" /\ Foreign(agentV)
    /\ \E tag \in ForeignTags :
       LET m == Message(agentV, tag, ask.kind, ForeignFields) IN
       \E k \in {"none"} \cup DOMAIN m :
            /\ up' = <<Garble(m, k)>>
            /\ garbled' = k
    /\ agent' = "waiting"
    /\ UNCHANGED <<agentV, helperV, ask, helper, down, closed, taken, answer, outcome, plain, threw, lost>>

\* The reply is there to be encoded; a secret in it is plaintext.
Answered(r) ==
    /\ answer' = r
    /\ helper' = "answered"
    /\ plain' = plain \cup (IF r.secrets # << >> THEN {"helper.reply"} ELSE {})

\* Mutant: the read side was not retired, and its share keeps the descriptor.
LetGoOfOneShare == helper' = "done" /\ UNCHANGED closed

\* The read side is retired before the dispatch, so that the descriptor closes
\* with the share of whoever answers.
LetGo == helper' = "done" /\ closed' = TRUE

\* Every other parse failure than a newer protocol stays silent: the last
\* share of the descriptor drops and the connection closes.
StaySilent == LetGo /\ UNCHANGED <<taken, answer, plain>>

Refuse(r) == Answered(r) /\ UNCHANGED <<closed, taken>>

\* Every alternative of the request has its arm.
Dispatch(q) ==
    /\ taken' = <<q>>
    /\ \/ q.t = "CancelCurrent" /\ LetGo /\ UNCHANGED <<answer, plain>>
       \/ /\ q.t = "Reset" /\ UNCHANGED closed
          /\ \E n \in 0..2 : Answered(Reply("ResetDone", "none", << >>, "", n))
       \/ q.t \notin {"CancelCurrent", "Reset"} /\ helper' = "asking" /\ UNCHANGED <<closed, answer, plain>>

\* The flows of its own protocol that this build implements.
Implemented(q) ==
    /\ q.t = "ConfirmAction" => q.kind = "configure_trust"
    /\ q.t = "RequestSecrets" => q.kind = "change_pin"

\* onReadReady() of this build's helper, and the refusal of a change flow it
\* does not implement, which shows no window either.
ReadRequest ==
    /\ helper = "idle" /\ ~Foreign(helperV) /\ up # << >>
    /\ up' = << >>
    /\ LET m == Head(up)  error == RequestError(m)  q == parsePrompterRequest(m) IN
        \/ error = "UnsupportedVersion" /\ Refuse(unsupportedVersionReply)
        \/ error \notin {"UnsupportedVersion", "none"} /\ StaySilent
        \/ /\ error = "none" /\ ~Implemented(q)
           /\ Refuse(IF q.t = "ConfirmAction" THEN unsupportedConfirmation ELSE unsupportedSecrets)
        \/ error = "none" /\ Implemented(q) /\ Dispatch(q)
    /\ UNCHANGED <<agentV, helperV, ask, garbled, agent, down, outcome, threw, lost>>

\* The person enters something or closes the window, or its clock runs out.
WindowAnswers ==
    /\ helper = "asking" /\ ~Foreign(helperV)
    /\ LET q == taken[1]  t == CASE q.t = "RequestSecret" -> "Secret"
                                 [] q.t = "RequestSecrets" -> "Secrets"
                                 [] OTHER -> "Confirm" IN
        \/ \E s \in [DOMAIN SecretKeys(t) -> Secrets] : Answered(Reply(t, "ok", s, "", 0))
        \/ \E status \in {"cancelled", "error"} : Answered(Reply(t, status, << >>, "", 0))
        \/ /\ t # "Confirm" /\ q.fields["deadlineMs"] # 0
           /\ Answered(Reply(t, "timeout", << >>, "", 0))
    /\ UNCHANGED <<agentV, helperV, ask, garbled, agent, up, down, closed, taken, outcome, threw, lost>>

\* sendReplyAndZeroWire(): toCbor() and encode(); the frame; the zeroing.
HasSecret == answer.status = "ok" /\ answer.secrets # << >>
Encode ==
    /\ helper = "answered"
    /\ helper' = "encoded"
    /\ plain' = plain \cup (IF HasSecret THEN {"helper.tree", "helper.body"} ELSE {})
    /\ UNCHANGED <<agentV, helperV, ask, garbled, agent, up, down, closed, taken, answer, outcome, threw, lost>>

\* A failed send is swallowed: the agent has gone.
SendReply ==
    /\ helper = "encoded"
    /\ helper' = "sent"
    /\ \/ /\ agent # "done" /\ down' = <<ReplyFrame(Own, answer)>> /\ UNCHANGED lost
       \/ agent = "done" /\ lost' = TRUE /\ UNCHANGED down
    /\ UNCHANGED <<agentV, helperV, ask, garbled, agent, up, closed, taken, answer, outcome, plain, threw>>

ScrubReply ==
    /\ helper = "sent"
    /\ plain' = plain \ {"helper.body", "helper.tree", "helper.reply"}
    /\ LetGo
    /\ UNCHANGED <<agentV, helperV, ask, garbled, agent, up, down, taken, answer, outcome, threw, lost>>

\* Out of memory while encoding or sending: the handler skips the zeroing of
\* what was made so far, and the caller zeroes the reply.
ThrowInSend ==
    /\ helper \in {"answered", "encoded"}
    /\ plain' = (plain \cup (IF HasSecret THEN {"helper.tree"} ELSE {})) \ {"helper.reply"}
    /\ threw' = TRUE
    /\ LetGo
    /\ UNCHANGED <<agentV, helperV, ask, garbled, agent, up, down, taken, answer, outcome, lost>>

\* A helper of another build.  The first protocol knows neither deadlines nor
\* Reset and stamps nothing; a newer one reads what this build sends and may
\* answer in words, types or with a version that this build cannot read.
ForeignTake ==
    /\ helper = "idle" /\ Foreign(helperV) /\ up # << >>
    /\ up' = << >>
    /\ IF helperV = 1 /\ ask.t = "Reset" THEN LetGo /\ UNCHANGED taken
       ELSE /\ taken' = <<[t |-> ask.t, kind |-> ask.kind,
                           fields |-> [k \in KeysOf(ask.t) |->
                                          IF (helperV = 1 /\ k \in Since2) \/ ~Spoken(k, ask.fields[k])
                                          THEN Default(k) ELSE ask.fields[k]]]>>
            /\ helper' = "asking" /\ UNCHANGED closed
    /\ UNCHANGED <<agentV, helperV, ask, garbled, agent, down, answer, outcome, plain, threw, lost>>

ForeignReply ==
    /\ helper = "asking" /\ Foreign(helperV) /\ agent # "done"
    /\ LET shapes == CASE ask.t = "RequestSecret" -> {"Secret"}
                       [] ask.t = "RequestSecrets" -> {"Secrets"}
                       [] ask.t = "Reset" -> {"ResetDone"}
                       [] OTHER -> {"Confirm"} \cup (IF helperV > Own THEN {"Secret"} ELSE {})
           words == {"ok", "cancelled"} \cup (IF helperV > Own THEN {"timeout", "later"} ELSE {}) IN
        \E t \in shapes : \E s \in [DOMAIN SecretKeys(t) -> Secrets], w \in words, msg \in {"", "x"} :
           /\ answer' = Reply(t, w, IF w = "ok" THEN s ELSE << >>, msg, IF t = "ResetDone" THEN 1 ELSE 0)
           /\ \E k \in {"none", "v", "status", "secret", "secondary", "userMessage", "closed"} :
                /\ down' = <<Garble(ReplyFrame(helperV, answer'), k)>>
                /\ garbled' = k
    /\ LetGo
    /\ UNCHANGED <<agentV, helperV, ask, agent, up, taken, outcome, plain, threw, lost>>

\* The agent of this build takes the frame, and then parses it.
Carries(m) == \E k \in DOMAIN m : m[k].type = "bytes"
Receive ==
    /\ agent = "waiting" /\ ~Foreign(agentV) /\ down # << >>
    /\ agent' = "received"
    /\ plain' = plain \cup (IF Carries(Head(down)) THEN {"agent.frame"} ELSE {})
    /\ UNCHANGED <<agentV, helperV, ask, garbled, helper, up, down, closed, taken, answer, outcome, threw, lost>>

\* The callers that ask for a secret zero the frame, whatever the parse says.
AsksSecret == ask.t \in {"RequestSecret", "RequestSecrets"}
FrameZeroed == IF AsksSecret THEN plain \ {"agent.frame"} ELSE plain

\* The decoded tree is zeroed on every exit; the copies that are left are the
\* reply's.
ParseReply ==
    /\ agent = "received"
    /\ LET m == Head(down)  keys == SecretKeys(ask.t)  made == Copies(m, keys) IN
       IF ErrorOf(ask.t, m) # "none"
       THEN /\ Return(Outcome("Malformed", << >>, 0))
            /\ plain' = FrameZeroed \cup (made \ ZeroedByError(m, keys))
       ELSE /\ agent' = "parsed"
            /\ plain' = FrameZeroed \cup made
            /\ UNCHANGED outcome
    /\ UNCHANGED <<agentV, helperV, ask, garbled, helper, up, down, closed, taken, answer, threw, lost>>

\* promptStatusFor(), with no MRZ alternative offered.
promptStatusFor(word) ==
    CASE word = "ok" -> "Ok"
      [] word = "cancelled" -> "Cancelled"
      [] word = "timeout" -> "Timeout"
      [] OTHER -> "Error"

\* Mutant: a reply without a version is taken for one of this build's.
TooOldUnlessSilent(m) == "v" \in DOMAIN m /\ Announced(m) < Own

\* No version, or an older one.
TooOld(m) == Announced(m) < Own

\* request(), requestPinChange(), requestConfirmation() and reset() behind the
\* parse: too old is refused, ok takes the secrets, and the reply is zeroed.
Judge ==
    /\ agent = "parsed"
    /\ LET m == Head(down)  keys == SecretKeys(ask.t) IN
        /\ \/ ask.t = "Reset" /\ Return(Outcome("ResetDone", << >>, Read(m, "closed")))
           \/ ask.t # "Reset" /\ TooOld(m) /\ Return(Outcome("HelperTooOld", << >>, 0))
           \/ /\ ask.t # "Reset" /\ ~TooOld(m)
              /\ LET status == promptStatusFor(m["status"].val)
                     secrets == IF status = "Ok" THEN [i \in DOMAIN keys |-> m[keys[i]].val] ELSE << >>
                 IN  Return(Outcome(status, secrets, 0))
        /\ plain' = plain \ {keys[i] : i \in DOMAIN keys}
    /\ UNCHANGED <<agentV, helperV, ask, garbled, helper, up, down, closed, taken, answer, threw, lost>>

\* End of stream without a frame.
ReceiveFails ==
    /\ agent = "waiting" /\ ~Foreign(agentV) /\ down = << >> /\ closed
    /\ Return(Outcome("RecvFailed", << >>, 0))
    /\ UNCHANGED <<agentV, helperV, ask, garbled, helper, up, down, closed, taken, answer, plain, threw, lost>>

\* The receive budget is over.  A confirmation has none.
Budget ==
    /\ agent = "waiting" /\ ~Foreign(agentV) /\ ask.t # "ConfirmAction"
    /\ Return(Outcome("Timeout", << >>, 0))
    /\ UNCHANGED <<agentV, helperV, ask, garbled, helper, up, down, closed, taken, answer, plain, threw, lost>>

-----------------------------------------------------------------------------
AgentStep == Send \/ Receive \/ ParseReply \/ Judge \/ ReceiveFails
HelperStep == ReadRequest \/ Encode \/ SendReply \/ ScrubReply \/ ThrowInSend \/ ForeignTake

Next == AgentStep \/ HelperStep \/ ForeignSend \/ WindowAnswers \/ ForeignReply \/ Budget

Spec == Init /\ [][Next]_vars

\* Both processes run; nobody has to answer.
FairSpec == Spec /\ WF_vars(AgentStep) /\ WF_vars(HelperStep)

TypeOK ==
    /\ agentV \in Versions /\ helperV \in Versions
    /\ agent \in {"asking", "waiting", "received", "parsed", "done"}
    /\ helper \in {"idle", "asking", "answered", "encoded", "sent", "done"}
    /\ Len(up) <= 1 /\ Len(down) <= 1 /\ Len(taken) <= 1
    /\ closed \in BOOLEAN /\ threw \in BOOLEAN /\ lost \in BOOLEAN
    /\ plain \subseteq {"helper.reply", "helper.tree", "helper.body", "agent.frame",
                        "secret", "primary", "secondary"}

-----------------------------------------------------------------------------
(* Properties. *)

\* The request as its sender means it: absence is zero or empty.
Meant == [k \in KeysOf(ask.t) |-> IF Spoken(k, ask.fields[k]) THEN ask.fields[k] ELSE Default(k)]
AsMeant == taken # << >> /\ taken[1].t = ask.t /\ taken[1].kind = ask.kind /\ taken[1].fields = Meant

\* What this agent accepts was entered, or approved, in a window that had
\* everything it asked for, the deadline above all, at a helper of its own
\* protocol or a newer one, and is what was entered there
\* (MacPrompterClient.cpp 349-372, 292-306).
OkMeansHonoured ==
    outcome.status \in {"Ok", "ResetDone"} =>
        /\ helperV >= Own
        /\ AsMeant
        /\ outcome.secrets = answer.secrets /\ outcome.closed = answer.closed
        /\ ask.t # "Reset" => answer.status = "ok"

\* This helper acts on exactly what was asked or on nothing: nothing of a
\* request that a newer agent depends on is left out, no unreadable value is
\* taken for none.  A newer agent is told so, whatever the tag, by a frame
\* that every parser of a status reads as an error of this version
\* (PrompterProtocol.cpp 443-455, PrompterServer.cpp 37-56).
HonouredOrRefused ==
    ~Foreign(helperV) =>
        /\ taken # << >> => agentV <= Own /\ AsMeant
        /\ helper = "done" /\ agentV > Own /\ garbled # "v" /\ ~threw /\ ~lost =>
               /\ down # << >>
               /\ LET m == Head(down) IN
                    /\ \A t \in {"RequestSecret", "RequestSecrets", "ConfirmAction"} : ErrorOf(t, m) = "none"
                    /\ promptStatusFor(m["status"].val) = "Error" /\ Announced(m) = Own

\* When an end of this build is through, no buffer of its holds plaintext,
\* whichever way it left.  The exceptions are the tree and the body of a reply
\* that ran out of memory, and the frame of a confirmation that carries a
\* secret although it may not (PrompterProtocol.cpp 209-221, 590-634, 710-761).
SecretsScrubbed ==
    /\ helper = "done" /\ ~Foreign(helperV) =>
           plain \cap {"helper.reply", "helper.tree", "helper.body"}
               \subseteq IF threw THEN {"helper.tree", "helper.body"} ELSE {}
    /\ agent = "done" => plain \cap {"secret", "primary", "secondary"} = {}
    /\ agent = "done" /\ AsksSecret => "agent.frame" \notin plain

\* The wait for a confirmation has no budget: it ends all the same, unless a
\* person is being asked (MacPrompterClient.cpp 283-291, PrompterServer.cpp 401-418).
ConfirmNotStranded ==
    agent = "waiting" /\ ~Foreign(agentV) /\ ask.t = "ConfirmAction" ~>
        agent = "done" \/ helper = "asking"
=============================================================================
