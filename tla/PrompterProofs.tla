---------------------------- MODULE PrompterProofs ----------------------------
(***************************************************************************)
(* The prompter and its client, for any number of requests, of workers and *)
(* of deaths: every worker that waits has the panel or the block it waits  *)
(* for, a dismissal ends no other panel that has an address, and the whole *)
(* implements the abstract prompt service.                                 *)
(***************************************************************************)
EXTENDS Prompter, SequenceTheorems, TLAPS

USE PrompterAssumption DEF Reqs, Agents

(***************************************************************************)
(* The inductive invariant.                                                *)
(***************************************************************************)

\* The registry holds the panels that stand, each once.
RegistryInv ==
    /\ Once(panels)
    /\ \A r \in Reqs : req[r].stage = "standing" <=> r \in Standing

\* The worker queue holds what was read and not begun, each once.
WorkInv ==
    /\ Once(workQ)
    /\ \A r \in Reqs : req[r].stage = "queued" <=> InSeq(Call(r), workQ)
    /\ \A g \in Agents : reset[g] = "queued" <=> InSeq(ResetCall(g), workQ)

\* The main queue holds what a worker or the serial queue posted, each once.
MainInv ==
    /\ Once(mainQ)
    /\ \A r \in Reqs : req[r].stage = "raising" <=> InSeq(Raise(r), mainQ)
    /\ \A r \in Reqs : req[r].cancel = "main" <=> InSeq(Dismiss(r), mainQ)
    /\ \A g \in Agents : reset[g] = "sweeping" <=> InSeq(Sweep(g), mainQ)

\* What has not been asked yet was not cancelled, and an agent that has not
\* been started has reset nothing.
FreshInv ==
    /\ \A r \in Reqs : req[r].stage = "new" => req[r].client = "none" /\ req[r].cancel = "none"
    /\ \A g \in Agents : g > agent.gen => reset[g] = "none"

\* There is an agent left to start when this one has died.
FaultInv == crashes + (IF agent.up = "dead" THEN agent.gen ELSE agent.gen - 1) <= MaxFaults

IInv == TypeOK /\ RegistryInv /\ WorkInv /\ MainInv /\ FreshInv /\ FaultInv /\ OthersUntouched

(***************************************************************************)
(* Queues.                                                                 *)
(***************************************************************************)

\* Calls and resets are told apart, and name the request or the agent.
LEMMA JobsDiffer ==
  /\ \A j \in Jobs : /\ j.do = "call" => j.req \in Reqs /\ j = Call(j.req)
                     /\ j.do = "reset" => j.gen \in Agents /\ j = ResetCall(j.gen)
  /\ \A q, r \in Reqs : Call(q) = Call(r) => q = r
  /\ \A g, h \in Agents : ResetCall(g) = ResetCall(h) => g = h
  /\ \A r \in Reqs, g \in Agents : Call(r) # ResetCall(g)
  /\ \A r \in Reqs : Call(r) \in Jobs
  /\ \A g \in Agents : ResetCall(g) \in Jobs
<1>1. ASSUME NEW j \in Jobs
      PROVE  (\E r \in Reqs : j = Call(r)) \/ (\E g \in Agents : j = ResetCall(g))
  BY DEF Jobs
<1>2. \A r \in Reqs : Call(r).do = "call" /\ Call(r).req = r
  BY DEF Call
<1>3. \A g \in Agents : ResetCall(g).do = "reset" /\ ResetCall(g).gen = g
  BY DEF ResetCall
<1>4. (\A r \in Reqs : Call(r) \in Jobs) /\ (\A g \in Agents : ResetCall(g) \in Jobs)
  BY DEF Jobs
<1>5. ASSUME NEW j \in Jobs
      PROVE  /\ j.do = "call" => j.req \in Reqs /\ j = Call(j.req)
             /\ j.do = "reset" => j.gen \in Agents /\ j = ResetCall(j.gen)
  BY <1>1, <1>2, <1>3
<1> QED
  BY <1>2, <1>3, <1>4, <1>5

\* So are the blocks of the main queue.
LEMMA BlocksDiffer ==
  /\ \A b \in Blocks : /\ b.do = "raise" => b.req \in Reqs /\ b = Raise(b.req)
                       /\ b.do = "dismiss" => b.req \in Reqs /\ b = Dismiss(b.req)
                       /\ b.do = "sweep" => b.gen \in Agents /\ b = Sweep(b.gen)
  /\ \A q, r \in Reqs : (Raise(q) = Raise(r) => q = r) /\ (Dismiss(q) = Dismiss(r) => q = r)
  /\ \A g, h \in Agents : Sweep(g) = Sweep(h) => g = h
  /\ \A q, r \in Reqs, g \in Agents :
        Raise(q) # Dismiss(r) /\ Raise(q) # Sweep(g) /\ Dismiss(q) # Sweep(g)
  /\ \A r \in Reqs : Raise(r) \in Blocks /\ Dismiss(r) \in Blocks
  /\ \A g \in Agents : Sweep(g) \in Blocks
<1>1. ASSUME NEW b \in Blocks
      PROVE  \/ \E r \in Reqs : b = Raise(r) \/ b = Dismiss(r)
             \/ \E g \in Agents : b = Sweep(g)
  BY DEF Blocks
<1>2. \A r \in Reqs : Raise(r).do = "raise" /\ Raise(r).req = r
  BY DEF Raise
<1>3. \A r \in Reqs : Dismiss(r).do = "dismiss" /\ Dismiss(r).req = r
  BY DEF Dismiss
<1>4. \A g \in Agents : Sweep(g).do = "sweep" /\ Sweep(g).gen = g
  BY DEF Sweep
<1>5. /\ \A r \in Reqs : Raise(r) \in Blocks /\ Dismiss(r) \in Blocks
      /\ \A g \in Agents : Sweep(g) \in Blocks
  BY DEF Blocks
<1>6. ASSUME NEW b \in Blocks
      PROVE  /\ b.do = "raise" => b.req \in Reqs /\ b = Raise(b.req)
             /\ b.do = "dismiss" => b.req \in Reqs /\ b = Dismiss(b.req)
             /\ b.do = "sweep" => b.gen \in Agents /\ b = Sweep(b.gen)
  BY <1>1, <1>2, <1>3, <1>4
<1> QED
  BY <1>2, <1>3, <1>4, <1>5, <1>6

\* What was not in a queue is put behind the rest.
LEMMA AppendOnce ==
  ASSUME NEW S, NEW s \in Seq(S), Once(s), NEW b \in S, ~InSeq(b, s)
  PROVE  /\ Append(s, b) \in Seq(S) /\ Once(Append(s, b))
         /\ \A x : InSeq(x, Append(s, b)) <=> InSeq(x, s) \/ x = b
<1> DEFINE t == Append(s, b)
<1>1. /\ t \in Seq(S) /\ Len(t) = Len(s) + 1 /\ Len(s) \in Nat
      /\ \A n \in 1..Len(s) : t[n] = s[n]
      /\ t[Len(s) + 1] = b
  BY AppendProperties, LenProperties
<1>2. DOMAIN s = 1..Len(s) /\ DOMAIN t = 1..Len(t)
  BY <1>1, LenProperties
<1> HIDE DEF t
<1>3. \A n \in 1..Len(t) : n \in 1..Len(s) \/ n = Len(t)
  BY <1>1
<1>4. Once(t)
  BY <1>1, <1>2, <1>3 DEF Once, InSeq
<1>5. \A x : InSeq(x, t) <=> InSeq(x, s) \/ x = b
  <2> TAKE x
  <2>1. InSeq(x, t) => InSeq(x, s) \/ x = b
    BY <1>1, <1>2, <1>3 DEF InSeq
  <2>2. InSeq(x, s) => InSeq(x, t)
    BY <1>1, <1>2 DEF InSeq
  <2>3. Len(s) + 1 \in DOMAIN t
    BY <1>1, <1>2
  <2>4. InSeq(b, t)
    BY <1>1, <2>3 DEF InSeq
  <2> QED
    BY <2>1, <2>2, <2>4
<1> QED
  BY <1>1, <1>4, <1>5 DEF t

\* The head leaves, and it only.
LEMMA TailOnce ==
  ASSUME NEW S, NEW s \in Seq(S), Once(s), s # << >>
  PROVE  /\ Head(s) \in S /\ InSeq(Head(s), s)
         /\ Tail(s) \in Seq(S) /\ Once(Tail(s))
         /\ \A x : InSeq(x, Tail(s)) <=> InSeq(x, s) /\ x # Head(s)
<1> DEFINE t == Tail(s)
<1>1. /\ t \in Seq(S) /\ Len(t) = Len(s) - 1 /\ Len(s) \in Nat \ {0}
      /\ \A n \in 1..Len(t) : t[n] = s[n + 1]
      /\ Head(s) = s[1] /\ Head(s) \in S
  BY HeadTailProperties, LenProperties, EmptySeq
<1>2. DOMAIN s = 1..Len(s) /\ DOMAIN t = 1..Len(t)
  BY <1>1, LenProperties
<1> HIDE DEF t
<1>3. \A n \in 1..Len(s) : n = 1 \/ (n - 1 \in 1..Len(t) /\ t[n - 1] = s[n])
  BY <1>1
<1>4. Once(t)
  <2>1. SUFFICES ASSUME NEW i \in 1..Len(t), NEW j \in 1..Len(t), t[i] = t[j] PROVE i = j
    BY <1>2 DEF Once
  <2>2. i + 1 \in 1..Len(s) /\ j + 1 \in 1..Len(s)
    BY ONLY <1>1
  <2>3. s[i + 1] = s[j + 1]
    BY <1>1, <2>1
  <2>4. i + 1 = j + 1
    BY <1>2, <2>2, <2>3 DEF Once
  <2>5. Len(t) \in Nat
    BY <1>1, LenProperties
  <2> QED
    BY ONLY <2>4, <2>5
<1>5. InSeq(Head(s), s)
  BY <1>1, <1>2 DEF InSeq
<1>6. \A x : InSeq(x, t) <=> InSeq(x, s) /\ x # Head(s)
  <2> TAKE x
  <2>1. InSeq(x, t) => InSeq(x, s) /\ x # Head(s)
    BY <1>1, <1>2 DEF InSeq, Once
  <2>2. InSeq(x, s) /\ x # Head(s) => InSeq(x, t)
    BY <1>1, <1>2, <1>3 DEF InSeq
  <2> QED
    BY <2>1, <2>2
<1> QED
  BY <1>1, <1>4, <1>5, <1>6 DEF t

\* Nothing is in an empty queue.
LEMMA EmptyOnce == Once(<< >>) /\ \A x : ~InSeq(x, << >>)
  BY DEF Once, InSeq

\* finishWithStatus() takes the panels of S out of the registry and no other.
LEMMA FinishIs ==
  ASSUME panels \in Seq(Reqs), Once(panels), NEW S, Finish(S)
  PROVE  /\ panels' \in Seq(Reqs) /\ Once(panels)'
         /\ Standing' = Standing \ S
<1>0. PICK m \in 0..Len(panels) : \E place \in [1..m -> DOMAIN panels] :
         /\ \A i, j \in 1..m : i < j => place[i] < place[j]
         /\ {place[i] : i \in 1..m} = {n \in DOMAIN panels : panels[n] \notin S}
         /\ panels' = [i \in 1..m |-> panels[place[i]]]
  BY DEF Finish
<1>1. PICK place \in [1..m -> DOMAIN panels] :
         /\ \A i, j \in 1..m : i < j => place[i] < place[j]
         /\ {place[i] : i \in 1..m} = {n \in DOMAIN panels : panels[n] \notin S}
         /\ panels' = [i \in 1..m |-> panels[place[i]]]
  BY <1>0
<1>2. Len(panels) \in Nat /\ DOMAIN panels = 1..Len(panels) /\ m \in Nat
  BY LenProperties
<1>3. \A n \in DOMAIN panels : panels[n] \in Reqs
  BY ElementOfSeq, <1>2
<1>4. panels' \in [1..m -> Reqs] /\ DOMAIN panels' = 1..m
  BY <1>1, <1>3
<1>5. panels' \in Seq(Reqs)
  BY <1>2, <1>4, SeqDef
<1>6. \A i, j \in 1..m : place[i] = place[j] => i = j
  <2> TAKE i, j \in 1..m
  <2>1. i \in Int /\ j \in Int /\ place[i] \in Int /\ place[j] \in Int
    BY <1>1, <1>2
  <2>2. (i < j => place[i] < place[j]) /\ (j < i => place[j] < place[i])
    BY <1>1
  <2> QED
    BY <2>1, <2>2
<1>7. Once(panels)'
  BY <1>1, <1>4, <1>6 DEF Once
<1>8. ASSUME NEW x PROVE x \in Standing' <=> x \in Standing \ S
  <2>1. x \in Standing' <=> \E i \in 1..m : panels[place[i]] = x
    BY <1>1, <1>4 DEF Standing
  <2>2. (\E i \in 1..m : panels[place[i]] = x) <=> \E n \in {place[i] : i \in 1..m} : panels[n] = x
    OBVIOUS
  <2>3. (\E n \in DOMAIN panels : panels[n] \notin S /\ panels[n] = x) <=> x \in Standing \ S
    BY DEF Standing
  <2> QED
    BY <1>1, <2>1, <2>2, <2>3
<1> QED
  BY <1>5, <1>7, <1>8

(***************************************************************************)
(* Requests.                                                               *)
(***************************************************************************)

\* A request moves on at the prompter; the others, and the rest of it, stay.
LEMMA StageIs ==
  ASSUME req \in [Reqs -> Request], NEW r \in Reqs, NEW s \in Stages, Stage(r, s)
  PROVE  /\ req' \in [Reqs -> Request]
         /\ \A q \in Reqs : q # r => req'[q] = req[q]
         /\ req'[r].stage = s
         /\ req'[r].addressed = req[r].addressed /\ req'[r].dismissed = req[r].dismissed
         /\ req'[r].cancel = req[r].cancel /\ req'[r].client = req[r].client
<1> DEFINE R == [req[r] EXCEPT !.stage = s]
<1>1. req[r] \in Request
  OBVIOUS
<1>2. R \in Request
  BY <1>1 DEF Request
<1>3. /\ R.stage = s /\ R.addressed = req[r].addressed /\ R.dismissed = req[r].dismissed
      /\ R.cancel = req[r].cancel /\ R.client = req[r].client
  BY <1>1 DEF Request
<1>4. req' = [req EXCEPT ![r] = R]
  BY DEF Stage
<1> HIDE DEF R
<1> QED
  BY <1>2, <1>3, <1>4

\* The requests in S are answered; the others, and the rest of them, stay.
LEMMA EndedIs ==
  ASSUME req \in [Reqs -> Request], NEW S
  PROVE  /\ Ended(S) \in [Reqs -> Request]
         /\ \A q \in Reqs : q \notin S => Ended(S)[q] = req[q]
         /\ \A q \in Reqs : q \in S =>
               /\ Ended(S)[q].stage = "answered"
               /\ Ended(S)[q].addressed = req[q].addressed /\ Ended(S)[q].dismissed = req[q].dismissed
               /\ Ended(S)[q].cancel = req[q].cancel /\ Ended(S)[q].client = req[q].client
<1>1. ASSUME NEW q \in Reqs
      PROVE  /\ [req[q] EXCEPT !.stage = "answered"] \in Request
             /\ [req[q] EXCEPT !.stage = "answered"].stage = "answered"
             /\ [req[q] EXCEPT !.stage = "answered"].addressed = req[q].addressed
             /\ [req[q] EXCEPT !.stage = "answered"].dismissed = req[q].dismissed
             /\ [req[q] EXCEPT !.stage = "answered"].cancel = req[q].cancel
             /\ [req[q] EXCEPT !.stage = "answered"].client = req[q].client
  <2>1. req[q] \in Request
    OBVIOUS
  <2> QED
    BY <2>1 DEF Request, Stages
<1>2. Ended(S) \in [Reqs -> Request]
  BY <1>1 DEF Ended
<1> QED
  BY <1>1, <1>2 DEF Ended

\* The agent sends a dismissal, or stops waiting: only that changes.
LEMMA ClientIs ==
  ASSUME req \in [Reqs -> Request], NEW r \in Reqs
  PROVE  /\ \A c \in {"sent", "main", "done", "lost"} :
               LET R == [req[r] EXCEPT !.cancel = c]
               IN  /\ R \in Request /\ R.cancel = c /\ R.stage = req[r].stage /\ R.client = req[r].client
                   /\ R.addressed = req[r].addressed /\ R.dismissed = req[r].dismissed
         /\ LET R == [req[r] EXCEPT !.client = "returned"]
            IN  /\ R \in Request /\ R.client = "returned"
                /\ R.stage = req[r].stage /\ R.cancel = req[r].cancel
                /\ R.addressed = req[r].addressed /\ R.dismissed = req[r].dismissed
<1>1. req[r] \in Request
  OBVIOUS
<1> QED
  BY <1>1 DEF Request

\* A step that touches no queue, no registry and no reset, and moves no request
\* into or out of them, keeps the invariant if it does so for each request.
LEMMA RequestsOnly ==
  ASSUME IInv, req' \in [Reqs -> Request],
         UNCHANGED <<reset, workQ, mainQ, panels, crashes>>,
         agent' \in [gen : Agents, up : {"resetting", "serving", "stopping", "dead"}],
         agent'.gen = agent.gen, FaultInv',
         \A r \in Reqs :
            /\ \A s \in {"queued", "raising", "standing"} : req'[r].stage = s <=> req[r].stage = s
            /\ req'[r].cancel = "main" <=> req[r].cancel = "main"
            /\ req'[r].stage = "new" => req'[r].client = "none" /\ req'[r].cancel = "none"
            /\ req'[r].addressed /\ req'[r].dismissed => req'[r].cancel = "done"
  PROVE  IInv'
<1> USE DEF IInv
<1>1. TypeOK'
  BY DEF TypeOK
<1>2. RegistryInv'
  BY DEF RegistryInv, Once, Standing
<1>3. WorkInv'
  BY DEF WorkInv, Once, InSeq
<1>4. MainInv'
  BY DEF MainInv, Once, InSeq
<1>5. FreshInv'
  BY DEF FreshInv
<1>6. OthersUntouched'
  BY DEF OthersUntouched
<1> QED
  BY <1>1, <1>2, <1>3, <1>4, <1>5, <1>6

(***************************************************************************)
(* The agent.                                                              *)
(***************************************************************************)

\* Nothing has been asked.
LEMMA InitInv == Init => IInv
<1> SUFFICES ASSUME Init PROVE IInv
  OBVIOUS
<1>1. NoRequest \in Request
  BY DEF NoRequest, Request, Kinds, Stages
<1>2. 1 \in Agents /\ Agents \subseteq Int
  OBVIOUS
<1>3. TypeOK
  BY <1>1, <1>2 DEF Init, TypeOK
<1>4. Once(panels) /\ Once(workQ) /\ Once(mainQ) /\ Standing = {}
  BY EmptyOnce DEF Init, Standing
<1>5. RegistryInv /\ WorkInv /\ MainInv
  BY <1>4, EmptyOnce DEF Init, RegistryInv, WorkInv, MainInv, NoRequest
<1>6. FreshInv /\ FaultInv /\ OthersUntouched
  BY DEF Init, FreshInv, FaultInv, OthersUntouched, NoRequest
<1> QED
  BY <1>3, <1>5, <1>6 DEF IInv

\* request() and its siblings: a request nobody knew is on its way.
LEMMA AskInv == ASSUME IInv, NEW r \in Reqs, Ask(r) PROVE IInv'
<1> USE DEF IInv
<1>1. PICK s \in Shapes :
         req' = [req EXCEPT ![r] = [NoRequest EXCEPT !.kind = s.kind, !.addressed = s.addressed,
                     !.timed = s.timed, !.gen = agent.gen, !.client = "waiting", !.stage = "sent"]]
  BY DEF Ask
<1> DEFINE R == [NoRequest EXCEPT !.kind = s.kind, !.addressed = s.addressed,
                     !.timed = s.timed, !.gen = agent.gen, !.client = "waiting", !.stage = "sent"]
<1>2. s.kind \in Kinds /\ s.addressed \in BOOLEAN /\ s.timed \in BOOLEAN /\ agent.gen \in Agents
  BY DEF TypeOK
<1>3. R \in Request /\ R.stage = "sent" /\ R.cancel = "none" /\ R.dismissed = FALSE
  <2>1. agent.gen \in 0..(MaxFaults + 1)
    BY <1>2
  <2>2. NoRequest \in Request /\ NoRequest.cancel = "none" /\ NoRequest.dismissed = FALSE
    BY DEF NoRequest, Request, Kinds, Stages
  <2>3. R \in Request
    BY ONLY <1>2, <2>1, <2>2 DEF Request, Stages
  <2>4. R.stage = "sent" /\ R.cancel = NoRequest.cancel /\ R.dismissed = NoRequest.dismissed
    BY ONLY <2>2 DEF Request
  <2> HIDE DEF R
  <2> QED
    BY ONLY <2>2, <2>3, <2>4
<1>4. req' = [req EXCEPT ![r] = R]
  BY <1>1
<1> HIDE DEF R
<1>5. req \in [Reqs -> Request] /\ req[r].stage = "new" /\ req[r].cancel = "none"
  BY DEF TypeOK, Ask, FreshInv
<1>6. req' \in [Reqs -> Request] /\ req'[r] = R /\ \A q \in Reqs : q # r => req'[q] = req[q]
  BY <1>3, <1>4, <1>5
<1>7. FaultInv' /\ agent' \in [gen : Agents, up : {"resetting", "serving", "stopping", "dead"}]
  BY DEF Ask, TypeOK, FaultInv
<1>8. \A q \in Reqs :
         /\ \A t \in {"queued", "raising", "standing"} : req'[q].stage = t <=> req[q].stage = t
         /\ req'[q].cancel = "main" <=> req[q].cancel = "main"
         /\ req'[q].stage = "new" => req'[q].client = "none" /\ req'[q].cancel = "none"
         /\ req'[q].addressed /\ req'[q].dismissed => req'[q].cancel = "done"
  BY <1>3, <1>5, <1>6 DEF FreshInv, OthersUntouched
<1> QED
  BY <1>6, <1>7, <1>8, RequestsOnly DEF Ask

\* cancel(): the dismissal is sent, for a prompt that somebody waits for.
LEMMA CancelInv == ASSUME IInv, NEW r \in Reqs, Cancel(r) PROVE IInv'
<1> USE DEF IInv
<1>1. req \in [Reqs -> Request] /\ req' = [req EXCEPT ![r] = [req[r] EXCEPT !.cancel = "sent"]]
  BY DEF TypeOK, Cancel
<1> DEFINE R == [req[r] EXCEPT !.cancel = "sent"]
<1>2. /\ R \in Request /\ R.cancel = "sent" /\ R.stage = req[r].stage
      /\ R.addressed = req[r].addressed /\ R.dismissed = req[r].dismissed
  BY <1>1, ClientIs
<1> HIDE DEF R
<1>3. req' \in [Reqs -> Request] /\ req'[r] = R /\ \A q \in Reqs : q # r => req'[q] = req[q]
  BY <1>1, <1>2 DEF R
<1>4. req[r].cancel = "none" /\ req[r].client = "waiting"
  BY DEF Cancel, Live
<1> QED
  BY <1>2, <1>3, <1>4, RequestsOnly, SMTT(30) DEF Cancel, TypeOK, FreshInv, FaultInv, OthersUntouched

\* quiesce sends the dismissals that are still to be sent.
LEMMA QuiesceIs ==
  ASSUME req \in [Reqs -> Request], Quiesce, NEW r \in Reqs
  PROVE  /\ req'[r] \in Request
         /\ \/ req'[r] = req[r]
            \/ /\ req[r].client = "waiting" /\ req[r].cancel = "none" /\ req'[r].cancel = "sent"
               /\ req'[r].stage = req[r].stage
               /\ req'[r].addressed = req[r].addressed /\ req'[r].dismissed = req[r].dismissed
<1>1. req'[r] = IF Live(r) /\ req[r].cancel = "none"
                THEN [req[r] EXCEPT !.cancel = "sent"] ELSE req[r]
  BY DEF Quiesce
<1>2. CASE Live(r) /\ req[r].cancel = "none"
  <2>1. req'[r] = [req[r] EXCEPT !.cancel = "sent"]
    BY <1>1, <1>2
  <2> DEFINE R == [req[r] EXCEPT !.cancel = "sent"]
  <2>2. /\ R \in Request /\ R.cancel = "sent" /\ R.stage = req[r].stage
        /\ R.addressed = req[r].addressed /\ R.dismissed = req[r].dismissed
    BY ClientIs
  <2> QED
    BY <1>2, <2>1, <2>2 DEF Live
<1>3. CASE ~(Live(r) /\ req[r].cancel = "none")
  BY <1>1, <1>3
<1> QED
  BY <1>2, <1>3

\* Quiesce sends one for every live prompt that has none yet.
LEMMA QuiesceInv == ASSUME IInv, Quiesce PROVE IInv'
<1> USE DEF IInv
<1>1. req \in [Reqs -> Request] /\ agent \in [gen : Agents, up : {"resetting", "serving", "stopping", "dead"}]
  BY DEF TypeOK
<1>2. /\ agent' \in [gen : Agents, up : {"resetting", "serving", "stopping", "dead"}]
      /\ agent'.gen = agent.gen /\ agent'.up = "stopping" /\ agent.up = "serving"
  BY <1>1 DEF Quiesce
<1>3. FaultInv'
  BY <1>2 DEF FaultInv, Quiesce
<1>4. ASSUME NEW r \in Reqs
      PROVE  /\ req'[r] \in Request
             /\ \/ req'[r] = req[r]
                \/ /\ req[r].client = "waiting" /\ req[r].cancel = "none" /\ req'[r].cancel = "sent"
                   /\ req'[r].stage = req[r].stage
                   /\ req'[r].addressed = req[r].addressed /\ req'[r].dismissed = req[r].dismissed
  BY <1>1, QuiesceIs
<1>5. req' \in [Reqs -> Request]
  BY <1>4 DEF Quiesce
<1>6. \A r \in Reqs :
         /\ \A s \in {"queued", "raising", "standing"} : req'[r].stage = s <=> req[r].stage = s
         /\ req'[r].cancel = "main" <=> req[r].cancel = "main"
         /\ req'[r].stage = "new" => req'[r].client = "none" /\ req'[r].cancel = "none"
         /\ req'[r].addressed /\ req'[r].dismissed => req'[r].cancel = "done"
  BY <1>4 DEF FreshInv, OthersUntouched
<1> QED
  BY <1>2, <1>3, <1>5, <1>6, RequestsOnly DEF Quiesce

\* A caller has its reply, or stops waiting for it.
LEMMA ClientStepInv == ASSUME IInv, NEW r \in Reqs, ClientStep(r) PROVE IInv'
<1> USE DEF IInv
<1>1. /\ req \in [Reqs -> Request] /\ req' = [req EXCEPT ![r] = [req[r] EXCEPT !.client = "returned"]]
      /\ req[r].client = "waiting" /\ UNCHANGED <<agent, reset, workQ, mainQ, panels, crashes>>
  BY DEF TypeOK, ClientStep, Receive, Budget
<1> DEFINE R == [req[r] EXCEPT !.client = "returned"]
<1>2. /\ R \in Request /\ R.client = "returned"
      /\ R.stage = req[r].stage /\ R.cancel = req[r].cancel
      /\ R.addressed = req[r].addressed /\ R.dismissed = req[r].dismissed
  BY <1>1, ClientIs
<1> HIDE DEF R
<1>3. req' \in [Reqs -> Request] /\ req'[r] = R /\ \A q \in Reqs : q # r => req'[q] = req[q]
  BY <1>1, <1>2 DEF R
<1> QED
  BY <1>1, <1>2, <1>3, RequestsOnly, SMTT(30) DEF TypeOK, FreshInv, FaultInv, OthersUntouched

\* reset() returns; the prompter may still be at it.
LEMMA ResetReturnsInv == ASSUME IInv, ResetReturns PROVE IInv'
<1> USE DEF IInv
<1>1. agent \in [gen : Agents, up : {"resetting", "serving", "stopping", "dead"}]
  BY DEF TypeOK
<1>2. /\ agent' \in [gen : Agents, up : {"resetting", "serving", "stopping", "dead"}]
      /\ agent'.gen = agent.gen /\ agent'.up = "serving" /\ agent.up = "resetting"
  BY <1>1 DEF ResetReturns
<1>3. FaultInv'
  BY <1>2 DEF FaultInv, ResetReturns
<1> QED
  BY <1>2, <1>3, RequestsOnly DEF ResetReturns, TypeOK, FreshInv, OthersUntouched

\* The callers of an agent that ends wait no more.
LEMMA AgentExitsIs ==
  ASSUME req \in [Reqs -> Request], AgentExits, NEW r \in Reqs
  PROVE  /\ req'[r] \in Request
         /\ \/ req'[r] = req[r]
            \/ /\ req[r].client = "waiting" /\ req'[r].client = "returned"
               /\ req'[r].stage = req[r].stage /\ req'[r].cancel = req[r].cancel
               /\ req'[r].addressed = req[r].addressed /\ req'[r].dismissed = req[r].dismissed
<1>1. req'[r] = IF req[r].client = "waiting" THEN [req[r] EXCEPT !.client = "returned"] ELSE req[r]
  BY DEF AgentExits
<1>2. CASE req[r].client # "waiting"
  BY <1>1, <1>2
<1>3. CASE req[r].client = "waiting"
  <2> DEFINE R == [req[r] EXCEPT !.client = "returned"]
  <2>1. /\ R \in Request /\ R.client = "returned"
        /\ R.stage = req[r].stage /\ R.cancel = req[r].cancel
        /\ R.addressed = req[r].addressed /\ R.dismissed = req[r].dismissed
    BY ClientIs
  <2>2. req'[r] = R
    BY <1>1, <1>3
  <2> HIDE DEF R
  <2> QED
    BY <1>3, <2>1, <2>2
<1> QED
  BY <1>2, <1>3

\* The agent ends with everyone who waited in it.
LEMMA AgentExitsInv == ASSUME IInv, AgentExits PROVE IInv'
<1> USE DEF IInv
<1>1. /\ req \in [Reqs -> Request] /\ agent \in [gen : Agents, up : {"resetting", "serving", "stopping", "dead"}]
      /\ crashes \in Nat
  BY DEF TypeOK
<1>2. /\ agent' \in [gen : Agents, up : {"resetting", "serving", "stopping", "dead"}]
      /\ agent'.gen = agent.gen /\ agent'.up = "dead" /\ agent.up # "dead"
  BY <1>1 DEF AgentExits
<1>3. agent.gen \in Int /\ crashes + (agent.gen - 1) < MaxFaults
  BY <1>1, <1>2 DEF AgentExits, FaultAllowed
<1>4. FaultInv'
  BY <1>1, <1>2, <1>3 DEF FaultInv, AgentExits
<1>5. ASSUME NEW r \in Reqs
      PROVE  /\ req'[r] \in Request
             /\ \/ req'[r] = req[r]
                \/ /\ req[r].client = "waiting" /\ req'[r].client = "returned"
                   /\ req'[r].stage = req[r].stage /\ req'[r].cancel = req[r].cancel
                   /\ req'[r].addressed = req[r].addressed /\ req'[r].dismissed = req[r].dismissed
  BY <1>1, AgentExitsIs
<1>6. req' \in [Reqs -> Request]
  BY <1>5 DEF AgentExits
<1> QED
  BY <1>2, <1>4, <1>5, <1>6, RequestsOnly DEF AgentExits, FreshInv, OthersUntouched

\* The next agent sends its reset, which no earlier one did in its place.
LEMMA AgentStartsInv == ASSUME IInv, AgentStarts PROVE IInv'
<1> USE DEF IInv
<1>1. agent \in [gen : Agents, up : {"resetting", "serving", "stopping", "dead"}] /\ crashes \in Nat
  BY DEF TypeOK
<1>2. agent.gen \in Int /\ crashes + agent.gen <= MaxFaults
  BY <1>1 DEF AgentStarts, FaultInv
<1>3. agent.gen + 1 \in Agents
  BY <1>1, <1>2
<1>4. /\ agent' \in [gen : Agents, up : {"resetting", "serving", "stopping", "dead"}]
      /\ agent'.gen = agent.gen + 1 /\ agent'.up = "resetting"
  BY <1>3 DEF AgentStarts
<1>5. /\ reset' \in [Agents -> {"none", "sent", "queued", "sweeping", "done", "lost"}]
      /\ \A g \in Agents : g # agent.gen + 1 => reset'[g] = reset[g]
      /\ reset[agent.gen + 1] = "none" /\ reset'[agent.gen + 1] = "sent"
  BY <1>2, <1>3 DEF AgentStarts, TypeOK, FreshInv
<1>6. TypeOK'
  BY <1>4, <1>5 DEF TypeOK, AgentStarts
<1>7. RegistryInv'
  BY DEF RegistryInv, Once, Standing, AgentStarts
<1>8. WorkInv'
  BY <1>5 DEF WorkInv, Once, InSeq, AgentStarts
<1>9. MainInv'
  BY <1>5 DEF MainInv, Once, InSeq, AgentStarts
<1>10. FreshInv'
  <2>1. \A g \in Agents : g > agent'.gen => g > agent.gen /\ g # agent.gen + 1
    BY <1>2, <1>4
  <2> QED
    BY <2>1, <1>5 DEF FreshInv, AgentStarts
<1>11. FaultInv'
  BY <1>1, <1>2, <1>4 DEF FaultInv, AgentStarts
<1>12. OthersUntouched'
  BY DEF OthersUntouched, AgentStarts
<1> QED
  BY <1>6, <1>7, <1>8, <1>9, <1>10, <1>11, <1>12

(***************************************************************************)
(* The prompter's serial queue.                                            *)
(***************************************************************************)

\* A request that was read waits for a worker.
LEMMA ReadRequestInv == ASSUME IInv, NEW r \in Reqs, ReadRequest(r) PROVE IInv'
<1> USE DEF IInv, ReadRequest
<1>1. "queued" \in Stages /\ req \in [Reqs -> Request] /\ workQ \in Seq(Jobs) /\ Once(workQ) /\ Call(r) \in Jobs
  BY JobsDiffer DEF Stages, TypeOK, WorkInv
<1>2. /\ req' \in [Reqs -> Request] /\ req[r].stage = "sent" /\ req'[r].stage = "queued"
      /\ \A q \in Reqs : q # r => req'[q] = req[q]
      /\ req'[r].addressed = req[r].addressed /\ req'[r].dismissed = req[r].dismissed
      /\ req'[r].cancel = req[r].cancel
  BY <1>1, StageIs
<1>3. ~InSeq(Call(r), workQ)
  BY <1>2 DEF WorkInv
<1>4. /\ workQ' \in Seq(Jobs) /\ Once(workQ')
      /\ \A x : InSeq(x, workQ') <=> InSeq(x, workQ) \/ x = Call(r)
  BY <1>1, <1>3, AppendOnce
<1>5. TypeOK'
  BY <1>2, <1>4 DEF TypeOK
<1>6. RegistryInv'
  BY <1>2 DEF RegistryInv, Once, Standing
<1>7. WorkInv'
  BY <1>2, <1>4, JobsDiffer DEF WorkInv
<1>8. MainInv'
  BY <1>2 DEF MainInv
<1>9. FreshInv' /\ FaultInv' /\ OthersUntouched'
  BY <1>2 DEF FreshInv, FaultInv, OthersUntouched
<1> QED
  BY <1>5, <1>6, <1>7, <1>8, <1>9

\* A request is turned away, a worker has sent its reply, a dialog is answered:
\* the request is in no queue, before or after.
LEMMA OutsideInv ==
  ASSUME IInv, NEW r \in Reqs, RefuseRequest(r) \/ Reply(r) \/ ConfirmAnswered(r)
  PROVE  IInv'
<1> USE DEF IInv
<1>1. /\ req \in [Reqs -> Request] /\ {"over", "answered"} \subseteq Stages
      /\ agent \in [gen : Agents, up : {"resetting", "serving", "stopping", "dead"}]
  BY DEF TypeOK, Stages
<1>2. /\ req' \in [Reqs -> Request]
      /\ \A q \in Reqs : q # r => req'[q] = req[q]
      /\ req[r].stage \in {"sent", "answered", "asking"} /\ req'[r].stage \in {"over", "answered"}
      /\ req'[r].addressed = req[r].addressed /\ req'[r].dismissed = req[r].dismissed
      /\ req'[r].cancel = req[r].cancel
  <2>1. CASE RefuseRequest(r) \/ Reply(r)
    <3>1. Stage(r, "over")
      BY <2>1 DEF RefuseRequest, Reply
    <3> QED
      BY <1>1, <2>1, <3>1, StageIs DEF RefuseRequest, Reply
  <2>2. CASE ConfirmAnswered(r)
    <3>1. req' = Ended({r})
      BY <2>2 DEF ConfirmAnswered
    <3> QED
      BY <1>1, <2>2, <3>1, EndedIs DEF ConfirmAnswered
  <2> QED
    BY <2>1, <2>2
<1>3. UNCHANGED <<agent, reset, workQ, mainQ, panels, crashes>>
  BY DEF RefuseRequest, Reply, ConfirmAnswered
<1>4. FaultInv'
  BY <1>3 DEF FaultInv
<1>5. \A q \in Reqs :
         /\ \A t \in {"queued", "raising", "standing"} : req'[q].stage = t <=> req[q].stage = t
         /\ req'[q].cancel = "main" <=> req[q].cancel = "main"
         /\ req'[q].stage = "new" => req'[q].client = "none" /\ req'[q].cancel = "none"
         /\ req'[q].addressed /\ req'[q].dismissed => req'[q].cancel = "done"
  BY <1>2 DEF FreshInv, OthersUntouched
<1> QED
  BY <1>1, <1>2, <1>3, <1>4, <1>5, RequestsOnly

\* The dismissal is posted to the main queue without a worker.
LEMMA ReadCancelInv == ASSUME IInv, NEW r \in Reqs, ReadCancel(r) PROVE IInv'
<1> USE DEF IInv, ReadCancel
<1>1. req \in [Reqs -> Request] /\ mainQ \in Seq(Blocks) /\ Once(mainQ) /\ Dismiss(r) \in Blocks
  BY BlocksDiffer DEF TypeOK, MainInv
<1> DEFINE R == [req[r] EXCEPT !.cancel = "main"]
<1>2. /\ R \in Request /\ R.cancel = "main" /\ R.stage = req[r].stage /\ R.client = req[r].client
      /\ R.addressed = req[r].addressed /\ R.dismissed = req[r].dismissed
  BY <1>1, ClientIs
<1>3. req' = [req EXCEPT ![r] = R]
  OBVIOUS
<1> HIDE DEF R
<1>4. req' \in [Reqs -> Request] /\ req'[r] = R /\ \A q \in Reqs : q # r => req'[q] = req[q]
  BY <1>1, <1>2, <1>3
<1>5. ~InSeq(Dismiss(r), mainQ)
  BY DEF MainInv
<1>6. /\ mainQ' \in Seq(Blocks) /\ Once(mainQ')
      /\ \A x : InSeq(x, mainQ') <=> InSeq(x, mainQ) \/ x = Dismiss(r)
  BY <1>1, <1>5, AppendOnce
<1>7. TypeOK'
  BY <1>4, <1>6 DEF TypeOK
<1>8. RegistryInv'
  BY <1>2, <1>4 DEF RegistryInv, Once, Standing
<1>9. WorkInv'
  BY <1>2, <1>4 DEF WorkInv
<1>10. MainInv'
  <2>a. \A q \in Reqs : InSeq(Raise(q), mainQ') <=> InSeq(Raise(q), mainQ)
    BY <1>6, BlocksDiffer
  <2>b. \A q \in Reqs : req'[q].stage = req[q].stage
    BY <1>2, <1>4
  <2>1. \A q \in Reqs : req'[q].stage = "raising" <=> InSeq(Raise(q), mainQ')
    BY <2>a, <2>b DEF MainInv
  <2>2. \A q \in Reqs : req'[q].cancel = "main" <=> InSeq(Dismiss(q), mainQ')
    BY <1>2, <1>4, <1>6, BlocksDiffer DEF MainInv
  <2>3. \A g \in Agents : reset'[g] = "sweeping" <=> InSeq(Sweep(g), mainQ')
    BY <1>6, BlocksDiffer DEF MainInv
  <2> QED
    BY <1>6, <2>1, <2>2, <2>3 DEF MainInv
<1>11. FreshInv' /\ FaultInv' /\ OthersUntouched'
  BY <1>2, <1>4 DEF FreshInv, FaultInv, OthersUntouched
<1> QED
  BY <1>7, <1>8, <1>9, <1>10, <1>11

\* A reset that was read waits for a worker.
LEMMA ReadResetInv == ASSUME IInv, NEW g \in Agents, ReadReset(g) PROVE IInv'
<1> USE DEF IInv, ReadReset
<1>1. workQ \in Seq(Jobs) /\ Once(workQ) /\ ResetCall(g) \in Jobs
  BY JobsDiffer DEF TypeOK, WorkInv
<1>2. /\ reset' \in [Agents -> {"none", "sent", "queued", "sweeping", "done", "lost"}]
      /\ reset[g] = "sent" /\ reset'[g] = "queued" /\ \A h \in Agents : h # g => reset'[h] = reset[h]
  BY DEF TypeOK
<1>3. /\ workQ' \in Seq(Jobs) /\ Once(workQ')
      /\ \A x : InSeq(x, workQ') <=> InSeq(x, workQ) \/ x = ResetCall(g)
  BY <1>1, <1>2, AppendOnce DEF WorkInv
<1>4. TypeOK'
  BY <1>2, <1>3 DEF TypeOK
<1>5. RegistryInv'
  BY DEF RegistryInv, Once, Standing
<1>6. WorkInv'
  BY <1>2, <1>3, JobsDiffer DEF WorkInv
<1>7. MainInv'
  BY <1>2 DEF MainInv
<1>8. FreshInv'
  BY <1>2 DEF FreshInv
<1>9. FaultInv' /\ OthersUntouched'
  BY DEF FaultInv, OthersUntouched
<1> QED
  BY <1>4, <1>5, <1>6, <1>7, <1>8, <1>9

(***************************************************************************)
(* The workers.                                                            *)
(***************************************************************************)

\* The call leaves the worker queue: its panel is on its way to the main
\* thread, its dialog is up, or it has failed.
LEMMA BeginCallInv == ASSUME IInv, BeginCall PROVE IInv'
<1> USE DEF IInv
<1> DEFINE r == Head(workQ).req
<1>1. /\ req \in [Reqs -> Request] /\ workQ \in Seq(Jobs) /\ Once(workQ) /\ workQ # << >>
      /\ mainQ \in Seq(Blocks) /\ Once(mainQ) /\ {"raising", "asking"} \subseteq Stages
  BY DEF TypeOK, WorkInv, MainInv, BeginCall, Stages
<1>2. /\ Head(workQ) \in Jobs /\ InSeq(Head(workQ), workQ)
      /\ workQ' \in Seq(Jobs) /\ Once(workQ')
      /\ \A x : InSeq(x, workQ') <=> InSeq(x, workQ) /\ x # Head(workQ)
  BY <1>1, TailOnce DEF BeginCall
<1>3. r \in Reqs /\ Head(workQ) = Call(r)
  BY <1>2, JobsDiffer DEF BeginCall
<1>4. req[r].stage = "queued"
  BY <1>2, <1>3 DEF WorkInv
<1>5. ~InSeq(Raise(r), mainQ) /\ Raise(r) \in Blocks
  BY <1>3, <1>4, BlocksDiffer DEF MainInv
<1>6. \/ Stage(r, "raising") /\ mainQ' = Append(mainQ, Raise(r))
      \/ Stage(r, "asking") /\ mainQ' = mainQ
      \/ req' = Ended({r}) /\ mainQ' = mainQ
  BY DEF BeginCall
<1>u. UNCHANGED <<agent, reset, panels, crashes>>
  BY DEF BeginCall
<1> HIDE DEF r
<1>7. /\ req' \in [Reqs -> Request] /\ \A q \in Reqs : q # r => req'[q] = req[q]
      /\ req'[r].stage \in {"raising", "asking", "answered"}
      /\ req'[r].addressed = req[r].addressed /\ req'[r].dismissed = req[r].dismissed
      /\ req'[r].cancel = req[r].cancel
  BY <1>1, <1>3, <1>6, StageIs, EndedIs
<1>8. /\ mainQ' \in Seq(Blocks) /\ Once(mainQ')
      /\ \A x : InSeq(x, mainQ') <=> InSeq(x, mainQ) \/ (x = Raise(r) /\ req'[r].stage = "raising")
  <2>1. CASE Stage(r, "raising") /\ mainQ' = Append(mainQ, Raise(r))
    <3>1. req'[r].stage = "raising"
      BY <1>1, <1>3, <2>1, StageIs
    <3>2. /\ mainQ' \in Seq(Blocks) /\ Once(mainQ')
          /\ \A x : InSeq(x, mainQ') <=> InSeq(x, mainQ) \/ x = Raise(r)
      BY <1>1, <1>5, <2>1, AppendOnce
    <3> QED
      BY <3>1, <3>2
  <2>2. CASE Stage(r, "asking") /\ mainQ' = mainQ
    <3>1. req'[r].stage = "asking"
      BY <1>1, <1>3, <2>2, StageIs
    <3> QED
      BY <1>1, <2>2, <3>1
  <2>3. CASE req' = Ended({r}) /\ mainQ' = mainQ
    <3>1. req'[r].stage = "answered"
      BY <1>1, <1>3, <2>3, EndedIs
    <3> QED
      BY <1>1, <2>3, <3>1
  <2> QED
    BY <1>6, <2>1, <2>2, <2>3
<1>9. TypeOK'
  BY <1>2, <1>7, <1>8, <1>u DEF TypeOK
<1>10. RegistryInv'
  BY <1>3, <1>4, <1>7, <1>u DEF RegistryInv, Once, Standing
<1>11. WorkInv'
  BY <1>2, <1>3, <1>7, <1>u, JobsDiffer, SMTT(30) DEF WorkInv
<1>12. MainInv'
  BY <1>3, <1>4, <1>7, <1>8, <1>u, BlocksDiffer DEF MainInv
<1>13. FreshInv' /\ FaultInv' /\ OthersUntouched'
  BY <1>3, <1>7, <1>u DEF FreshInv, FaultInv, OthersUntouched
<1> QED
  BY <1>9, <1>10, <1>11, <1>12, <1>13

\* The reset leaves the worker queue for the main queue.
LEMMA BeginResetInv == ASSUME IInv, BeginReset PROVE IInv'
<1> USE DEF IInv
<1> DEFINE g == Head(workQ).gen
<1>1. /\ workQ \in Seq(Jobs) /\ Once(workQ) /\ workQ # << >> /\ mainQ \in Seq(Blocks) /\ Once(mainQ)
  BY DEF TypeOK, WorkInv, MainInv, BeginReset
<1>2. /\ Head(workQ) \in Jobs /\ InSeq(Head(workQ), workQ)
      /\ workQ' \in Seq(Jobs) /\ Once(workQ')
      /\ \A x : InSeq(x, workQ') <=> InSeq(x, workQ) /\ x # Head(workQ)
  BY <1>1, TailOnce DEF BeginReset
<1>3. g \in Agents /\ Head(workQ) = ResetCall(g)
  BY <1>2, JobsDiffer DEF BeginReset
<1>4. reset[g] = "queued"
  BY <1>2, <1>3 DEF WorkInv
<1>5. ~InSeq(Sweep(g), mainQ) /\ Sweep(g) \in Blocks
  BY <1>3, <1>4, BlocksDiffer DEF MainInv
<1>6. /\ mainQ' = Append(mainQ, Sweep(g)) /\ reset' = [reset EXCEPT ![g] = "sweeping"]
      /\ UNCHANGED <<agent, req, panels, crashes>>
  BY DEF BeginReset
<1> HIDE DEF g
<1>7. /\ reset' \in [Agents -> {"none", "sent", "queued", "sweeping", "done", "lost"}]
      /\ reset'[g] = "sweeping" /\ \A h \in Agents : h # g => reset'[h] = reset[h]
  BY <1>3, <1>6 DEF TypeOK
<1>8. /\ mainQ' \in Seq(Blocks) /\ Once(mainQ')
      /\ \A x : InSeq(x, mainQ') <=> InSeq(x, mainQ) \/ x = Sweep(g)
  BY <1>1, <1>5, <1>6, AppendOnce
<1>9. TypeOK'
  BY <1>2, <1>6, <1>7, <1>8 DEF TypeOK
<1>10. RegistryInv'
  BY <1>6 DEF RegistryInv, Once, Standing
<1>11. WorkInv'
  BY <1>2, <1>3, <1>6, <1>7, JobsDiffer DEF WorkInv
<1>12. MainInv'
  BY <1>3, <1>6, <1>7, <1>8, BlocksDiffer DEF MainInv
<1>13. FreshInv'
  BY <1>3, <1>4, <1>6, <1>7 DEF FreshInv
<1>14. FaultInv' /\ OthersUntouched'
  BY <1>6 DEF FaultInv, OthersUntouched
<1> QED
  BY <1>9, <1>10, <1>11, <1>12, <1>13, <1>14

(***************************************************************************)
(* The main thread, the person, and the crash.                             *)
(***************************************************************************)

\* The panel is registered: it was not, because its request was still waiting.
LEMMA RunRaiseInv == ASSUME IInv, RunRaise PROVE IInv'
<1> USE DEF IInv
<1> DEFINE r == Head(mainQ).req
<1>1. /\ req \in [Reqs -> Request] /\ mainQ \in Seq(Blocks) /\ Once(mainQ) /\ mainQ # << >>
      /\ panels \in Seq(Reqs) /\ Once(panels) /\ "standing" \in Stages
  BY DEF TypeOK, MainInv, RegistryInv, RunRaise, Stages
<1>2. /\ Head(mainQ) \in Blocks /\ InSeq(Head(mainQ), mainQ)
      /\ mainQ' \in Seq(Blocks) /\ Once(mainQ')
      /\ \A x : InSeq(x, mainQ') <=> InSeq(x, mainQ) /\ x # Head(mainQ)
  BY <1>1, TailOnce DEF RunRaise
<1>3. r \in Reqs /\ Head(mainQ) = Raise(r)
  BY <1>2, BlocksDiffer DEF RunRaise
<1>4. req[r].stage = "raising" /\ r \notin Standing
  BY <1>2, <1>3 DEF MainInv, RegistryInv
<1>5. Stage(r, "standing") /\ panels' = Append(panels, r) /\ UNCHANGED <<agent, reset, workQ, crashes>>
  BY DEF RunRaise
<1> HIDE DEF r
<1>6. /\ req' \in [Reqs -> Request] /\ \A q \in Reqs : q # r => req'[q] = req[q]
      /\ req'[r].stage = "standing"
      /\ req'[r].addressed = req[r].addressed /\ req'[r].dismissed = req[r].dismissed
      /\ req'[r].cancel = req[r].cancel
  BY <1>1, <1>3, <1>5, StageIs
<1>7. ~InSeq(r, panels)
  BY <1>4 DEF InSeq, Standing
<1>8. /\ panels' \in Seq(Reqs) /\ Once(panels')
      /\ \A x : InSeq(x, panels') <=> InSeq(x, panels) \/ x = r
  BY <1>1, <1>3, <1>5, <1>7, AppendOnce
<1>9. \A x : (x \in Standing <=> InSeq(x, panels)) /\ (x \in Standing' <=> InSeq(x, panels'))
  BY DEF Standing, InSeq
<1>10. TypeOK'
  BY <1>2, <1>5, <1>6, <1>8 DEF TypeOK
<1>11. RegistryInv'
  <2>1. \A q \in Reqs : req'[q].stage = "standing" <=> q \in Standing'
    BY <1>3, <1>6, <1>8, <1>9 DEF RegistryInv
  <2> QED
    BY <1>8, <2>1 DEF RegistryInv
<1>12. WorkInv'
  BY <1>3, <1>4, <1>5, <1>6 DEF WorkInv
<1>13. MainInv'
  <2>1. \A q \in Reqs : req'[q].stage = "raising" <=> InSeq(Raise(q), mainQ')
    BY <1>2, <1>3, <1>6, BlocksDiffer DEF MainInv
  <2>2. \A q \in Reqs : req'[q].cancel = "main" <=> InSeq(Dismiss(q), mainQ')
    BY <1>2, <1>3, <1>6, BlocksDiffer DEF MainInv
  <2>3. \A g \in Agents : reset'[g] = "sweeping" <=> InSeq(Sweep(g), mainQ')
    BY <1>2, <1>3, <1>5, BlocksDiffer DEF MainInv
  <2> QED
    BY <1>2, <2>1, <2>2, <2>3 DEF MainInv
<1>14. FreshInv' /\ FaultInv' /\ OthersUntouched'
  BY <1>3, <1>5, <1>6, SMTT(30) DEF FreshInv, FaultInv, OthersUntouched
<1> QED
  BY <1>10, <1>11, <1>12, <1>13, <1>14

\* finishPanels() reaches panels that stand; of the others that have an address,
\* none.
LEMMA TargetsStand ==
  ASSUME NEW r \in Reqs
  PROVE  /\ Targets(r) \subseteq Standing
         /\ \A q \in Targets(r) : q = r \/ ~req[q].addressed
<1>1. CASE req[r].addressed
  BY <1>1 DEF Targets
<1>2. CASE ~req[r].addressed
  BY <1>2 DEF Targets, OldestUnaddressed, Standing
<1> QED
  BY <1>1, <1>2

\* The requests in S are answered as dismissed, and the dismissal of r is done.
Dismissed(r, S) ==
    [q \in Reqs |-> [Ended(S)[q] EXCEPT !.dismissed = @ \/ q \in S,
                                       !.cancel = IF q = r THEN "done" ELSE @]]

LEMMA DismissIs ==
  ASSUME req \in [Reqs -> Request], NEW r \in Reqs, NEW S, NEW q \in Reqs, req' = Dismissed(r, S)
  PROVE  /\ req'[q] \in Request
         /\ req'[q].stage = IF q \in S THEN "answered" ELSE req[q].stage
         /\ req'[q].cancel = IF q = r THEN "done" ELSE req[q].cancel
         /\ (req'[q].dismissed <=> req[q].dismissed \/ q \in S)
         /\ req'[q].addressed = req[q].addressed /\ req'[q].client = req[q].client
<1> DEFINE E == Ended(S)[q]
           d == E.dismissed \/ q \in S
           c == IF q = r THEN "done" ELSE E.cancel
           R == [E EXCEPT !.dismissed = d, !.cancel = c]
<1>1. /\ E \in Request /\ E.stage = IF q \in S THEN "answered" ELSE req[q].stage
      /\ E.cancel = req[q].cancel /\ E.dismissed = req[q].dismissed
      /\ E.addressed = req[q].addressed /\ E.client = req[q].client
  BY EndedIs
<1>2. req'[q] = R
  BY DEF Dismissed
<1> HIDE DEF E
<1>3. d \in BOOLEAN
  OBVIOUS
<1>4. c \in {"none", "sent", "main", "done", "lost"}
  BY <1>1 DEF Request
<1>5. d = (req[q].dismissed \/ q \in S) /\ c = IF q = r THEN "done" ELSE req[q].cancel
  BY <1>1
<1> HIDE DEF d, c
<1>6. /\ R \in Request /\ R.stage = E.stage /\ R.cancel = c /\ R.dismissed = d
      /\ R.addressed = E.addressed /\ R.client = E.client
  BY ONLY <1>1, <1>3, <1>4 DEF Request
<1> HIDE DEF R
<1> QED
  BY <1>1, <1>2, <1>5, <1>6

\* A dismissal ends its targets and is done.
LEMMA RunDismissInv == ASSUME IInv, RunDismiss PROVE IInv'
<1> USE DEF IInv
<1> DEFINE r == Head(mainQ).req
           S == Targets(r)
<1>1. /\ req \in [Reqs -> Request] /\ mainQ \in Seq(Blocks) /\ Once(mainQ) /\ mainQ # << >>
      /\ panels \in Seq(Reqs) /\ Once(panels)
  BY DEF TypeOK, MainInv, RegistryInv, RunDismiss
<1>2. /\ Head(mainQ) \in Blocks /\ InSeq(Head(mainQ), mainQ)
      /\ mainQ' \in Seq(Blocks) /\ Once(mainQ')
      /\ \A x : InSeq(x, mainQ') <=> InSeq(x, mainQ) /\ x # Head(mainQ)
  BY <1>1, TailOnce DEF RunDismiss
<1>3. r \in Reqs /\ Head(mainQ) = Dismiss(r)
  BY <1>2, BlocksDiffer DEF RunDismiss
<1>4. req[r].cancel = "main"
  BY <1>2, <1>3 DEF MainInv
<1>5. S \subseteq Standing /\ \A q \in S : q = r \/ ~req[q].addressed
  BY <1>3, TargetsStand
<1>6. /\ Finish(S) /\ UNCHANGED <<agent, reset, workQ, crashes>>
      /\ req' = Dismissed(r, S)
  BY DEF RunDismiss, Dismissed
<1> HIDE DEF r, S
<1>7. panels' \in Seq(Reqs) /\ Once(panels)' /\ Standing' = Standing \ S
  BY <1>1, <1>6, FinishIs
<1>8. ASSUME NEW q \in Reqs
      PROVE  /\ req'[q] \in Request
             /\ req'[q].stage = IF q \in S THEN "answered" ELSE req[q].stage
             /\ req'[q].cancel = IF q = r THEN "done" ELSE req[q].cancel
             /\ (req'[q].dismissed <=> req[q].dismissed \/ q \in S)
             /\ req'[q].addressed = req[q].addressed /\ req'[q].client = req[q].client
  <2>1. PICK p, T : p = r /\ T = S
    OBVIOUS
  <2> QED
    BY <1>1, <1>3, <1>6, <2>1, DismissIs
<1>9. req' \in [Reqs -> Request]
  BY <1>6, <1>8 DEF Dismissed
<1>10. \A q \in S : q \in Reqs => req[q].stage = "standing"
  BY <1>5 DEF RegistryInv
<1>11. TypeOK'
  BY <1>2, <1>6, <1>7, <1>9 DEF TypeOK
<1>12. RegistryInv'
  <2>1. \A q \in Reqs : req'[q].stage = "standing" <=> q \in Standing'
    BY <1>7, <1>8 DEF RegistryInv
  <2> QED
    BY <1>7, <2>1 DEF RegistryInv
<1>13. WorkInv'
  <2>1. \A q \in Reqs : req'[q].stage = "queued" <=> req[q].stage = "queued"
    BY <1>8, <1>10
  <2> QED
    BY <1>6, <2>1 DEF WorkInv
<1>14. MainInv'
  <2>1. \A q \in Reqs : req'[q].stage = "raising" <=> InSeq(Raise(q), mainQ')
    BY <1>2, <1>3, <1>8, <1>10, BlocksDiffer DEF MainInv
  <2>2. \A q \in Reqs : req'[q].cancel = "main" <=> InSeq(Dismiss(q), mainQ')
    BY <1>2, <1>3, <1>8, BlocksDiffer DEF MainInv
  <2>3. \A g \in Agents : reset'[g] = "sweeping" <=> InSeq(Sweep(g), mainQ')
    BY <1>2, <1>3, <1>6, BlocksDiffer DEF MainInv
  <2> QED
    BY <1>2, <2>1, <2>2, <2>3 DEF MainInv
<1>15. FreshInv'
  <2>1. ASSUME NEW q \in Reqs, req'[q].stage = "new"
        PROVE  req'[q].client = "none" /\ req'[q].cancel = "none"
    <3>1. req[q].stage = "new"
      BY <1>8, <2>1
    <3> QED
      BY <1>4, <1>8, <3>1 DEF FreshInv
  <2> QED
    BY <1>6, <2>1 DEF FreshInv
<1>16. FaultInv'
  BY <1>6 DEF FaultInv
<1>17. OthersUntouched'
  BY <1>5, <1>8 DEF OthersUntouched
<1> QED
  BY <1>11, <1>12, <1>13, <1>14, <1>15, <1>16, <1>17

\* Panels leave the registry as their requests are answered.
LEMMA PanelsEnd ==
  ASSUME IInv, NEW S \in SUBSET Standing, Finish(S), req' = Ended(S),
         UNCHANGED <<agent, workQ, crashes>>
  PROVE  /\ req' \in [Reqs -> Request] /\ panels' \in Seq(Reqs) /\ RegistryInv'
         /\ \A q \in Reqs : /\ \A t \in {"new", "queued", "raising"} : req'[q].stage = t <=> req[q].stage = t
                            /\ req'[q].cancel = req[q].cancel /\ req'[q].client = req[q].client
         /\ OthersUntouched' /\ FaultInv'
<1> USE DEF IInv
<1>1. req \in [Reqs -> Request] /\ panels \in Seq(Reqs) /\ Once(panels)
  BY DEF TypeOK, RegistryInv
<1>2. panels' \in Seq(Reqs) /\ Once(panels)' /\ Standing' = Standing \ S
  BY <1>1, FinishIs
<1>3. /\ req' \in [Reqs -> Request]
      /\ \A q \in Reqs : /\ req'[q].stage = IF q \in S THEN "answered" ELSE req[q].stage
                         /\ req'[q].cancel = req[q].cancel /\ req'[q].client = req[q].client
                         /\ req'[q].addressed = req[q].addressed /\ req'[q].dismissed = req[q].dismissed
  BY <1>1, EndedIs
<1>4. \A q \in S : q \in Reqs => req[q].stage = "standing"
  BY DEF RegistryInv
<1>5. \A q \in Reqs : req'[q].stage = "standing" <=> q \in Standing'
  BY <1>2, <1>3 DEF RegistryInv
<1>6. RegistryInv'
  BY <1>2, <1>5 DEF RegistryInv
<1>7. OthersUntouched'
  BY <1>3 DEF OthersUntouched
<1>8. FaultInv'
  BY DEF FaultInv
<1> QED
  BY <1>2, <1>3, <1>4, <1>6, <1>7, <1>8

\* dismissAll() empties the registry, and the reset is answered.
LEMMA RunSweepInv == ASSUME IInv, RunSweep PROVE IInv'
<1> USE DEF IInv
<1> DEFINE g == Head(mainQ).gen
<1>1. mainQ \in Seq(Blocks) /\ Once(mainQ) /\ mainQ # << >>
  BY DEF TypeOK, MainInv, RunSweep
<1>2. /\ Head(mainQ) \in Blocks /\ InSeq(Head(mainQ), mainQ)
      /\ mainQ' \in Seq(Blocks) /\ Once(mainQ')
      /\ \A x : InSeq(x, mainQ') <=> InSeq(x, mainQ) /\ x # Head(mainQ)
  BY <1>1, TailOnce DEF RunSweep
<1>3. g \in Agents /\ Head(mainQ) = Sweep(g)
  BY <1>2, BlocksDiffer DEF RunSweep
<1>4. reset[g] = "sweeping"
  BY <1>2, <1>3 DEF MainInv
<1>5. reset' = [reset EXCEPT ![g] = "done"] /\ UNCHANGED <<agent, workQ, crashes>>
  BY DEF RunSweep
<1> HIDE DEF g
<1>6. /\ reset' \in [Agents -> {"none", "sent", "queued", "sweeping", "done", "lost"}]
      /\ reset'[g] = "done" /\ \A h \in Agents : h # g => reset'[h] = reset[h]
  BY <1>3, <1>5 DEF TypeOK
<1>7. /\ req' \in [Reqs -> Request] /\ panels' \in Seq(Reqs) /\ RegistryInv'
      /\ \A q \in Reqs : /\ \A t \in {"new", "queued", "raising"} : req'[q].stage = t <=> req[q].stage = t
                         /\ req'[q].cancel = req[q].cancel /\ req'[q].client = req[q].client
      /\ OthersUntouched' /\ FaultInv'
  BY PanelsEnd DEF RunSweep
<1>8. TypeOK'
  BY <1>2, <1>5, <1>6, <1>7 DEF TypeOK
<1>9. WorkInv'
  BY <1>3, <1>4, <1>5, <1>6, <1>7 DEF WorkInv
<1>10. MainInv'
  <2>a. \A q \in Reqs : /\ InSeq(Raise(q), mainQ') <=> InSeq(Raise(q), mainQ)
                        /\ InSeq(Dismiss(q), mainQ') <=> InSeq(Dismiss(q), mainQ)
    BY <1>2, <1>3, BlocksDiffer
  <2>1. \A q \in Reqs : /\ req'[q].stage = "raising" <=> InSeq(Raise(q), mainQ')
                        /\ req'[q].cancel = "main" <=> InSeq(Dismiss(q), mainQ')
    BY <1>7, <2>a DEF MainInv
  <2>2. \A h \in Agents : reset'[h] = "sweeping" <=> InSeq(Sweep(h), mainQ')
    BY <1>2, <1>3, <1>6, BlocksDiffer DEF MainInv
  <2> QED
    BY <1>2, <2>1, <2>2 DEF MainInv
<1>11. FreshInv'
  BY <1>3, <1>4, <1>5, <1>6, <1>7, ZenonT(60) DEF FreshInv
<1> QED
  BY <1>7, <1>8, <1>9, <1>10, <1>11

\* The person answers a panel, or its deadline does.
LEMMA PersonInv ==
  ASSUME IInv, NEW r \in Reqs, Person(r) \/ DeadlineFired(r)
  PROVE  IInv'
<1> USE DEF IInv
<1>1. /\ r \in Standing /\ Finish({r}) /\ req' = Ended({r})
      /\ UNCHANGED <<agent, reset, workQ, mainQ, crashes>>
  BY DEF Person, DeadlineFired
<1>2. /\ req' \in [Reqs -> Request] /\ panels' \in Seq(Reqs) /\ RegistryInv'
      /\ \A q \in Reqs : /\ \A t \in {"new", "queued", "raising"} : req'[q].stage = t <=> req[q].stage = t
                         /\ req'[q].cancel = req[q].cancel /\ req'[q].client = req[q].client
      /\ OthersUntouched' /\ FaultInv'
  BY <1>1, PanelsEnd
<1>3. TypeOK'
  BY <1>1, <1>2 DEF TypeOK
<1>4. WorkInv'
  BY <1>1, <1>2 DEF WorkInv
<1>5. MainInv'
  BY <1>1, <1>2 DEF MainInv
<1>6. FreshInv'
  BY <1>1, <1>2 DEF FreshInv
<1> QED
  BY <1>2, <1>3, <1>4, <1>5, <1>6

\* What was asked is over, and the dismissals on their way are lost.
LEMMA CrashIs ==
  ASSUME req \in [Reqs -> Request], Crash, NEW q \in Reqs
  PROVE  /\ req'[q] \in Request
         /\ req'[q].stage = IF req[q].stage = "new" THEN "new" ELSE "over"
         /\ req'[q].cancel = IF req[q].cancel \in {"sent", "main"} THEN "lost" ELSE req[q].cancel
         /\ req'[q].dismissed = req[q].dismissed
         /\ req'[q].addressed = req[q].addressed /\ req'[q].client = req[q].client
<1> DEFINE s == IF req[q].stage = "new" THEN req[q].stage ELSE "over"
           c == IF req[q].cancel \in {"sent", "main"} THEN "lost" ELSE req[q].cancel
           R == [req[q] EXCEPT !.stage = s, !.cancel = c]
<1>1. req[q] \in Request /\ req'[q] = R
  BY DEF Crash
<1>2. s \in Stages /\ c \in {"none", "sent", "main", "done", "lost"}
  BY <1>1 DEF Request, Stages
<1> HIDE DEF s, c
<1>3. /\ R \in Request /\ R.stage = s /\ R.cancel = c /\ R.dismissed = req[q].dismissed
      /\ R.addressed = req[q].addressed /\ R.client = req[q].client
  BY ONLY <1>1, <1>2 DEF Request
<1> HIDE DEF R
<1> QED
  BY <1>1, <1>3 DEF s, c

\* The prompter dies with its queues and its panels.
LEMMA CrashInv == ASSUME IInv, Crash PROVE IInv'
<1> USE DEF IInv
<1>1. /\ req \in [Reqs -> Request] /\ crashes \in 0..MaxFaults
      /\ agent \in [gen : Agents, up : {"resetting", "serving", "stopping", "dead"}]
      /\ reset \in [Agents -> {"none", "sent", "queued", "sweeping", "done", "lost"}]
  BY DEF TypeOK
<1>2. /\ workQ' = << >> /\ mainQ' = << >> /\ panels' = << >> /\ agent' = agent
      /\ crashes' = crashes + 1
  BY DEF Crash
<1>3. ASSUME NEW q \in Reqs
      PROVE  /\ req'[q] \in Request
             /\ req'[q].stage = IF req[q].stage = "new" THEN "new" ELSE "over"
             /\ req'[q].cancel = IF req[q].cancel \in {"sent", "main"} THEN "lost" ELSE req[q].cancel
             /\ req'[q].dismissed = req[q].dismissed
             /\ req'[q].addressed = req[q].addressed /\ req'[q].client = req[q].client
  BY <1>1, CrashIs
<1>4. req' \in [Reqs -> Request]
  BY <1>3 DEF Crash
<1>5. \A g \in Agents : reset'[g] = IF reset[g] \in {"none", "done"} THEN reset[g] ELSE "lost"
  BY DEF Crash
<1>6. reset' \in [Agents -> {"none", "sent", "queued", "sweeping", "done", "lost"}]
  BY <1>1 DEF Crash
<1>7. /\ agent.gen \in Int /\ agent.gen >= 1
      /\ crashes + (IF agent.up = "dead" THEN agent.gen ELSE agent.gen - 1) < MaxFaults
  <2>1. agent.gen \in Agents
    BY <1>1
  <2>2. FaultAllowed
    BY DEF Crash
  <2> QED
    BY <2>1, <2>2 DEF FaultAllowed
<1>8. crashes' \in 0..MaxFaults /\ FaultInv'
  BY <1>1, <1>2, <1>7 DEF FaultInv
<1>9. TypeOK'
  <2>1. workQ' \in Seq(Jobs) /\ mainQ' \in Seq(Blocks) /\ panels' \in Seq(Reqs)
    BY <1>2
  <2> QED
    BY <1>1, <1>2, <1>4, <1>6, <1>8, <2>1 DEF TypeOK
<1>10. Standing' = {}
  BY <1>2 DEF Standing
<1>11. RegistryInv'
  BY <1>2, <1>3, <1>10, EmptyOnce DEF RegistryInv
<1>12. WorkInv' /\ MainInv'
  BY <1>2, <1>3, <1>5, EmptyOnce DEF WorkInv, MainInv
<1>13. FreshInv' /\ OthersUntouched'
  BY <1>2, <1>3, <1>5 DEF FreshInv, OthersUntouched
<1> QED
  BY <1>8, <1>9, <1>11, <1>12, <1>13

(***************************************************************************)
(* Every behaviour.                                                        *)
(***************************************************************************)

\* Every step keeps the invariant.
LEMMA NextInv == IInv /\ [Next]_vars => IInv'
<1> SUFFICES ASSUME IInv, [Next]_vars PROVE IInv'
  OBVIOUS
<1>1. CASE UNCHANGED vars
  BY <1>1 DEF vars, IInv, TypeOK, RegistryInv, WorkInv, MainInv, FreshInv, FaultInv,
              OthersUntouched, Once, InSeq, Standing
<1>2. ASSUME NEW r \in Reqs,
             \/ Ask(r) \/ Cancel(r) \/ ClientStep(r) \/ SerialStep(r) \/ Reply(r)
             \/ Person(r) \/ DeadlineFired(r) \/ ConfirmAnswered(r)
      PROVE  IInv'
  BY <1>2, AskInv, CancelInv, ClientStepInv, ReadRequestInv, OutsideInv, ReadCancelInv, PersonInv
     DEF SerialStep
<1>3. ASSUME NEW g \in Agents, ReadReset(g) PROVE IInv'
  BY <1>3, ReadResetInv
<1>4. CASE WorkerStep \/ MainStep
  BY <1>4, BeginCallInv, BeginResetInv, RunRaiseInv, RunDismissInv, RunSweepInv DEF WorkerStep, MainStep
<1>5. CASE Quiesce \/ ResetReturns \/ AgentExits \/ AgentStarts \/ Crash
  BY <1>5, QuiesceInv, ResetReturnsInv, AgentExitsInv, AgentStartsInv, CrashInv
<1> QED
  BY <1>1, <1>2, <1>3, <1>4, <1>5 DEF Next

\* The invariant holds in every reachable state of the prompter and its client.
THEOREM Invariant == Spec => []IInv
<1> QED
  BY InitInv, NextInv, PTL DEF Spec

\* Every worker that waits can be woken (PrompterServer.cpp, PromptWindow.mm):
\* its panel is registered, once, or its block is on the main queue, whatever
\* was dismissed, swept, answered, timed out or lost in between.
THEOREM Waiters == Spec => []PanelInv
<1>1. IInv => PanelInv
  BY DEF IInv, PanelInv, WaitersWoken, RegistryInv, WorkInv, MainInv
<1> QED
  BY Invariant, <1>1, PTL

\* finishPanels() of one prompt's dismissal ends no panel that has another
\* prompt's id: such a panel is dismissed by its own dismissal only.  A part of PanelInv.
THEOREM Others == Spec => []OthersUntouched
<1>1. IInv => OthersUntouched
  BY DEF IInv
<1> QED
  BY Invariant, <1>1, PTL

(***************************************************************************)
(* Refinement: the prompter with its queues is a PromptService.  With the  *)
(* registry as it is, what a request is follows from its stage alone.      *)
(***************************************************************************)
ByStage(s) ==
    IF s = "standing" THEN "shown"
    ELSE IF s = "asking" THEN "confirming"
    ELSE IF s = "new" THEN "new"
    ELSE IF s \in {"answered", "over"} THEN "over" ELSE "open"

LEMMA FatesByStage ==
  ASSUME RegistryInv, RegistryInv'
  PROVE  /\ \A q \in Reqs : Fates[q] = ByStage(req[q].stage)
         /\ Fates' = [q \in Reqs |-> ByStage(req'[q].stage)]
         /\ \A q \in Reqs : Fates[q] = "shown" <=> q \in Standing
<1>1. \A q \in Reqs : FateOf(req[q].stage, q \in Standing) = ByStage(req[q].stage)
  BY DEF RegistryInv, FateOf, ByStage
<1>2. \A q \in Reqs : FateOf(req'[q].stage, q \in Standing') = ByStage(req'[q].stage)
  BY DEF RegistryInv, FateOf, ByStage
<1>3. \A q \in Reqs : ByStage(req[q].stage) = "shown" <=> req[q].stage = "standing"
  BY DEF ByStage
<1> QED
  BY <1>1, <1>2, <1>3 DEF Fates, RegistryInv

\* One request moves.
LEMMA FateMoves ==
  ASSUME RegistryInv, RegistryInv', NEW r \in Reqs, NEW to, ByStage(req'[r].stage) = to,
         \A q \in Reqs : q # r => ByStage(req'[q].stage) = ByStage(req[q].stage)
  PROVE  /\ Fates[r] = ByStage(req[r].stage)
         /\ Fates' = [Fates EXCEPT ![r] = to]
         /\ Fates' = [q \in Reqs |-> IF q \in {r} THEN to ELSE Fates[q]]
<1>0. \A q \in Reqs : ByStage(req'[q].stage) = IF q \in {r} THEN to ELSE ByStage(req[q].stage)
  OBVIOUS
<1>1. Fates' = [q \in Reqs |-> IF q \in {r} THEN to ELSE Fates[q]]
  BY <1>0, FatesByStage
<1>2. DOMAIN Fates = Reqs
  BY DEF Fates
<1>3. Fates = [q \in Reqs |-> Fates[q]]
  BY DEF Fates
<1> QED
  BY <1>1, <1>2, <1>3, FatesByStage

\* No request gets another fate.
LEMMA FatesStay ==
  ASSUME RegistryInv, RegistryInv', \A q \in Reqs : ByStage(req'[q].stage) = ByStage(req[q].stage)
  PROVE  Fates' = Fates
<1>1. Fates = [q \in Reqs |-> Fates[q]]
  BY DEF Fates
<1> QED
  BY <1>1, FatesByStage

\* Ids stay with their requests, and dismissals and resets are as far as they were.
LEMMA NamesStay ==
  ASSUME \A q \in Reqs : req'[q].addressed = req[q].addressed
  PROVE  Addressed' = Addressed
  BY DEF Addressed

LEMMA DismissalsStay ==
  ASSUME \A q \in Reqs : DismissalOf(req'[q].cancel) = DismissalOf(req[q].cancel)
  PROVE  Dismissals' = Dismissals
  BY DEF Dismissals

\* A step of one request that leaves ids, dismissals, agents and resets alone.
LEMMA StageStepRefines ==
  ASSUME IInv, IInv', NEW r \in Reqs, UNCHANGED <<agent, reset>>,
         \A q \in Reqs : q # r => req'[q] = req[q],
         req'[r].addressed = req[r].addressed, req'[r].cancel = req[r].cancel,
         \/ ByStage(req'[r].stage) = ByStage(req[r].stage)
         \/ ByStage(req[r].stage) = "open" /\ ByStage(req'[r].stage) \in {"shown", "confirming", "over"}
         \/ ByStage(req[r].stage) \in {"shown", "confirming"} /\ ByStage(req'[r].stage) = "over"
  PROVE  [Service!Next]_(Service!vars)
<1>0. RegistryInv /\ RegistryInv'
  BY DEF IInv
<1>1. Addressed' = Addressed /\ Dismissals' = Dismissals /\ ToSweep' = ToSweep /\ agent.gen' = agent.gen
  BY NamesStay, DismissalsStay DEF ToSweep
<1>2. CASE ByStage(req'[r].stage) = ByStage(req[r].stage)
  <2>1. Fates' = Fates
    BY <1>0, <1>2, FatesStay
  <2> QED
    BY <1>1, <2>1 DEF Service!vars
<1>3. ASSUME NEW to, ByStage(req'[r].stage) = to
      PROVE  /\ Fates[r] = ByStage(req[r].stage)
             /\ Fates' = [Fates EXCEPT ![r] = to]
             /\ Fates' = [q \in Reqs |-> IF q \in {r} THEN to ELSE Fates[q]]
  <2>1. \A q \in Reqs : q # r => ByStage(req'[q].stage) = ByStage(req[q].stage)
    OBVIOUS
  <2> QED
    BY ONLY <1>0, <1>3, <2>1, FateMoves, r \in Reqs
<1>4. CASE ByStage(req[r].stage) = "open" /\ ByStage(req'[r].stage) \in {"shown", "confirming"}
  <2>1. Service!Show(r)
    BY <1>1, <1>3, <1>4 DEF Service!Show, Service!Move
  <2> QED
    BY <2>1 DEF Service!Next
<1>5. CASE ByStage(req[r].stage) \in {"open", "shown", "confirming"} /\ ByStage(req'[r].stage) = "over"
  <2>1. Service!Answer(r)
    BY <1>1, <1>3, <1>5 DEF Service!Answer, Service!End
  <2> QED
    BY <2>1 DEF Service!Next
<1> QED
  BY <1>2, <1>4, <1>5

\* What the queues hold is what its request or reset waits for.
LEMMA HeadIs ==
  ASSUME IInv
  PROVE  /\ workQ # << >> /\ Head(workQ).do = "call" =>
               Head(workQ).req \in Reqs /\ req[Head(workQ).req].stage = "queued"
         /\ workQ # << >> /\ Head(workQ).do = "reset" =>
               Head(workQ).gen \in Agents /\ reset[Head(workQ).gen] = "queued"
         /\ mainQ # << >> /\ Head(mainQ).do = "raise" =>
               Head(mainQ).req \in Reqs /\ req[Head(mainQ).req].stage = "raising"
         /\ mainQ # << >> /\ Head(mainQ).do = "dismiss" =>
               Head(mainQ).req \in Reqs /\ req[Head(mainQ).req].cancel = "main"
         /\ mainQ # << >> /\ Head(mainQ).do = "sweep" =>
               Head(mainQ).gen \in Agents /\ reset[Head(mainQ).gen] = "sweeping"
<1>1. workQ \in Seq(Jobs) /\ Once(workQ) /\ mainQ \in Seq(Blocks) /\ Once(mainQ)
  BY DEF IInv, TypeOK, WorkInv, MainInv
<1>2. workQ # << >> => Head(workQ) \in Jobs /\ InSeq(Head(workQ), workQ)
  BY <1>1, TailOnce
<1>3. mainQ # << >> => Head(mainQ) \in Blocks /\ InSeq(Head(mainQ), mainQ)
  BY <1>1, TailOnce
<1>4. \A j \in Jobs : InSeq(j, workQ) =>
         /\ j.do = "call" => j.req \in Reqs /\ req[j.req].stage = "queued"
         /\ j.do = "reset" => j.gen \in Agents /\ reset[j.gen] = "queued"
  BY JobsDiffer DEF IInv, WorkInv
<1>5. \A b \in Blocks : InSeq(b, mainQ) =>
         /\ b.do = "raise" => b.req \in Reqs /\ req[b.req].stage = "raising"
         /\ b.do = "dismiss" => b.req \in Reqs /\ req[b.req].cancel = "main"
         /\ b.do = "sweep" => b.gen \in Agents /\ reset[b.gen] = "sweeping"
  BY BlocksDiffer DEF IInv, MainInv
<1> QED
  BY <1>2, <1>3, <1>4, <1>5

\* A request is asked, with an id or without.
LEMMA AskRefines ==
  ASSUME IInv, IInv', NEW r \in Reqs, Ask(r)
  PROVE  Service!Ask(r)
<1>1. PICK s \in Shapes :
         req' = [req EXCEPT ![r] = [NoRequest EXCEPT !.kind = s.kind, !.addressed = s.addressed,
                     !.timed = s.timed, !.gen = agent.gen, !.client = "waiting", !.stage = "sent"]]
  BY DEF Ask
<1>2. /\ req \in [Reqs -> Request] /\ req[r].stage = "new" /\ req[r].cancel = "none"
      /\ RegistryInv /\ RegistryInv'
  BY DEF IInv, TypeOK, Ask, FreshInv
<1>3. req'[r].stage = "sent" /\ req'[r].cancel = "none" /\ \A q \in Reqs : q # r => req'[q] = req[q]
  BY <1>1, <1>2 DEF NoRequest
<1>4. Addressed' \in {Addressed \ {r}, Addressed \cup {r}}
  <2>1. CASE req'[r].addressed
    BY <1>3, <2>1 DEF Addressed
  <2>2. CASE ~req'[r].addressed
    BY <1>3, <2>2 DEF Addressed
  <2> QED
    BY <2>1, <2>2
<1>5. Dismissals' = Dismissals
  BY <1>2, <1>3, DismissalsStay
<1>6. ByStage(req[r].stage) = "new" /\ ByStage(req'[r].stage) = "open"
  BY <1>2, <1>3 DEF ByStage
<1>7. \A q \in Reqs : q # r => ByStage(req'[q].stage) = ByStage(req[q].stage)
  BY <1>3
<1>8. Fates[r] = "new" /\ Fates' = [Fates EXCEPT ![r] = "open"]
  BY <1>2, <1>6, <1>7, FateMoves
<1>9. ToSweep' = ToSweep /\ agent.gen' = agent.gen
  BY DEF Ask, ToSweep
<1> QED
  BY <1>4, <1>5, <1>8, <1>9 DEF Service!Ask, Service!Move

\* Requests that are called off: they were asked, and not called off before.
LEMMA CallsOff ==
  ASSUME IInv, IInv', UNCHANGED reset, agent'.gen = agent.gen,
         \A q \in Reqs : \/ req'[q] = req[q]
                         \/ /\ req[q].client = "waiting" /\ req[q].cancel = "none" /\ req'[q].cancel = "sent"
                            /\ req'[q].stage = req[q].stage /\ req'[q].addressed = req[q].addressed
  PROVE  Service!Next
<1> DEFINE S == {q \in Reqs : req[q].cancel = "none" /\ req'[q].cancel = "sent"}
<1>0. RegistryInv /\ RegistryInv' /\ FreshInv
  BY DEF IInv
<1>1. \A q \in Reqs : ByStage(req'[q].stage) = ByStage(req[q].stage) /\ req'[q].addressed = req[q].addressed
  OBVIOUS
<1>2. Fates' = Fates /\ Addressed' = Addressed /\ ToSweep' = ToSweep
  BY <1>0, <1>1, FatesStay, NamesStay DEF ToSweep
<1>3. \A q \in S : Fates[q] # "new" /\ Dismissals[q] = "none"
  <2> SUFFICES ASSUME NEW q \in S PROVE Fates[q] # "new" /\ Dismissals[q] = "none"
    OBVIOUS
  <2>1. q \in Reqs /\ req[q].cancel = "none" /\ req[q].stage # "new"
    BY <1>0 DEF FreshInv
  <2>2. Fates[q] = ByStage(req[q].stage)
    BY <1>0, <2>1, FatesByStage
  <2> QED
    BY <2>1, <2>2 DEF ByStage, Dismissals, DismissalOf
<1>4. Dismissals' = [q \in Reqs |-> IF q \in S THEN "called" ELSE Dismissals[q]]
  <2>1. \A q \in Reqs : DismissalOf(req'[q].cancel) = IF q \in S THEN "called" ELSE DismissalOf(req[q].cancel)
    BY DEF DismissalOf
  <2> QED
    BY <2>1 DEF Dismissals
<1>5. S \in SUBSET Reqs
  OBVIOUS
<1> HIDE DEF S
<1>6. Service!CallOff(S)
  BY <1>2, <1>3, <1>4 DEF Service!CallOff
<1> QED
  BY <1>5, <1>6 DEF Service!Next

\* The block of a dismissal acts for a prompt that is called off, and reaches
\* what finishPanels() lets it.
LEMMA RunDismissRefines ==
  ASSUME IInv, IInv', RunDismiss
  PROVE  Service!Next
<1> DEFINE r == Head(mainQ).req
           S == Targets(r)
<1>1. req \in [Reqs -> Request] /\ RegistryInv /\ RegistryInv'
  BY DEF IInv, TypeOK
<1>2. r \in Reqs /\ req[r].cancel = "main"
  BY HeadIs DEF RunDismiss
<1>3. S \subseteq Standing
  BY <1>2, TargetsStand
<1>4. /\ UNCHANGED <<agent, reset>>
      /\ req' = Dismissed(r, S)
  BY DEF RunDismiss, Dismissed
<1>5. Standing \subseteq Reqs
  BY LenProperties, ElementOfSeq DEF IInv, TypeOK, Standing
<1>6. IF r \in Addressed THEN S = {q \in Standing : q = r \/ q \notin Addressed}
      ELSE S \subseteq Standing \ Addressed /\ \A p, q \in S : p = q
  <2>1. CASE req[r].addressed
    BY <1>2, <1>5, <2>1 DEF Targets, Addressed
  <2>2. CASE ~req[r].addressed
    <3>1. S = {panels[n] : n \in {m \in DOMAIN panels : OldestUnaddressed(m)}}
      BY <2>2 DEF Targets
    <3>2. DOMAIN panels = 1..Len(panels) /\ Len(panels) \in Nat
      BY LenProperties DEF IInv, TypeOK
    <3>3. \A m, n \in DOMAIN panels : OldestUnaddressed(m) /\ OldestUnaddressed(n) => m = n
      <4> SUFFICES ASSUME NEW m \in DOMAIN panels, NEW n \in DOMAIN panels,
                          OldestUnaddressed(m), OldestUnaddressed(n), m < n
                   PROVE  FALSE
        BY <3>2
      <4>1. m \in 1..(n - 1)
        BY <3>2
      <4> QED
        BY <4>1 DEF OldestUnaddressed
    <3>4. \A p, q \in S : p = q
      BY <3>1, <3>3
    <3>5. \A q \in S : ~req[q].addressed
      BY <3>1 DEF OldestUnaddressed
    <3> QED
      BY <1>2, <1>3, <2>2, <3>4, <3>5 DEF Addressed
  <2> QED
    BY <2>1, <2>2
<1> HIDE DEF r, S
<1>7. \A q \in Reqs : /\ req'[q].stage = IF q \in S THEN "answered" ELSE req[q].stage
                      /\ req'[q].cancel = IF q = r THEN "done" ELSE req[q].cancel
                      /\ req'[q].addressed = req[q].addressed
  <2>1. PICK p, T : p = r /\ T = S
    OBVIOUS
  <2> QED
    BY <1>1, <1>2, <1>4, <2>1, DismissIs
<1>8. Fates' = [q \in Reqs |-> IF q \in S THEN "over" ELSE Fates[q]]
  <2>1. \A q \in Reqs : ByStage(req'[q].stage) = IF q \in S THEN "over" ELSE ByStage(req[q].stage)
    BY <1>7 DEF ByStage
  <2> QED
    BY <1>1, <2>1, FatesByStage
<1>9. Dismissals[r] = "called" /\ Dismissals' = [Dismissals EXCEPT ![r] = "done"]
  <2>1. \A q \in Reqs : DismissalOf(req'[q].cancel) = IF q = r THEN "done" ELSE DismissalOf(req[q].cancel)
    BY <1>7 DEF DismissalOf
  <2>2. Dismissals' = [q \in Reqs |-> IF q = r THEN "done" ELSE DismissalOf(req[q].cancel)]
    BY <2>1 DEF Dismissals
  <2> QED
    BY <1>2, <2>2 DEF Dismissals, DismissalOf
<1>10. Addressed' = Addressed /\ ToSweep' = ToSweep /\ agent.gen' = agent.gen
  BY <1>4, <1>7, NamesStay DEF ToSweep
<1>11. Service!Shown = Standing
  BY <1>1, <1>5, FatesByStage DEF Service!Shown
<1>12. S \in SUBSET Service!Shown /\ Service!Reach(r, S) /\ Service!End(S)
  BY <1>3, <1>6, <1>8, <1>11 DEF Service!Reach, Service!End
<1>13. Service!Dismiss(r)
  BY <1>9, <1>10, <1>12 DEF Service!Dismiss
<1> QED
  BY <1>2, <1>13 DEF Service!Next

\* The block of a reset sweeps for an agent that has not swept yet.
LEMMA RunSweepRefines ==
  ASSUME IInv, IInv', RunSweep
  PROVE  Service!Next
<1> DEFINE g == Head(mainQ).gen
<1>1. req \in [Reqs -> Request] /\ RegistryInv /\ RegistryInv'
  BY DEF IInv, TypeOK
<1>2. g \in Agents /\ reset[g] = "sweeping"
  BY HeadIs DEF RunSweep
<1>3. req' = Ended(Standing) /\ reset' = [reset EXCEPT ![g] = "done"] /\ UNCHANGED agent
  BY DEF RunSweep
<1> HIDE DEF g
<1>4. \A q \in Reqs : /\ req'[q].stage = IF q \in Standing THEN "answered" ELSE req[q].stage
                      /\ req'[q].cancel = req[q].cancel /\ req'[q].addressed = req[q].addressed
  <2>1. PICK S : S = Standing
    OBVIOUS
  <2> QED
    BY <1>1, <1>3, <2>1, EndedIs
<1>5. Fates' = [q \in Reqs |-> IF q \in Standing THEN "over" ELSE Fates[q]]
  <2>1. \A q \in Reqs : ByStage(req'[q].stage) = IF q \in Standing THEN "over" ELSE ByStage(req[q].stage)
    BY <1>4 DEF ByStage
  <2> QED
    BY <1>1, <2>1, FatesByStage
<1>6. Service!End(Service!Shown)
  <2>1. \A q \in Reqs : q \in Service!Shown <=> q \in Standing
    BY <1>1, FatesByStage DEF Service!Shown
  <2> QED
    BY <1>5, <2>1 DEF Service!End
<1>7. Dismissals' = Dismissals /\ Addressed' = Addressed /\ agent.gen' = agent.gen
  BY <1>3, <1>4, NamesStay, DismissalsStay
<1>8. g \in ToSweep /\ ToSweep' = ToSweep \ {g}
  BY <1>2, <1>3 DEF ToSweep, IInv, TypeOK
<1> QED
  BY <1>6, <1>7, <1>8 DEF Service!Sweep, Service!Next

\* An agent that starts has yet to sweep.
LEMMA AgentStartsRefines ==
  ASSUME IInv, IInv', AgentStarts
  PROVE  Service!Next
<1>1. RegistryInv /\ RegistryInv' /\ UNCHANGED req
  BY DEF IInv, AgentStarts
<1>2. Fates' = Fates /\ Dismissals' = Dismissals /\ Addressed' = Addressed
  BY <1>1, FatesStay, DismissalsStay, NamesStay
<1>3. agent'.gen = agent.gen + 1 /\ agent.gen + 1 \in Agents
  <2>1. agent'.gen = agent.gen + 1
    BY DEF AgentStarts
  <2>2. agent'.gen \in Agents
    BY DEF IInv, TypeOK
  <2> QED
    BY <2>1, <2>2
<1>4. ToSweep' = ToSweep \cup {agent.gen + 1}
  <2>1. reset \in [Agents -> {"none", "sent", "queued", "sweeping", "done", "lost"}]
    BY DEF IInv, TypeOK
  <2>2. reset' = [reset EXCEPT ![agent.gen + 1] = "sent"]
    BY DEF AgentStarts
  <2> QED
    BY <1>3, <2>1, <2>2 DEF ToSweep
<1> QED
  BY <1>2, <1>3, <1>4 DEF Service!StartAgent, Service!Next

\* The prompter dies.
LEMMA CrashRefines ==
  ASSUME IInv, IInv', Crash
  PROVE  Service!Next
<1>1. req \in [Reqs -> Request] /\ RegistryInv /\ RegistryInv' /\ UNCHANGED agent
  BY DEF IInv, TypeOK, Crash
<1>2. \A q \in Reqs : /\ req'[q].stage = IF req[q].stage = "new" THEN "new" ELSE "over"
                      /\ req'[q].cancel = IF req[q].cancel \in {"sent", "main"} THEN "lost" ELSE req[q].cancel
                      /\ req'[q].addressed = req[q].addressed
  BY <1>1, CrashIs
<1>3. Service!End({q \in Reqs : Fates[q] # "new"})
  <2>1. \A q \in Reqs : Fates[q] # "new" <=> req[q].stage # "new"
    BY <1>1, FatesByStage DEF ByStage
  <2>2. \A q \in Reqs : ByStage(req'[q].stage) = IF req[q].stage # "new" THEN "over" ELSE ByStage(req[q].stage)
    BY <1>2 DEF ByStage
  <2>3. Fates' = [q \in Reqs |-> IF req[q].stage # "new" THEN "over" ELSE Fates[q]]
    BY <1>1, <2>2, FatesByStage
  <2> QED
    BY <2>1, <2>3 DEF Service!End
<1>4. Dismissals' = [q \in Reqs |-> IF Dismissals[q] = "called" THEN "done" ELSE Dismissals[q]]
  <2>1. \A q \in Reqs : DismissalOf(req'[q].cancel) =
                          IF DismissalOf(req[q].cancel) = "called" THEN "done" ELSE DismissalOf(req[q].cancel)
    BY <1>2 DEF DismissalOf
  <2> QED
    BY <2>1 DEF Dismissals
<1>5. ToSweep' = {}
  BY DEF Crash, ToSweep
<1>6. Addressed' = Addressed /\ agent.gen' = agent.gen
  BY <1>1, <1>2, NamesStay
<1> QED
  BY <1>3, <1>4, <1>5, <1>6 DEF Service!Die, Service!Next

\* A step that leaves stages, ids, dismissals, resets and agents as they are.
LEMMA Unseen ==
  ASSUME IInv, IInv', ToSweep' = ToSweep, agent'.gen = agent.gen,
         \A q \in Reqs : /\ ByStage(req'[q].stage) = ByStage(req[q].stage)
                         /\ DismissalOf(req'[q].cancel) = DismissalOf(req[q].cancel)
                         /\ req'[q].addressed = req[q].addressed
  PROVE  UNCHANGED Service!vars
<1>1. RegistryInv /\ RegistryInv'
  BY DEF IInv
<1>2. Fates' = Fates /\ Dismissals' = Dismissals /\ Addressed' = Addressed
  BY <1>1, FatesStay, DismissalsStay, NamesStay
<1> QED
  BY <1>2 DEF Service!vars

\* What the agent does with one request of its own.
LEMMA ClientRefines ==
  ASSUME IInv, IInv', NEW r \in Reqs, Ask(r) \/ Cancel(r) \/ ClientStep(r)
  PROVE  [Service!Next]_(Service!vars)
<1>1. req \in [Reqs -> Request]
  BY DEF IInv, TypeOK
<1>2. CASE Ask(r)
  BY <1>2, AskRefines DEF Service!Next
<1>3. CASE Cancel(r)
  <2> DEFINE R == [req[r] EXCEPT !.cancel = "sent"]
  <2>1. R.cancel = "sent" /\ R.stage = req[r].stage /\ R.addressed = req[r].addressed
    BY <1>1, ClientIs
  <2>2. /\ req' = [req EXCEPT ![r] = R] /\ UNCHANGED <<agent, reset>>
        /\ req[r].client = "waiting" /\ req[r].cancel = "none"
    BY <1>3 DEF Cancel, Live
  <2> HIDE DEF R
  <2> QED
    BY <1>1, <2>1, <2>2, CallsOff
<1>4. CASE ClientStep(r)
  <2> DEFINE R == [req[r] EXCEPT !.client = "returned"]
  <2>1. R.cancel = req[r].cancel /\ R.stage = req[r].stage /\ R.addressed = req[r].addressed
    BY <1>1, ClientIs
  <2>2. req' = [req EXCEPT ![r] = R] /\ UNCHANGED <<agent, reset>>
    BY <1>4 DEF ClientStep, Receive, Budget
  <2> HIDE DEF R
  <2>3. \A q \in Reqs : req'[q].stage = req[q].stage /\ req'[q].cancel = req[q].cancel
                        /\ req'[q].addressed = req[q].addressed
    BY <1>1, <2>1, <2>2
  <2> QED
    BY <2>2, <2>3, Unseen DEF ToSweep
<1> QED
  BY <1>2, <1>3, <1>4

\* What the prompter's queues do with one request.
LEMMA RequestRefines ==
  ASSUME IInv, IInv', NEW r \in Reqs, SerialStep(r) \/ Reply(r) \/ ConfirmAnswered(r)
  PROVE  [Service!Next]_(Service!vars)
<1>1. req \in [Reqs -> Request] /\ {"queued", "over"} \subseteq Stages
  BY DEF IInv, TypeOK, Stages
<1>2. CASE ReadCancel(r)
  <2> DEFINE R == [req[r] EXCEPT !.cancel = "main"]
  <2>1. R.cancel = "main" /\ R.stage = req[r].stage /\ R.addressed = req[r].addressed
    BY <1>1, ClientIs
  <2>2. req' = [req EXCEPT ![r] = R] /\ UNCHANGED <<agent, reset>> /\ req[r].cancel = "sent"
    BY <1>2 DEF ReadCancel
  <2> HIDE DEF R
  <2>3. \A q \in Reqs : /\ req'[q].stage = req[q].stage /\ req'[q].addressed = req[q].addressed
                        /\ DismissalOf(req'[q].cancel) = DismissalOf(req[q].cancel)
    BY <1>1, <2>1, <2>2 DEF DismissalOf
  <2> QED
    BY <2>2, <2>3, Unseen DEF ToSweep
<1>3. CASE ReadRequest(r) \/ RefuseRequest(r) \/ Reply(r)
  <2>1. PICK s \in {"queued", "over"} :
           Stage(r, s) /\ (req[r].stage = "sent" \/ (req[r].stage = "answered" /\ s = "over"))
    BY <1>3 DEF ReadRequest, RefuseRequest, Reply
  <2>2. /\ \A q \in Reqs : q # r => req'[q] = req[q]
        /\ req'[r].stage = s /\ req'[r].addressed = req[r].addressed /\ req'[r].cancel = req[r].cancel
    BY <1>1, <2>1, StageIs
  <2>3. \/ ByStage(req'[r].stage) = ByStage(req[r].stage)
        \/ ByStage(req[r].stage) = "open" /\ ByStage(req'[r].stage) = "over"
    BY <2>1, <2>2 DEF ByStage
  <2>4. UNCHANGED <<agent, reset>>
    BY <1>3 DEF ReadRequest, RefuseRequest, Reply
  <2> QED
    BY <2>2, <2>3, <2>4, StageStepRefines
<1>4. CASE ConfirmAnswered(r)
  <2>1. req' = Ended({r}) /\ UNCHANGED <<agent, reset>> /\ req[r].stage = "asking"
    BY <1>4 DEF ConfirmAnswered
  <2>2. /\ \A q \in Reqs : q # r => req'[q] = req[q]
        /\ req'[r].stage = "answered" /\ req'[r].addressed = req[r].addressed /\ req'[r].cancel = req[r].cancel
    BY <1>1, <2>1, EndedIs
  <2>3. ByStage(req[r].stage) = "confirming" /\ ByStage(req'[r].stage) = "over"
    BY <2>1, <2>2 DEF ByStage
  <2> QED
    BY <2>1, <2>2, <2>3, StageStepRefines
<1> QED
  BY <1>2, <1>3, <1>4 DEF SerialStep

\* A panel is answered, closed or out of time.
LEMMA PersonRefines ==
  ASSUME IInv, IInv', NEW r \in Reqs, Person(r) \/ DeadlineFired(r)
  PROVE  [Service!Next]_(Service!vars)
<1>1. req \in [Reqs -> Request] /\ req[r].stage = "standing"
  BY DEF IInv, TypeOK, RegistryInv, Person, DeadlineFired
<1>2. req' = Ended({r}) /\ UNCHANGED <<agent, reset>>
  BY DEF Person, DeadlineFired
<1>3. /\ \A q \in Reqs : q # r => req'[q] = req[q]
      /\ req'[r].stage = "answered" /\ req'[r].addressed = req[r].addressed /\ req'[r].cancel = req[r].cancel
  BY <1>1, <1>2, EndedIs
<1>4. ByStage(req[r].stage) = "shown" /\ ByStage(req'[r].stage) = "over"
  BY <1>1, <1>3 DEF ByStage
<1> QED
  BY <1>2, <1>3, <1>4, StageStepRefines

\* A worker takes a call, or the main thread shows its panel.
LEMMA CallRefines ==
  ASSUME IInv, IInv', BeginCall \/ RunRaise
  PROVE  [Service!Next]_(Service!vars)
<1>1. req \in [Reqs -> Request] /\ {"raising", "asking", "standing"} \subseteq Stages
  BY DEF IInv, TypeOK, Stages
<1>2. PICK r \in Reqs : /\ req[r].stage \in {"queued", "raising"}
                        /\ req' = Ended({r}) \/ \E s \in {"raising", "asking", "standing"} : Stage(r, s)
  <2>1. CASE BeginCall
    <3> DEFINE r == Head(workQ).req
    <3>1. r \in Reqs /\ req[r].stage = "queued"
      BY <2>1, HeadIs DEF BeginCall
    <3>2. Stage(r, "raising") \/ Stage(r, "asking") \/ req' = Ended({r})
      BY <2>1 DEF BeginCall
    <3> HIDE DEF r
    <3> QED
      BY <3>1, <3>2
  <2>2. CASE RunRaise
    <3> DEFINE r == Head(mainQ).req
    <3>1. r \in Reqs /\ req[r].stage = "raising" /\ Stage(r, "standing")
      BY <2>2, HeadIs DEF RunRaise
    <3> HIDE DEF r
    <3> QED
      BY <3>1
  <2> QED
    BY <2>1, <2>2
<1>3. /\ \A q \in Reqs : q # r => req'[q] = req[q]
      /\ req'[r].stage \in {"raising", "asking", "standing", "answered"}
      /\ req'[r].addressed = req[r].addressed /\ req'[r].cancel = req[r].cancel
  BY <1>1, <1>2, StageIs, EndedIs
<1>4. ByStage(req[r].stage) = "open" /\ ByStage(req'[r].stage) \in {"open", "confirming", "shown", "over"}
  BY <1>2, <1>3 DEF ByStage
<1>5. UNCHANGED <<agent, reset>>
  BY DEF BeginCall, RunRaise
<1> QED
  BY <1>3, <1>4, <1>5, StageStepRefines

\* A reset is read, or begun: its agent has yet to sweep, as before.
LEMMA ResetRefines ==
  ASSUME IInv, IInv', BeginReset \/ \E g \in Agents : ReadReset(g)
  PROVE  UNCHANGED Service!vars
<1>1. reset \in [Agents -> {"none", "sent", "queued", "sweeping", "done", "lost"}]
  BY DEF IInv, TypeOK
<1>2. PICK g \in Agents : /\ reset[g] \in {"sent", "queued"}
                          /\ \E s \in {"queued", "sweeping"} : reset' = [reset EXCEPT ![g] = s]
  BY HeadIs DEF BeginReset, ReadReset
<1>3. ToSweep' = ToSweep
  BY <1>1, <1>2 DEF ToSweep
<1>4. UNCHANGED <<req, agent>>
  BY DEF BeginReset, ReadReset
<1> QED
  BY <1>3, <1>4, Unseen

\* The agent as a whole.
LEMMA AgentRefines ==
  ASSUME IInv, IInv', Quiesce \/ ResetReturns \/ AgentExits
  PROVE  [Service!Next]_(Service!vars)
<1>1. req \in [Reqs -> Request] /\ agent \in [gen : Agents, up : {"resetting", "serving", "stopping", "dead"}]
  BY DEF IInv, TypeOK
<1>2. agent'.gen = agent.gen /\ UNCHANGED reset
  BY <1>1 DEF Quiesce, ResetReturns, AgentExits
<1>3. CASE Quiesce
  BY <1>1, <1>2, <1>3, QuiesceIs, CallsOff
<1>4. CASE ResetReturns
  BY <1>2, <1>4, Unseen DEF ResetReturns, ToSweep
<1>5. CASE AgentExits
  <2>1. \A q \in Reqs : req'[q].stage = req[q].stage /\ req'[q].cancel = req[q].cancel
                        /\ req'[q].addressed = req[q].addressed
    BY <1>1, <1>5, AgentExitsIs
  <2> QED
    BY <1>2, <2>1, Unseen DEF ToSweep
<1> QED
  BY <1>3, <1>4, <1>5

\* Every step is one of the service, or is not seen.
LEMMA StepRefines == IInv /\ [Next]_vars => [Service!Next]_(Service!vars)
<1> SUFFICES ASSUME IInv, [Next]_vars PROVE [Service!Next]_(Service!vars)
  OBVIOUS
<1>0. IInv'
  BY NextInv
<1>1. CASE UNCHANGED vars
  BY <1>0, <1>1, Unseen DEF vars, ToSweep
<1>2. ASSUME NEW r \in Reqs,
             \/ Ask(r) \/ Cancel(r) \/ ClientStep(r) \/ SerialStep(r) \/ Reply(r)
             \/ Person(r) \/ DeadlineFired(r) \/ ConfirmAnswered(r)
      PROVE  [Service!Next]_(Service!vars)
  BY <1>0, <1>2, ClientRefines, RequestRefines, PersonRefines
<1>3. CASE WorkerStep \/ \E g \in Agents : ReadReset(g)
  BY <1>0, <1>3, CallRefines, ResetRefines DEF WorkerStep
<1>4. CASE MainStep
  BY <1>0, <1>4, CallRefines, RunDismissRefines, RunSweepRefines DEF MainStep
<1>5. CASE Quiesce \/ ResetReturns \/ AgentExits \/ AgentStarts \/ Crash
  BY <1>0, <1>5, AgentRefines, AgentStartsRefines, CrashRefines
<1> QED
  BY <1>1, <1>2, <1>3, <1>4, <1>5 DEF Next

\* Nothing has been asked, called off or started.
LEMMA InitRefines == Init => Service!Init
<1> SUFFICES ASSUME Init PROVE Service!Init
  OBVIOUS
<1>1. \A q \in Reqs : req[q].stage = "new" /\ req[q].cancel = "none" /\ ~req[q].addressed
  BY DEF Init, NoRequest
<1>2. RegistryInv
  BY InitInv DEF IInv
<1>3. \A q \in Reqs : q \notin Standing
  BY <1>1, <1>2 DEF RegistryInv
<1>4. Fates = [q \in Reqs |-> "new"]
  BY <1>1, <1>3 DEF Fates, FateOf
<1>5. Dismissals = [q \in Reqs |-> "none"]
  BY <1>1 DEF Dismissals, DismissalOf
<1>6. Addressed = {} /\ ToSweep = {} /\ agent.gen = 1
  BY <1>1 DEF Init, Addressed, ToSweep
<1> QED
  BY <1>4, <1>5, <1>6 DEF Service!Init

\* The prompter and its client, with their queues, workers, restarts and lost
\* messages, implement the prompt service: a prompt is shown at most once and
\* gone with its answer, each dismissal and each start-up reset acts at most
\* once (PromptWindow.mm, PrompterServer.cpp, MacPrompterClient.cpp).
THEOREM RefinesService == Spec => ImplementsService
  BY Invariant, InitRefines, StepRefines, PTL DEF Spec, ImplementsService, Service!Spec
=============================================================================
