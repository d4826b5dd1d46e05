------------------------------- MODULE MCFlow -------------------------------
(***************************************************************************)
(* FlowAnalyzer on small bodies, against their structured executions, and  *)
(* on small call graphs, against paths of the graph.                       *)
(***************************************************************************)
EXTENDS Jobs, StatementEmitter

CONSTANTS MaxRounds, None

Exceptions == {"E1", "E2"}

F == INSTANCE FlowAnalyzer
X == INSTANCE StructuredSemantics

(***************************************************************************)
(* Bodies: simple statements, statements around them, and loops and try    *)
(* statements around those.  Every switch has a default clause that comes  *)
(* last and no clause is left by a break, the case the analyzer gets wrong.*)
(***************************************************************************)
call == CallS("f", {"E1"})
Simple == {call, ThrowS("E2"), ReturnS}
InLoop == Simple \cup {BreakS, ContinueS}
Handlers == {<<>>, <<CatchC({"E1"}, <<RethrowS>>)>>, <<CatchC({"E2"}, <<ReturnS>>)>>,
             <<CatchC({"E1"}, <<call>>), CatchAnyC(<<>>)>>, <<CatchAnyC(<<RethrowS>>)>>,
             <<CatchC({"E2"}, <<ThrowS("E1")>>), CatchC({"E1"}, <<ReturnS>>)>>}
Around(blocks, loopBlocks, ends) ==
  {IfS(t, e) : t \in blocks, e \in ends} \cup {UnlessS(t, e) : t \in blocks, e \in ends}
    \cup {WhileS(t) : t \in loopBlocks} \cup {ForS(t, call) : t \in loopBlocks} \cup {ForInS(t) : t \in loopBlocks}
    \cup {SwitchS(<<CaseC(t), DefaultC(e)>>) : t \in blocks, e \in ends}
    \cup {TryS(t, c) : t \in blocks, c \in Handlers}
Compound == Around(UpTo(2, Simple), UpTo(2, InLoop), {<<>>, <<call>>, <<ReturnS>>})
Nested == {WhileS(<<s>>) : s \in Around(UpTo(1, InLoop), UpTo(1, InLoop), {<<BreakS>>, <<ReturnS>>})}
            \cup {TryS(<<s>>, c) : s \in Compound, c \in Handlers}
            \cup {IfS(<<s>>, <<s>>) : s \in Compound}
Bodies == {<<s>> \o e : s \in Compound \cup Nested, e \in {<<>>, <<call>>, <<ReturnS>>}}

HasBreak(s) == s.k = "switch" /\ \E c \in ToSet(s.cases) : BreakS \in ToSet(c.body)
AnalyzeMember ==
  Asked("AnalyzeMember") /\ \E body \in Bodies :
    /\ \A i \in DOMAIN body : body[i].k = "while" => ~\E s \in ToSet(body[i].body) : HasBreak(s)
    /\ job' = [part |-> "flow", body |-> body]

Analyzed(body) ==
  F!AnalyzeMemberBody(F!Member("method", "m", FALSE, TRUE, body), F!Start)

\* The blocks of a body: itself and the blocks inside its statements.
RECURSIVE BlocksOf(_)
BlocksOf(body) ==
  {body} \cup UNION {CASE s.k \in {"if", "unless"} -> BlocksOf(s.then) \cup BlocksOf(s.else)
                       [] s.k \in {"while", "until", "for", "forin"} -> BlocksOf(s.body)
                       [] s.k = "switch" -> UNION {BlocksOf(c.body) : c \in ToSet(s.cases)}
                       [] s.k = "try" -> BlocksOf(s.body) \cup UNION {BlocksOf(c.body) : c \in ToSet(s.clauses)}
                       [] OTHER -> {} : s \in ToSet(body)}
Ends(stmts) == {r.end : r \in X!Block(stmts, 0, "E1")}

\* Part of FlowSound: a member that has to return a value and is accepted never runs off its end
\* (ReportMissingReturn), and code reported as unreachable is never reached
\* (AnalyzeStatementsBlock).
EndsReported ==
  job.part = "flow" =>
    LET errors == Analyzed(job.body).errors
    IN  /\ "missing return" \notin errors => "normal" \notin Ends(job.body)
        /\ "unreachable" \in errors =>
             \E b \in BlocksOf(job.body) : \E i \in 1..(Len(b) - 1) : "normal" \notin Ends(SubSeq(b, 1, i))

\* Part of FlowSound: what a method throws when it runs is in its effect summary, whatever try
\* statements, handlers and rethrows the exception passed (RecordThrow,
\* RecordCalleeEffects, PropagateEffects).
ThrowsSummarized ==
  job.part = "flow" =>
    LET st == Analyzed(job.body)
        f == [F!NoEffects(FALSE) EXCEPT !.mayThrow = TRUE, !.thrown = {{"E1"}}]
        all == F!PropagateEffects(("f" :> f) @@ st.effects, st.edges)
    IN  \A r \in X!ExecMethod(job.body) : r.end = "raise" => \E t \in all["m"].thrown : r.exc \in t

(***************************************************************************)
(* Call graphs of three methods, with cycles.                              *)
(***************************************************************************)
Links == {<<"m1", "m2">>, <<"m2", "m3">>, <<"m3", "m1">>, <<"m2", "m1">>}
Catching == {"none", "plain", "E1", "all"}
EdgesOf(link, awaited) ==
  {[caller |-> l[1], callee |-> l[2], all |-> link[l] = "all", awaited |-> awaited,
    types |-> IF link[l] = "E1" THEN {{"E1"}} ELSE {}] : l \in {k \in Links : link[k] # "none"}}
EffectsOf(asyncs) ==
  [m \in {"m1", "m2", "m3"} |->
    LET thrown == CASE m = "m3" -> {{"E1"}} [] m = "m1" -> {{"E2"}} [] OTHER -> {}
    IN  [async |-> m \in asyncs, mayThrow |-> thrown # {}, flags |-> IF m = "m3" THEN {"writes"} ELSE {},
         thrown |-> IF m \in asyncs THEN {} ELSE thrown, asyncThrown |-> IF m \in asyncs THEN thrown ELSE {}]]
SpreadEffects ==
  Asked("SpreadEffects") /\ \E link \in [Links -> Catching], asyncs \in SUBSET {"m1", "m2", "m3"}, awaited \in BOOLEAN :
    job' = [part |-> "effects", edges |-> EdgesOf(link, awaited), effects |-> EffectsOf(asyncs)]

\* The methods that reach one of "to" along edges of "over".
RECURSIVE Reaching(_, _)
Reaching(to, over) ==
  LET more == to \cup {x.caller : x \in {y \in over : y.callee \in to}}
  IN  IF more = to THEN to ELSE Reaching(more, over)
ThrownBy(e) == e.thrown \cup e.asyncThrown

\* Part of FlowSound: the effects of a method after PropagateEffects are exactly those of the
\* methods it reaches along calls, an exception only along calls that do not
\* catch it and that await an async method, also through recursion; each
\* exception a method inherits is warned about at one of its calls.
EffectsSpread ==
  job.part = "effects" =>
    LET all == F!PropagateEffects(job.effects, job.edges)
        warned == F!Warnings(all, job.edges)
        Lets(t) == {x \in job.edges : /\ ~x.all /\ t \notin x.types
                                      /\ job.effects[x.callee].async => x.awaited}
    IN  \A m \in DOMAIN all :
          /\ \A t \in {{"E1"}, {"E2"}} :
               /\ t \in ThrownBy(all[m])
                    <=> m \in Reaching({k \in DOMAIN all : t \in ThrownBy(job.effects[k])}, Lets(t))
               /\ t \in ThrownBy(all[m]) \ ThrownBy(job.effects[m])
                    => \E x \in job.edges : x.caller = m /\ <<x, t>> \in warned
          /\ "writes" \in all[m].flags <=> m \in Reaching({"m3"}, job.edges)

\* What FlowAnalyzer reports of a member is what its executions do: it ends only with a
\* value, reaches no code reported as unreachable and throws only what its summary
\* names, and summaries spread along calls exactly as exceptions do.
FlowSound == EndsReported /\ ThrowsSummarized /\ EffectsSpread
=============================================================================
