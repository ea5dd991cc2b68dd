--------------------------- MODULE AgentExecution ---------------------------
(***************************************************************************)
(* Taking a proposal and taking it back.  Each is one transaction: the     *)
(* focus of the day, the proposal and the receipt in the ledger.           *)
(***************************************************************************)
EXTENDS AgentStore

\* The ledger knows the request; it is answered from the ledger.
Known(o) == ledger[o] # NoRow

\* Mutant. The revision of the planner is not compared with the snapshot.
ExecutableDespiteEdits(p) ==
    /\ p \in ReadyProposals /\ snap[p[1]] # NoRow
    /\ LET s == snap[p[1]] IN
       /\ s.date = Date /\ s.zone = pref.zone
       /\ s.ver.epoch = ver.epoch /\ s.gen = gen
       /\ ctx[s.ctx] # NoRow /\ ctx[s.ctx].rev = s.rev
       /\ s.pref = pref.rev

\* Nothing the proposal was made from has changed, the planner included.
Executable(p) ==
    /\ p \in ReadyProposals /\ snap[p[1]] # NoRow
    /\ LET s == snap[p[1]] IN
       /\ s.date = Date /\ s.zone = pref.zone
       /\ s.ver = ver /\ s.gen = gen
       /\ ctx[s.ctx] # NoRow /\ ctx[s.ctx].rev = s.rev
       /\ s.pref = pref.rev

\* The focus of today becomes `chosen`; operation o is recorded with both sides.
ReplaceFocus(o, action, chosen) ==
    LET changed == focus[Date] # chosen
    IN  /\ ver' = IF changed THEN [ver EXCEPT !.rev = @ + 1] ELSE ver
        /\ focus' = [focus EXCEPT ![Date] = chosen]
        /\ ledger' = [ledger EXCEPT ![o] =
             [action |-> action, changed |-> changed, after |-> ver', gen |-> gen,
              date |-> Date, zone |-> pref.zone, before |-> focus[Date], final |-> chosen]]
        /\ moved' = (IF changed THEN OpIds ELSE moved) \ {o}
        /\ touched' = IF changed THEN Runs ELSE touched
        /\ executed' = [executed EXCEPT ![o] = @ + 1]

\* The user may change the choice within the limits of the day.
ValidSelection(s, chosen) ==
    /\ ~s.in.rest
    /\ Cardinality(chosen) <= s.in.capacity
    /\ s.in.required \subseteq chosen
    /\ chosen \subseteq (s.candidates \cap open) \ s.in.blocked

Apply(o, p, chosen) ==
    /\ ~Known(o) /\ Executable(p)
    /\ chosen # {} /\ ValidSelection(snap[p[1]], chosen)
    /\ ver.rev < MaxRev
    /\ ReplaceFocus(o, "apply", chosen)
    /\ prop' = [prop EXCEPT ![p].life = "applied"]
    /\ UNCHANGED <<gen, pref, clock, ctx, open, run, snap, request>>

\* Mutant. The focus alone tells whether an operation can be taken back.
CanRevertByFocus(o) ==
    /\ Known(o) /\ ledger[o].action = "apply" /\ ledger[o].changed
    /\ ledger[o].date = Date
    /\ focus[Date] = ledger[o].final

\* The day, the planner and the agent are as the operation left them.
CanRevert(o) ==
    /\ Known(o) /\ ledger[o].action = "apply" /\ ledger[o].changed
    /\ ledger[o].gen = gen
    /\ ledger[o].zone = pref.zone /\ ledger[o].date = Date
    /\ ledger[o].after = ver
    /\ focus[Date] = ledger[o].final

Revert(o, target) ==
    /\ ~Known(o) /\ CanRevert(target)
    /\ ver.rev < MaxRev
    /\ ReplaceFocus(o, "revert", ledger[target].before)
    /\ UNCHANGED <<gen, pref, clock, ctx, open, run, snap, prop, request>>

ExecutionStep ==
    \E o \in OpIds :
        \/ \E p \in ProposalIds, chosen \in SUBSET Tasks : Apply(o, p, chosen)
        \/ \E target \in OpIds : Revert(o, target)
=============================================================================
