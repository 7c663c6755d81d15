---------------------------- MODULE Connectives ----------------------------
(***************************************************************************)
(* Scopes and their boolean phrases: the application nests any_of and      *)
(* all_of blocks around restrictions (dsl/scope.rb), connective.rb turns   *)
(* them into Lucene phrases, one filter query per component of the scope.  *)
(*                                                                         *)
(* A phrase is kept as its kind, whether a minus is in front, and the      *)
(* documents it matches without that minus.  What a list of phrases        *)
(* matches is Lucene's (external): parts with a minus are prohibited       *)
(* whatever the connector, and a list of nothing but prohibited parts      *)
(* matches nothing, except that Solr takes a whole filter query with a     *)
(* minus for "all but".                                                    *)
(*                                                                         *)
(* A component is kept as what the connective around it asks of it: its    *)
(* type, whether it is negated, and its phrase in either case.  A block    *)
(* is not changed after its end, so its phrases are fixed by then.         *)
(***************************************************************************)
EXTENDS Naturals, Sequences

CONSTANTS
    Fields,     \* fields of the documents
    Values,     \* values of a field
    None,       \* no value
    Tests,      \* kinds of restrictions: subset of {"equal", "nil", "empty"}
    MaxParts,   \* bound: restrictions in a scope
    MaxBlocks   \* bound: blocks in a scope

ASSUME ConstantsAssumption ==
    /\ None \notin Values
    /\ Tests \subseteq {"equal", "nil", "empty"}
    /\ MaxParts \in Nat
    /\ MaxBlocks \in Nat

VARIABLES
    frames,         \* the open connectives, the scope first
    restrictions,   \* restrictions added
    blocks          \* blocks opened

vars == <<frames, restrictions, blocks>>

Documents == [Fields -> Values \cup {None}]

-----------------------------------------------------------------------------
(* Phrases.                                                                *)

Some(docs, minus) == [kind |-> "phrase", minus |-> minus, docs |-> docs]

Nothing == [kind |-> "nothing", minus |-> FALSE, docs |-> {}]  \* nil
Broken == [kind |-> "broken", minus |-> FALSE, docs |-> {}]    \* a syntax error

Present(p) == p.kind = "phrase"

\* A filter query: none filters nothing, a broken one finds nothing.
Filters(p, doc) == p = Nothing \/ (Present(p) /\ (doc \in p.docs) # p.minus)

Matches(connector, phrases) ==
    LET Has(i, doc) == doc \in phrases[i].docs
        required == {i \in DOMAIN phrases : ~phrases[i].minus}
        prohibited == DOMAIN phrases \ required
    IN  {doc \in Documents :
            /\ \A i \in prohibited : ~Has(i, doc)
            /\ \E i \in required : Has(i, doc)
            /\ connector = "AND" => \A i \in required : Has(i, doc)}

Joined(connector, phrases) ==
    IF \A i \in DOMAIN phrases : Present(phrases[i])
    THEN Some(Matches(connector, phrases), FALSE)
    ELSE Broken

\* A minus in front of a phrase that is there and has none yet.
Minus(p) == IF Present(p) /\ ~p.minus THEN Some(p.docs, TRUE) ELSE Broken

-----------------------------------------------------------------------------
(* Components.  The last two fields are for the properties: the documents  *)
(* a component describes, and whether it is one they speak of.             *)

\* negated? of a connective and of a restriction: with(field, nil) is the
\* negation of "has a value", and an empty list is never negated.
Negated(c) ==
    CASE c.type = "nil" -> ~c.negated
      [] c.type = "empty" -> FALSE
      [] OTHER -> c.negated

Negate(c) == [c EXCEPT !.negated = ~@]

\* to_boolean_phrase of a component.
Phrase(c) == c.phrases[c.negated]

\* with(field, value), with(field, nil), with(field).any_of([]), or without.
Restrictions == [type : Tests, field : Fields, value : Values, negated : BOOLEAN]

Term(r) ==
    LET test == IF r.type = "equal" THEN {r.value} ELSE Values
    IN  Some({doc \in Documents : doc[r.field] \in test}, Negated(r))

\* A restriction describes what it matches when it stands alone.
Restriction(r) ==
    [type |-> r.type, negated |-> r.negated,
     phrases |-> [negated \in BOOLEAN |-> Term([r EXCEPT !.negated = negated])],
     means |-> {doc \in Documents : Filters(Term(r), doc)},
     regular |-> TRUE]

AnyNegated(parts) == \E i \in DOMAIN parts : Negated(parts[i])

\* Seeded fault: the components are not negated with their connective.
DenormalizedOutside(parts) == parts

\* The components of a denormalised disjunction, by De Morgan.
Denormalized(parts) == [i \in DOMAIN parts |-> Negate(parts[i])]

Listed(connector, phrases) ==
    IF Len(phrases) = 1 THEN phrases[1] ELSE Joined(connector, phrases)

ListPhrase(connector, negated, parts) ==
    LET phrase == Listed(connector, [i \in DOMAIN parts |-> Phrase(parts[i])])
    IN  IF parts = << >> THEN Nothing
        ELSE IF negated THEN Minus(phrase)
        ELSE phrase

ConnectivePhrase(type, negated, parts) ==
    IF type = "all" THEN ListPhrase("AND", negated, parts)
    ELSE IF AnyNegated(parts) THEN ListPhrase("AND", ~negated, Denormalized(parts))
    ELSE ListPhrase("OR", negated, parts)

Described(type, parts) ==
    {doc \in Documents :
        IF type = "any" THEN \E i \in DOMAIN parts : doc \in parts[i].means
        ELSE \A i \in DOMAIN parts : doc \in parts[i].means}

(***************************************************************************)
(* What is left out of the properties, because it goes wrong: a block that *)
(* is empty inside another one; an all_of inside an any_of of which every  *)
(* part gets a minus; and an empty list next to a negated part.            *)
(***************************************************************************)
Regular(type, parts) ==
    /\ parts # << >>
    /\ \A i \in DOMAIN parts : parts[i].regular
    /\ type = "all" => \E i \in DOMAIN parts : ~Phrase(parts[i]).minus
    /\ type = "any" /\ AnyNegated(parts) =>
         \A i \in DOMAIN parts : parts[i].type # "empty"

Connective(type, parts) ==
    [type |-> type, negated |-> FALSE,
     phrases |-> [negated \in BOOLEAN |-> ConnectivePhrase(type, negated, parts)],
     means |-> Described(type, parts),
     regular |-> Regular(type, parts)]

-----------------------------------------------------------------------------
(* Building a scope.  A frame is a connective under construction; shared   *)
(* says that the block belongs to the connective of the frame below.       *)

Frame(type, shared) == [type |-> type, shared |-> shared, parts |-> << >>]

Init ==
    /\ frames = <<Frame("all", FALSE)>>
    /\ restrictions = 0
    /\ blocks = 0

Top == frames[Len(frames)]

\* add_component, for the components of a list.
Added(frame, components) == [frame EXCEPT !.parts = @ \o components]

With(r) ==
    /\ restrictions < MaxParts
    /\ restrictions' = restrictions + 1
    /\ frames' = [frames EXCEPT ![Len(frames)] = Added(@, <<Restriction(r)>>)]
    /\ UNCHANGED blocks

\* add_disjunction and add_conjunction: a connective adds to itself what is of
\* its own kind.
Block(type) == Append(frames, Frame(type, Top.type = type))

Opens(type) ==
    /\ blocks < MaxBlocks
    /\ blocks' = blocks + 1
    /\ frames' = Block(type)
    /\ UNCHANGED restrictions

AnyOf == Opens("any")
AllOf == Opens("all")

\* The component a block leaves behind, or its parts, in the connective around it.
Left(frame) ==
    IF frame.shared THEN frame.parts ELSE <<Connective(frame.type, frame.parts)>>

EndBlock ==
    /\ Len(frames) > 1
    /\ frames' = Append(SubSeq(frames, 1, Len(frames) - 2),
                        Added(frames[Len(frames) - 1], Left(Top)))
    /\ UNCHANGED <<restrictions, blocks>>

Next ==
    \/ \E r \in Restrictions : With(r)
    \/ AnyOf
    \/ AllOf
    \/ EndBlock

Spec == Init /\ [][Next]_vars

-----------------------------------------------------------------------------
(* Properties.                                                             *)

\* The components of the scope: Scope#to_params makes one filter query of each.
Scope == Head(frames).parts

Found(doc) == \A i \in DOMAIN Scope : Filters(Phrase(Scope[i]), doc)

\* An empty block in the scope itself is ignored.
Ordinary == \A i \in DOMAIN Scope : Scope[i].regular \/ Phrase(Scope[i]) = Nothing

Means ==
    \A doc \in Documents :
        Found(doc) <=> \A i \in DOMAIN Scope :
            Phrase(Scope[i]) = Nothing \/ doc \in Scope[i].means

\* dsl/scope.rb, any_of and all_of: the filter queries of a scope find the
\* documents that match any, or all, of the enclosed restrictions, whatever is
\* negated at whatever depth.
PhraseMeans == Ordinary => Means
=============================================================================
