------------------------- MODULE ConnectivesProofs -------------------------
(***************************************************************************)
(* Theorems about the phrases of Connectives, for any fields, values and   *)
(* bounds: a scope finds the documents its blocks describe.                *)
(***************************************************************************)
EXTENDS Connectives, SequenceTheorems, TLAPS

Phrases == [kind : {"phrase", "nothing", "broken"}, minus : BOOLEAN, docs : SUBSET Documents]

Components == [type : {"any", "all", "equal", "nil", "empty"}, negated : BOOLEAN,
               phrases : [BOOLEAN -> Phrases], means : SUBSET Documents, regular : BOOLEAN]

Frames == [type : {"any", "all"}, shared : BOOLEAN, parts : Seq(Components)]

\* A document a phrase finds when it is a filter of its own.
Selects(p, doc) == (doc \in p.docs) # p.minus

Finds(p, docs) == Present(p) /\ \A doc \in Documents : Selects(p, doc) <=> doc \in docs

\* Its phrase finds what it describes, and what its negation finds is the rest;
\* the negation of an empty list says the same as the list, and a disjunction
\* is never a component that is negated.
Sound(c) ==
    /\ Finds(Phrase(c), c.means)
    /\ c.type # "any" => (Phrase(c).minus <=> Negated(c))
    /\ c.type \notin {"any", "empty"} =>
         /\ Finds(Phrase(Negate(c)), Documents \ c.means)
         /\ Phrase(Negate(c)).minus <=> ~Negated(c)

WellFormed(c) ==
    /\ c.regular => Sound(c)
    /\ c.type \in {"any", "all"} => ~c.negated
    /\ c.type \notin {"any", "all"} => Present(Phrase(c))

\* The frame at a position of the stack: a block of the kind of the connective
\* around it is no component of its own, so a disjunction has none in it.
FrameOf(stack, n) ==
    /\ stack[n].shared <=> n > 1 /\ stack[n].type = stack[n - 1].type
    /\ \A i \in DOMAIN stack[n].parts :
         /\ WellFormed(stack[n].parts[i])
         /\ stack[n].type = "any" => stack[n].parts[i].type # "any"

StackOK(stack) ==
    /\ stack \in Seq(Frames)
    /\ stack # << >>
    /\ \A n \in DOMAIN stack : FrameOf(stack, n)

PhrasesInv == StackOK(frames)

-----------------------------------------------------------------------------
(* The types of phrases and components.                                    *)

LEMMA SomeType ==
    ASSUME NEW docs \in SUBSET Documents, NEW minus \in BOOLEAN
    PROVE  /\ Some(docs, minus) \in Phrases
           /\ Present(Some(docs, minus))
           /\ Some(docs, minus).minus = minus
           /\ Some(docs, minus).docs = docs
  BY DEF Some, Phrases, Present

LEMMA PhraseMinus == \A p \in Phrases : p.minus \in BOOLEAN
  BY DEF Phrases

LEMMA NothingType == Nothing \in Phrases /\ Broken \in Phrases /\ ~Present(Nothing) /\ Nothing.minus = FALSE
  BY DEF Nothing, Broken, Phrases, Present

LEMMA MatchesType ==
    ASSUME NEW connector, NEW phrases
    PROVE  Matches(connector, phrases) \in SUBSET Documents
  BY DEF Matches

LEMMA ListedType ==
    ASSUME NEW connector, NEW phrases \in Seq(Phrases), phrases # << >>
    PROVE  Listed(connector, phrases) \in Phrases
  <1>1. CASE Len(phrases) = 1
    <2>1. phrases[1] \in Phrases
      BY <1>1
    <2> QED  BY <1>1, <2>1 DEF Listed
  <1>2. CASE Len(phrases) # 1
    BY <1>2, SomeType, MatchesType, NothingType DEF Listed, Joined
  <1> QED  BY <1>1, <1>2

LEMMA MinusType ==
    ASSUME NEW p \in Phrases
    PROVE  /\ Minus(p) \in Phrases
           /\ Present(p) /\ ~p.minus =>
                Present(Minus(p)) /\ Minus(p).minus /\ Minus(p).docs = p.docs
  <1>1. p.docs \in SUBSET Documents
    BY DEF Phrases
  <1> QED  BY <1>1, SomeType, NothingType DEF Minus

LEMMA PhraseType ==
    ASSUME NEW c \in Components
    PROVE  /\ Phrase(c) \in Phrases
           /\ Negate(c) \in Components
           /\ Phrase(Negate(c)) \in Phrases
           /\ Negate(c).type = c.type
           /\ Negate(c).negated = ~c.negated
           /\ Phrase(Negate(c)) = c.phrases[~c.negated]
  BY DEF Components, Phrase, Negate

\* The phrases of a list of components.
PhrasesOf(parts) == [i \in DOMAIN parts |-> Phrase(parts[i])]

LEMMA PhrasesOfType ==
    ASSUME NEW parts \in Seq(Components)
    PROVE  /\ PhrasesOf(parts) \in Seq(Phrases)
           /\ DOMAIN PhrasesOf(parts) = DOMAIN parts
           /\ Len(PhrasesOf(parts)) = Len(parts)
           /\ (PhrasesOf(parts) = << >>) <=> (parts = << >>)
           /\ \A i \in DOMAIN parts : PhrasesOf(parts)[i] = Phrase(parts[i])
  <1>1. \A i \in 1 .. Len(parts) : Phrase(parts[i]) \in Phrases
    BY PhraseType
  <1>2. /\ Len(parts) \in Nat
        /\ DOMAIN parts = 1 .. Len(parts)
    OBVIOUS
  <1> DEFINE F == [i \in 1 .. Len(parts) |-> Phrase(parts[i])]
  <1>3. F \in Seq(Phrases) /\ Len(F) = Len(parts) /\ DOMAIN F = 1 .. Len(parts)
    BY <1>1, <1>2
  <1>4. PhrasesOf(parts) = F
    BY <1>2 DEF PhrasesOf
  <1> QED  BY <1>2, <1>3, <1>4, EmptySeq DEF PhrasesOf

LEMMA DenormalizedType ==
    ASSUME NEW parts \in Seq(Components)
    PROVE  /\ Denormalized(parts) \in Seq(Components)
           /\ DOMAIN Denormalized(parts) = DOMAIN parts
           /\ (Denormalized(parts) = << >>) <=> (parts = << >>)
           /\ \A i \in DOMAIN parts : Denormalized(parts)[i] = Negate(parts[i])
  <1>1. \A i \in 1 .. Len(parts) : Negate(parts[i]) \in Components
    BY PhraseType
  <1>2. /\ Len(parts) \in Nat
        /\ DOMAIN parts = 1 .. Len(parts)
    OBVIOUS
  <1> DEFINE F == [i \in 1 .. Len(parts) |-> Negate(parts[i])]
  <1>3. F \in Seq(Components) /\ Len(F) = Len(parts) /\ DOMAIN F = 1 .. Len(parts)
    BY <1>1, <1>2
  <1>4. Denormalized(parts) = F
    BY <1>2 DEF Denormalized
  <1> QED  BY <1>2, <1>3, <1>4, EmptySeq DEF Denormalized

LEMMA ListPhraseIs ==
    ASSUME NEW connector, NEW negated, NEW parts
    PROVE  ListPhrase(connector, negated, parts) =
             IF parts = << >> THEN Nothing
             ELSE IF negated THEN Minus(Listed(connector, PhrasesOf(parts)))
             ELSE Listed(connector, PhrasesOf(parts))
  BY DEF ListPhrase, PhrasesOf

LEMMA ListPhraseType ==
    ASSUME NEW connector, NEW negated \in BOOLEAN, NEW parts \in Seq(Components)
    PROVE  ListPhrase(connector, negated, parts) \in Phrases
  <1>1. CASE parts = << >>
    BY <1>1, ListPhraseIs, NothingType
  <1>2. CASE parts # << >>
    <2>1. Listed(connector, PhrasesOf(parts)) \in Phrases
      BY <1>2, PhrasesOfType, ListedType
    <2> QED  BY <1>2, <2>1, ListPhraseIs, MinusType
  <1> QED  BY <1>1, <1>2

LEMMA ConnectivePhraseType ==
    ASSUME NEW type \in {"any", "all"}, NEW negated \in BOOLEAN, NEW parts \in Seq(Components)
    PROVE  ConnectivePhrase(type, negated, parts) \in Phrases
  BY ListPhraseType, DenormalizedType DEF ConnectivePhrase

LEMMA ConnectiveType ==
    ASSUME NEW type \in {"any", "all"}, NEW parts \in Seq(Components)
    PROVE  /\ Connective(type, parts) \in Components
           /\ Connective(type, parts).type = type
           /\ Connective(type, parts).negated = FALSE
           /\ Connective(type, parts).means = Described(type, parts)
           /\ Connective(type, parts).regular = Regular(type, parts)
           /\ Phrase(Connective(type, parts)) = ConnectivePhrase(type, FALSE, parts)
           /\ Phrase(Negate(Connective(type, parts))) = ConnectivePhrase(type, TRUE, parts)
  <1> DEFINE P == [negated \in BOOLEAN |-> ConnectivePhrase(type, negated, parts)]
  <1>1. P \in [BOOLEAN -> Phrases]
    BY ConnectivePhraseType
  <1>2. Described(type, parts) \in SUBSET Documents
    BY DEF Described
  <1>3. Regular(type, parts) \in BOOLEAN
    BY Zenon DEF Regular
  <1>4. Connective(type, parts) =
          [type |-> type, negated |-> FALSE, phrases |-> P,
           means |-> Described(type, parts), regular |-> Regular(type, parts)]
    BY DEF Connective
  <1>5. P[FALSE] = ConnectivePhrase(type, FALSE, parts) /\ P[TRUE] = ConnectivePhrase(type, TRUE, parts)
    OBVIOUS
  <1> HIDE DEF P
  <1>6. Connective(type, parts) \in Components
    BY <1>1, <1>2, <1>3, <1>4 DEF Components
  <1>7. /\ Connective(type, parts).type = type
        /\ Connective(type, parts).negated = FALSE
        /\ Connective(type, parts).means = Described(type, parts)
        /\ Connective(type, parts).regular = Regular(type, parts)
        /\ Connective(type, parts).phrases = P
    BY <1>4
  <1>8. Phrase(Connective(type, parts)) = P[FALSE]
    BY <1>7 DEF Phrase
  <1>9. Phrase(Negate(Connective(type, parts))) = P[TRUE]
    BY <1>6, <1>7, PhraseType
  <1> QED  BY <1>5, <1>6, <1>7, <1>8, <1>9

-----------------------------------------------------------------------------
(* What lists of phrases find.                                             *)

LEMMA Elements ==
    ASSUME NEW T, NEW list \in Seq(T)
    PROVE  /\ \A i \in DOMAIN list : list[i] \in T
           /\ list # << >> => 1 \in DOMAIN list
           /\ Len(list) = 1 => DOMAIN list = {1}
  BY EmptySeq

\* A conjunction with a part that has no minus finds what every part finds,
\* and has no minus.
LEMMA ConjunctionFinds ==
    ASSUME NEW phrases \in Seq(Phrases), phrases # << >>,
           \A i \in DOMAIN phrases : Present(phrases[i]),
           \E i \in DOMAIN phrases : ~phrases[i].minus
    PROVE  LET p == Listed("AND", phrases)
           IN  /\ Present(p)
               /\ ~p.minus
               /\ \A doc \in Documents :
                    doc \in p.docs <=> \A i \in DOMAIN phrases : Selects(phrases[i], doc)
  <1>1. \A i \in DOMAIN phrases : phrases[i].minus \in BOOLEAN
    BY Elements, PhraseMinus
  <1>2. CASE Len(phrases) = 1
    <2>1. DOMAIN phrases = {1} /\ Listed("AND", phrases) = phrases[1]
      BY <1>2, Elements DEF Listed
    <2> QED  BY <1>1, <2>1 DEF Selects
  <1>3. CASE Len(phrases) # 1
    <2>1. Listed("AND", phrases) = Some(Matches("AND", phrases), FALSE)
      BY <1>3 DEF Listed, Joined
    <2>2. ASSUME NEW doc \in Documents
          PROVE  doc \in Matches("AND", phrases)
                   <=> \A i \in DOMAIN phrases : Selects(phrases[i], doc)
      <3>1. PICK k \in DOMAIN phrases : ~phrases[k].minus
        OBVIOUS
      <3>2. ASSUME doc \in Matches("AND", phrases), NEW i \in DOMAIN phrases
            PROVE  Selects(phrases[i], doc)
        BY <1>1, <3>2 DEF Matches, Selects
      <3>3. ASSUME \A i \in DOMAIN phrases : Selects(phrases[i], doc)
            PROVE  doc \in Matches("AND", phrases)
        <4>1. \A i \in DOMAIN phrases :
                 (doc \in phrases[i].docs) <=> ~phrases[i].minus
          BY <1>1, <3>3 DEF Selects
        <4> QED  BY <3>1, <4>1 DEF Matches
      <3> QED  BY <3>2, <3>3
    <2> QED  BY <2>1, <2>2, MatchesType, SomeType
  <1> QED  BY <1>2, <1>3

\* A disjunction of phrases without a minus finds what some part finds.
LEMMA DisjunctionFinds ==
    ASSUME NEW phrases \in Seq(Phrases), phrases # << >>,
           \A i \in DOMAIN phrases : Present(phrases[i]) /\ ~phrases[i].minus
    PROVE  LET p == Listed("OR", phrases)
           IN  /\ Present(p)
               /\ ~p.minus
               /\ \A doc \in Documents :
                    doc \in p.docs <=> \E i \in DOMAIN phrases : Selects(phrases[i], doc)
  <1>1. \A i \in DOMAIN phrases : phrases[i].minus \in BOOLEAN
    BY Elements, PhraseMinus
  <1>2. CASE Len(phrases) = 1
    <2>1. DOMAIN phrases = {1} /\ Listed("OR", phrases) = phrases[1]
      BY <1>2, Elements DEF Listed
    <2> QED  BY <1>1, <2>1 DEF Selects
  <1>3. CASE Len(phrases) # 1
    <2>1. Listed("OR", phrases) = Some(Matches("OR", phrases), FALSE)
      BY <1>3 DEF Listed, Joined
    <2>2. ASSUME NEW doc \in Documents
          PROVE  doc \in Matches("OR", phrases)
                   <=> \E i \in DOMAIN phrases : Selects(phrases[i], doc)
      <3>1. \A i \in DOMAIN phrases :
               Selects(phrases[i], doc) <=> doc \in phrases[i].docs
        BY <1>1 DEF Selects
      <3> QED  BY <3>1 DEF Matches
    <2> QED  BY <2>1, <2>2, MatchesType, SomeType
  <1> QED  BY <1>2, <1>3

LEMMA PlainSelects ==
    ASSUME NEW p \in Phrases, ~p.minus
    PROVE  \A doc \in Documents : Selects(p, doc) <=> doc \in p.docs
  BY PhraseMinus DEF Selects

\* A minus in front of a phrase turns what it finds into the rest.
LEMMA MinusFinds ==
    ASSUME NEW p \in Phrases, Present(p), ~p.minus
    PROVE  /\ Present(Minus(p))
           /\ Minus(p).minus
           /\ \A doc \in Documents : Selects(Minus(p), doc) <=> doc \notin p.docs
  <1>1. Minus(p) \in Phrases /\ Present(Minus(p)) /\ Minus(p).minus /\ Minus(p).docs = p.docs
    BY MinusType
  <1>2. Minus(p).minus = TRUE
    BY <1>1, PhraseMinus
  <1> QED  BY <1>1, <1>2 DEF Selects

-----------------------------------------------------------------------------
(* What components find.                                                   *)

LEMMA NegatedType ==
    ASSUME NEW c, c.negated \in BOOLEAN
    PROVE  Negated(c) \in BOOLEAN
  BY DEF Negated

LEMMA TermFinds ==
    ASSUME NEW r \in Restrictions
    PROVE  LET term == Term(r)
           IN  /\ term \in Phrases
               /\ Present(term)
               /\ term.minus = Negated(r)
               /\ term.docs = {doc \in Documents :
                     doc[r.field] \in (IF r.type = "equal" THEN {r.value} ELSE Values)}
  <1>1. Negated(r) \in BOOLEAN
    BY NegatedType DEF Restrictions
  <1> QED  BY <1>1, SomeType DEF Term

LEMMA RestrictionSound ==
    ASSUME NEW r \in Restrictions
    PROVE  LET c == Restriction(r)
           IN  /\ c \in Components
               /\ c.type \notin {"any", "all"}
               /\ WellFormed(c)
  <1> DEFINE Under(negated) == [r EXCEPT !.negated = negated]
             P == [negated \in BOOLEAN |-> Term([r EXCEPT !.negated = negated])]
             M == {doc \in Documents : Filters(Term(r), doc)}
             c == Restriction(r)
  <1>1. \A negated \in BOOLEAN :
           /\ Under(negated) \in Restrictions
           /\ Under(negated).type = r.type
           /\ Under(negated).field = r.field
           /\ Under(negated).value = r.value
           /\ Under(negated).negated = negated
    BY DEF Restrictions
  <1>2. r.negated \in BOOLEAN /\ Under(r.negated) = r /\ r.type \in {"equal", "nil", "empty"}
    BY ConstantsAssumption DEF Restrictions
  <1>3. P \in [BOOLEAN -> Phrases]
    BY <1>1, TermFinds
  <1>4. c = [type |-> r.type, negated |-> r.negated, phrases |-> P, means |-> M, regular |-> TRUE]
    BY DEF Restriction
  <1>5. c \in Components
    BY <1>2, <1>3, <1>4 DEF Components
  <1>6. Phrase(c) = P[r.negated] /\ P[r.negated] = Term(r)
    BY <1>2, <1>4 DEF Phrase
  <1>7. Phrase(Negate(c)) = Term(Under(~r.negated))
    <2> HIDE DEF P, c
    <2>1. c.phrases = P /\ c.negated = r.negated
      BY <1>4
    <2>2. Phrase(Negate(c)) = P[~r.negated]
      BY <1>5, <2>1, PhraseType
    <2> QED  BY <1>2, <2>2 DEF P
  <1>8. c.type = r.type /\ c.negated = r.negated /\ c.means = M /\ c.regular
    BY <1>4
  <1>9. Negated(c) = Negated(r)
    BY <1>8 DEF Negated
  <1>10. /\ Term(r) \in Phrases /\ Present(Term(r)) /\ Term(r).minus = Negated(r)
         /\ Term(Under(~r.negated)) \in Phrases
         /\ Present(Term(Under(~r.negated)))
         /\ Term(Under(~r.negated)).minus = Negated(Under(~r.negated))
         /\ Term(Under(~r.negated)).docs = Term(r).docs
    <2>0. (~r.negated) \in BOOLEAN
      BY <1>2
    <2>1. Under(~r.negated) \in Restrictions
      BY <1>1, <2>0
    <2>2. /\ Under(~r.negated).type = r.type
          /\ Under(~r.negated).field = r.field
          /\ Under(~r.negated).value = r.value
      BY <1>1, <1>2
    <2> HIDE DEF Under
    <2>3. Term(r) \in Phrases /\ Present(Term(r)) /\ Term(r).minus = Negated(r)
      BY TermFinds
    <2>4. /\ Term(Under(~r.negated)) \in Phrases
          /\ Present(Term(Under(~r.negated)))
          /\ Term(Under(~r.negated)).minus = Negated(Under(~r.negated))
      BY <2>1, TermFinds
    <2>5. Term(Under(~r.negated)).docs = Term(r).docs
      <3>1. Term(r).docs = {doc \in Documents :
              doc[r.field] \in (IF r.type = "equal" THEN {r.value} ELSE Values)}
        BY TermFinds
      <3>2. \A u \in Restrictions : Term(u).docs = {doc \in Documents :
              doc[u.field] \in (IF u.type = "equal" THEN {u.value} ELSE Values)}
        BY TermFinds
      <3>3. PICK u \in Restrictions : u = Under(~r.negated)
        BY <2>1
      <3>4. u.type = r.type /\ u.field = r.field /\ u.value = r.value
        BY <2>2, <3>3
      <3>5. Term(u).docs = {doc \in Documents :
              doc[r.field] \in (IF r.type = "equal" THEN {r.value} ELSE Values)}
        BY <3>2, <3>4
      <3> QED  BY <3>1, <3>3, <3>5
    <2> QED  BY <2>3, <2>4, <2>5
  <1>11. \A doc \in Documents : doc \in M <=> Selects(Term(r), doc)
    <2>1. Term(r) # Nothing
      BY <1>10, NothingType
    <2> QED  BY <1>10, <2>1 DEF Filters, Selects
  <1>12. r.type # "empty" => Negated(Under(~r.negated)) = ~Negated(r)
    BY <1>1, <1>2 DEF Negated
  <1>13. Negated(r) \in BOOLEAN
    BY <1>2, NegatedType
  <1> HIDE DEF Under, P, M, c
  <1>14. Finds(Phrase(c), c.means)
    BY <1>6, <1>8, <1>10, <1>11 DEF Finds
  <1>15. Phrase(c).minus <=> Negated(c)
    BY <1>6, <1>9, <1>10
  <1>16. ASSUME r.type # "empty"
         PROVE  /\ Finds(Phrase(Negate(c)), Documents \ c.means)
                /\ Phrase(Negate(c)).minus <=> ~Negated(c)
    <2>1. Phrase(Negate(c)).minus <=> ~Negated(c)
      BY <1>7, <1>9, <1>10, <1>12, <1>16
    <2>2. ASSUME NEW doc \in Documents
          PROVE  Selects(Phrase(Negate(c)), doc) <=> doc \notin c.means
      BY <1>7, <1>8, <1>10, <1>11, <1>12, <1>13, <1>16 DEF Selects
    <2> QED  BY <1>7, <1>10, <2>1, <2>2 DEF Finds
  <1>17. Sound(c)
    BY <1>8, <1>14, <1>15, <1>16 DEF Sound
  <1> QED  BY <1>2, <1>5, <1>6, <1>8, <1>10, <1>17 DEF WellFormed, c

\* The phrase of an all_of block finds what all its components describe.
LEMMA ConjunctionSound ==
    ASSUME NEW parts \in Seq(Components),
           \A i \in DOMAIN parts : WellFormed(parts[i]),
           Regular("all", parts)
    PROVE  Sound(Connective("all", parts))
  <1> DEFINE c == Connective("all", parts)
             phrases == PhrasesOf(parts)
             p == Listed("AND", phrases)
  <1>1. /\ c \in Components /\ c.type = "all" /\ c.negated = FALSE
        /\ c.means = Described("all", parts)
        /\ Phrase(c) = ConnectivePhrase("all", FALSE, parts)
        /\ Phrase(Negate(c)) = ConnectivePhrase("all", TRUE, parts)
    BY ConnectiveType
  <1>2. \A i \in DOMAIN parts : Finds(Phrase(parts[i]), parts[i].means)
    BY DEF Regular, WellFormed, Sound
  <1>3. parts # << >> /\ \E i \in DOMAIN parts : ~Phrase(parts[i]).minus
    BY DEF Regular
  <1>4. Phrase(c) = p /\ Phrase(Negate(c)) = Minus(p)
    BY <1>1, <1>3, ListPhraseIs DEF ConnectivePhrase
  <1>5. /\ phrases \in Seq(Phrases) /\ phrases # << >>
        /\ DOMAIN phrases = DOMAIN parts
        /\ \A i \in DOMAIN parts : phrases[i] = Phrase(parts[i])
    BY <1>3, PhrasesOfType
  <1> HIDE DEF c, phrases
  <1>6. \A i \in DOMAIN phrases : Present(phrases[i])
    BY <1>2, <1>5 DEF Finds
  <1>7. \E i \in DOMAIN phrases : ~phrases[i].minus
    BY <1>3, <1>5
  <1>8. /\ Present(p) /\ ~p.minus
        /\ \A doc \in Documents :
             doc \in p.docs <=> \A i \in DOMAIN phrases : Selects(phrases[i], doc)
    BY <1>5, <1>6, <1>7, ConjunctionFinds
  <1>9. p \in Phrases
    BY <1>5, ListedType
  <1> HIDE DEF p
  <1>10. \A doc \in Documents : doc \in p.docs <=> doc \in c.means
    <2> TAKE doc \in Documents
    <2>1. doc \in p.docs <=> \A i \in DOMAIN parts : doc \in parts[i].means
      BY <1>2, <1>5, <1>8 DEF Finds
    <2> QED  BY <1>1, <2>1 DEF Described
  <1>11. \A doc \in Documents : Selects(p, doc) <=> doc \in p.docs
    BY <1>8, <1>9, PlainSelects
  <1>12. Finds(Phrase(c), c.means)
    BY <1>4, <1>8, <1>10, <1>11 DEF Finds
  <1>13. /\ Finds(Phrase(Negate(c)), Documents \ c.means)
         /\ Phrase(Negate(c)).minus
    <2>1. /\ Present(Minus(p)) /\ Minus(p).minus
          /\ \A doc \in Documents : Selects(Minus(p), doc) <=> doc \notin p.docs
      BY <1>8, <1>9, MinusFinds
    <2> QED  BY <1>4, <1>10, <2>1 DEF Finds
  <1>14. ~Negated(c)
    BY <1>1 DEF Negated
  <1> QED  BY <1>1, <1>4, <1>8, <1>12, <1>13, <1>14 DEF Sound, c

\* The phrase of an any_of block finds what some component of it describes: as
\* a list of alternatives, or denormalised when a component is negated.
LEMMA DisjunctionSound ==
    ASSUME NEW parts \in Seq(Components),
           \A i \in DOMAIN parts : WellFormed(parts[i]) /\ parts[i].type # "any",
           Regular("any", parts)
    PROVE  Sound(Connective("any", parts))
  <1> DEFINE c == Connective("any", parts)
  <1>1. /\ c.type = "any"
        /\ c.means = Described("any", parts)
        /\ Phrase(c) = ConnectivePhrase("any", FALSE, parts)
    BY ConnectiveType
  <1> HIDE DEF c
  <1>2. \A i \in DOMAIN parts : parts[i] \in Components /\ Sound(parts[i])
    BY Elements DEF Regular, WellFormed
  <1>3. parts # << >>
    BY DEF Regular
  <1> SUFFICES Finds(Phrase(c), c.means)
    BY <1>1 DEF Sound, c
  <1>4. CASE ~AnyNegated(parts)
    <2> DEFINE phrases == PhrasesOf(parts)
               p == Listed("OR", phrases)
    <2>1. Phrase(c) = p
      BY <1>1, <1>3, <1>4, ListPhraseIs DEF ConnectivePhrase
    <2>2. /\ phrases \in Seq(Phrases) /\ phrases # << >>
          /\ DOMAIN phrases = DOMAIN parts
          /\ \A i \in DOMAIN parts : phrases[i] = Phrase(parts[i])
      BY <1>3, PhrasesOfType
    <2> HIDE DEF phrases
    <2>3. \A i \in DOMAIN parts :
             /\ Finds(phrases[i], parts[i].means)
             /\ ~phrases[i].minus
      BY <1>2, <1>4, <2>2 DEF Sound, AnyNegated
    <2>4. \A i \in DOMAIN phrases : Present(phrases[i]) /\ ~phrases[i].minus
      BY <2>2, <2>3 DEF Finds
    <2>5. /\ Present(p) /\ ~p.minus
          /\ \A doc \in Documents :
               doc \in p.docs <=> \E i \in DOMAIN phrases : Selects(phrases[i], doc)
      BY <2>2, <2>4, DisjunctionFinds
    <2>6. p \in Phrases
      BY <2>2, ListedType
    <2> HIDE DEF p
    <2>7. \A doc \in Documents : Selects(p, doc) <=> doc \in c.means
      <3> TAKE doc \in Documents
      <3>1. doc \in p.docs <=> \E i \in DOMAIN parts : doc \in parts[i].means
        BY <2>2, <2>3, <2>5 DEF Finds
      <3>2. Selects(p, doc) <=> doc \in p.docs
        BY <2>5, <2>6, PlainSelects
      <3> QED  BY <1>1, <3>1, <3>2 DEF Described
    <2> QED  BY <2>1, <2>5, <2>7 DEF Finds
  <1>5. CASE AnyNegated(parts)
    <2> DEFINE inner == Denormalized(parts)
               phrases == PhrasesOf(inner)
               p == Listed("AND", phrases)
    <2>1. /\ inner \in Seq(Components) /\ inner # << >>
          /\ DOMAIN inner = DOMAIN parts
          /\ \A i \in DOMAIN parts : inner[i] = Negate(parts[i])
      BY <1>3, DenormalizedType
    <2>2. Phrase(c) = Minus(p)
      BY <1>1, <1>5, <2>1, ListPhraseIs DEF ConnectivePhrase
    <2> HIDE DEF inner
    <2>3. /\ phrases \in Seq(Phrases) /\ phrases # << >>
          /\ DOMAIN phrases = DOMAIN parts
          /\ \A i \in DOMAIN parts : phrases[i] = Phrase(Negate(parts[i]))
      BY <2>1, PhrasesOfType
    <2> HIDE DEF phrases
    <2>4. \A i \in DOMAIN parts : parts[i].type \notin {"any", "empty"}
      BY <1>5 DEF Regular
    <2>5. \A i \in DOMAIN parts :
             /\ Finds(phrases[i], Documents \ parts[i].means)
             /\ phrases[i].minus <=> ~Negated(parts[i])
      BY <1>2, <2>3, <2>4 DEF Sound
    <2>6. \A i \in DOMAIN phrases : Present(phrases[i])
      BY <2>3, <2>5 DEF Finds
    <2>7. \E i \in DOMAIN phrases : ~phrases[i].minus
      BY <1>5, <2>3, <2>5 DEF AnyNegated
    <2>8. /\ Present(p) /\ ~p.minus
          /\ \A doc \in Documents :
               doc \in p.docs <=> \A i \in DOMAIN phrases : Selects(phrases[i], doc)
      BY <2>3, <2>6, <2>7, ConjunctionFinds
    <2>9. p \in Phrases
      BY <2>3, ListedType
    <2> HIDE DEF p
    <2>10. /\ Present(Minus(p))
           /\ \A doc \in Documents : Selects(Minus(p), doc) <=> doc \notin p.docs
      BY <2>8, <2>9, MinusFinds
    <2>11. \A doc \in Documents : Selects(Minus(p), doc) <=> doc \in c.means
      <3> TAKE doc \in Documents
      <3>1. doc \in p.docs <=> \A i \in DOMAIN parts : doc \notin parts[i].means
        BY <2>3, <2>5, <2>8 DEF Finds
      <3> QED  BY <1>1, <2>10, <3>1 DEF Described
    <2> QED  BY <2>2, <2>10, <2>11 DEF Finds
  <1> QED  BY <1>4, <1>5

LEMMA ConnectiveWellFormed ==
    ASSUME NEW type \in {"any", "all"}, NEW parts \in Seq(Components),
           \A i \in DOMAIN parts :
             WellFormed(parts[i]) /\ (type = "any" => parts[i].type # "any")
    PROVE  WellFormed(Connective(type, parts))
  <1>1. /\ Connective(type, parts).type = type
        /\ Connective(type, parts).negated = FALSE
        /\ Connective(type, parts).regular = Regular(type, parts)
    BY ConnectiveType
  <1>2. Regular(type, parts) => Sound(Connective(type, parts))
    BY ConjunctionSound, DisjunctionSound
  <1> QED  BY <1>1, <1>2 DEF WellFormed

-----------------------------------------------------------------------------
(* Building a scope.                                                       *)

\* Components that a connective of a type may be given.
Fits(type, components) ==
    /\ components \in Seq(Components)
    /\ \A i \in DOMAIN components :
         /\ WellFormed(components[i])
         /\ type = "any" => components[i].type # "any"

\* A frame grows by components that fit.
LEMMA FrameGrows ==
    ASSUME NEW frame \in Frames, Fits(frame.type, frame.parts),
           NEW components, Fits(frame.type, components)
    PROVE  /\ Added(frame, components) \in Frames
           /\ Added(frame, components).type = frame.type
           /\ Added(frame, components).shared = frame.shared
           /\ Fits(frame.type, Added(frame, components).parts)
  <1> DEFINE grown == Added(frame, components)
             old == frame.parts
             new == old \o components
  <1>1. old \in Seq(Components) /\ components \in Seq(Components)
    BY DEF Fits
  <1>2. new \in Seq(Components)
    BY <1>1
  <1>3. grown \in Frames /\ grown.type = frame.type /\ grown.shared = frame.shared /\ grown.parts = new
    BY <1>2 DEF Frames, Added
  <1>4. ASSUME NEW i \in DOMAIN new
        PROVE  \/ i \in DOMAIN old /\ new[i] = old[i]
               \/ i - Len(old) \in DOMAIN components /\ new[i] = components[i - Len(old)]
    BY <1>1
  <1>5. Fits(frame.type, new)
    <2>1. ASSUME NEW i \in DOMAIN new
          PROVE  WellFormed(new[i]) /\ (frame.type = "any" => new[i].type # "any")
      <3>1. CASE i \in DOMAIN old /\ new[i] = old[i]
        BY <3>1 DEF Fits
      <3>2. CASE i - Len(old) \in DOMAIN components /\ new[i] = components[i - Len(old)]
        BY <3>2 DEF Fits
      <3> QED  BY <1>4, <3>1, <3>2
    <2> QED  BY <1>2, <2>1 DEF Fits
  <1> QED  BY <1>3, <1>5

LEMMA Appended ==
    ASSUME NEW T, NEW list \in Seq(T), NEW e \in T
    PROVE  /\ Append(list, e) \in Seq(T)
           /\ Append(list, e) # << >>
           /\ DOMAIN Append(list, e) = 1 .. Len(list) + 1
           /\ \A k \in 1 .. Len(list) : Append(list, e)[k] = list[k]
           /\ Append(list, e)[Len(list) + 1] = e
  OBVIOUS

LEMMA NothingFits == \A type : Fits(type, << >>)
  BY EmptySeq DEF Fits

LEMMA FrameFits ==
    ASSUME NEW stack, StackOK(stack), NEW n \in DOMAIN stack
    PROVE  /\ stack[n] \in Frames
           /\ Fits(stack[n].type, stack[n].parts)
           /\ stack[n].type \in {"any", "all"}
           /\ stack[n].parts \in Seq(Components)
           /\ stack[n].shared <=> n > 1 /\ stack[n].type = stack[n - 1].type
  <1>1. stack[n] \in Frames
    BY DEF StackOK
  <1>2. stack[n].parts \in Seq(Components) /\ stack[n].type \in {"any", "all"}
    BY <1>1 DEF Frames
  <1> QED  BY <1>1, <1>2 DEF StackOK, FrameOf, Fits

\* A stack is well formed when the components of its frames fit, and its frames
\* are shared as their types say.
LEMMA StackFrom ==
    ASSUME NEW stack \in Seq(Frames), stack # << >>,
           \A n \in DOMAIN stack : Fits(stack[n].type, stack[n].parts),
           \A n \in DOMAIN stack :
             stack[n].shared <=> n > 1 /\ stack[n].type = stack[n - 1].type
    PROVE  StackOK(stack)
  BY DEF StackOK, FrameOf, Fits

LEMMA InitPhrases == Init => PhrasesInv
  <1> SUFFICES ASSUME Init PROVE StackOK(frames)
    BY DEF PhrasesInv
  <1>1. PICK first \in Frames : /\ first = Frame("all", FALSE)
                               /\ first.type = "all"
                               /\ first.parts = << >>
                               /\ first.shared = FALSE
    <2>1. Frame("all", FALSE) \in Frames
      BY EmptySeq DEF Frame, Frames
    <2> QED  BY <2>1 DEF Frame
  <1>2. frames = <<first>>
    BY <1>1 DEF Init
  <1>3. /\ frames \in Seq(Frames) /\ frames # << >> /\ DOMAIN frames = {1}
        /\ frames[1] = first
    BY <1>2
  <1>4. \A n \in DOMAIN frames : Fits(frames[n].type, frames[n].parts)
    BY <1>1, <1>3, NothingFits
  <1>5. \A n \in DOMAIN frames :
           frames[n].shared <=> n > 1 /\ frames[n].type = frames[n - 1].type
    <2> TAKE n \in DOMAIN frames
    <2>1. n = 1 /\ ~frames[n].shared
      BY <1>1, <1>3
    <2> QED  BY <2>1
  <1> QED  BY <1>3, <1>4, <1>5, StackFrom

LEMMA WithPhrases ==
    ASSUME PhrasesInv, NEW r \in Restrictions, With(r)
    PROVE  PhrasesInv'
  <1> DEFINE n == Len(frames)
             c == Restriction(r)
             grown == Added(frames[n], <<c>>)
  <1>1. frames \in Seq(Frames) /\ frames # << >> /\ n \in DOMAIN frames
    BY EmptySeq DEF PhrasesInv, StackOK
  <1>2. c \in Components /\ c.type \notin {"any", "all"} /\ WellFormed(c)
    BY RestrictionSound
  <1> HIDE DEF c
  <1>3. Fits(frames[n].type, <<c>>)
    BY <1>2 DEF Fits
  <1>5. frames' = [frames EXCEPT ![n] = grown]
    BY DEF With, c
  <1> HIDE DEF grown, n
  <1>6. \A k \in DOMAIN frames :
           /\ frames[k] \in Frames /\ Fits(frames[k].type, frames[k].parts)
           /\ frames[k].shared <=> k > 1 /\ frames[k].type = frames[k - 1].type
    BY FrameFits DEF PhrasesInv
  <1>7. /\ grown \in Frames /\ grown.type = frames[n].type
        /\ grown.shared = frames[n].shared /\ Fits(grown.type, grown.parts)
    BY <1>1, <1>3, <1>6, FrameGrows DEF grown
  <1>8. frames' \in Seq(Frames) /\ frames' # << >> /\ DOMAIN frames' = DOMAIN frames
    BY <1>1, <1>5, <1>7
  <1>9. \A k \in DOMAIN frames :
           /\ frames'[k].type = frames[k].type
           /\ frames'[k].shared = frames[k].shared
           /\ Fits(frames'[k].type, frames'[k].parts)
    BY <1>1, <1>5, <1>6, <1>7
  <1>10. \A k \in DOMAIN frames : k > 1 => k - 1 \in DOMAIN frames
    BY <1>1
  <1>11. \A k \in DOMAIN frames' :
            frames'[k].shared <=> k > 1 /\ frames'[k].type = frames'[k - 1].type
    BY <1>6, <1>8, <1>9, <1>10
  <1>12. StackOK(frames')
    BY <1>8, <1>9, <1>11, StackFrom
  <1> QED  BY <1>12 DEF PhrasesInv

LEMMA OpensPhrases ==
    ASSUME PhrasesInv, NEW type \in {"any", "all"}, Opens(type)
    PROVE  PhrasesInv'
  <1> DEFINE n == Len(frames)
             frame == Frame(type, frames[n].type = type)
  <1>1. frames \in Seq(Frames) /\ frames # << >> /\ n \in DOMAIN frames /\ n \in Nat \ {0}
    BY EmptySeq DEF PhrasesInv, StackOK
  <1>2. frames' = Append(frames, frame)
    BY DEF Opens, Block, Top
  <1>3. frame.type = type /\ (frame.shared <=> frames[n].type = type) /\ frame.parts = << >>
    BY DEF Frame
  <1>4. frame \in Frames
    BY Zenon, EmptySeq DEF Frame, Frames
  <1>5. Fits(frame.type, frame.parts)
    BY <1>3, NothingFits
  <1> HIDE DEF frame
  <1>6. \A k \in DOMAIN frames :
           /\ Fits(frames[k].type, frames[k].parts)
           /\ frames[k].shared <=> k > 1 /\ frames[k].type = frames[k - 1].type
    BY FrameFits DEF PhrasesInv
  <1>7. /\ frames' \in Seq(Frames) /\ frames' # << >>
        /\ DOMAIN frames' = DOMAIN frames \cup {n + 1}
        /\ \A k \in DOMAIN frames : frames'[k] = frames[k]
        /\ frames'[n + 1] = frame
    BY <1>1, <1>2, <1>4
  <1>8. \A k \in DOMAIN frames : k > 1 => k - 1 \in DOMAIN frames
    BY <1>1
  <1>9. \A k \in DOMAIN frames' : Fits(frames'[k].type, frames'[k].parts)
    BY <1>5, <1>6, <1>7
  <1>10. ASSUME NEW k \in DOMAIN frames'
         PROVE  frames'[k].shared <=> k > 1 /\ frames'[k].type = frames'[k - 1].type
    <2>1. CASE k \in DOMAIN frames
      BY <1>6, <1>7, <1>8, <2>1
    <2>2. CASE k = n + 1
      <3>1. k > 1 /\ k - 1 = n
        BY <1>1, <2>2
      <3> QED  BY <1>1, <1>3, <1>7, <2>2, <3>1
    <2> QED  BY <1>7, <2>1, <2>2
  <1>11. StackOK(frames')
    BY <1>7, <1>9, <1>10, StackFrom
  <1> QED  BY <1>11 DEF PhrasesInv

LEMMA EndBlockPhrases ==
    ASSUME PhrasesInv, EndBlock
    PROVE  PhrasesInv'
  <1> DEFINE n == Len(frames)
             m == n - 1
             left == Left(frames[n])
             grown == Added(frames[m], left)
  <1>1. /\ frames \in Seq(Frames) /\ n \in Nat /\ n > 1
        /\ n \in DOMAIN frames /\ m \in DOMAIN frames /\ DOMAIN frames = 1 .. n
    BY DEF PhrasesInv, StackOK, EndBlock
  <1>2. \A k \in DOMAIN frames :
           /\ frames[k] \in Frames /\ Fits(frames[k].type, frames[k].parts)
           /\ frames[k].type \in {"any", "all"}
           /\ frames[k].parts \in Seq(Components)
           /\ frames[k].shared <=> k > 1 /\ frames[k].type = frames[k - 1].type
    BY FrameFits DEF PhrasesInv
  <1>3. Fits(frames[m].type, left)
    <2>1. CASE frames[n].shared
      <3>1. frames[n].type = frames[m].type /\ left = frames[n].parts
        BY <1>1, <1>2, <2>1 DEF Left
      <3> QED  BY <1>1, <1>2, <3>1
    <2>2. CASE ~frames[n].shared
      <3> DEFINE c == Connective(frames[n].type, frames[n].parts)
      <3>1. frames[n].type # frames[m].type /\ left = <<c>>
        BY <1>1, <1>2, <2>2 DEF Left
      <3>2. c \in Components /\ c.type = frames[n].type
        BY <1>1, <1>2, ConnectiveType
      <3>3. WellFormed(c)
        BY <1>1, <1>2, ConnectiveWellFormed DEF Fits
      <3> HIDE DEF c, left
      <3> QED  BY <3>1, <3>2, <3>3 DEF Fits
    <2> QED  BY <2>1, <2>2
  <1>5. frames' = Append(SubSeq(frames, 1, n - 2), grown)
    BY DEF EndBlock, Top
  <1> HIDE DEF left, grown
  <1>6. /\ grown \in Frames /\ grown.type = frames[m].type
        /\ grown.shared = frames[m].shared /\ Fits(grown.type, grown.parts)
    BY <1>1, <1>2, <1>3, FrameGrows DEF grown
  <1>7. /\ SubSeq(frames, 1, n - 2) \in Seq(Frames)
        /\ Len(SubSeq(frames, 1, n - 2)) = n - 2
        /\ \A k \in 1 .. n - 2 : SubSeq(frames, 1, n - 2)[k] = frames[k]
    BY <1>1
  <1>8. /\ frames' \in Seq(Frames) /\ frames' # << >>
        /\ DOMAIN frames' = 1 .. m
        /\ \A k \in 1 .. n - 2 : frames'[k] = frames[k]
        /\ frames'[m] = grown
    <2>1. PICK cut \in Seq(Frames) :
             /\ cut = SubSeq(frames, 1, n - 2) /\ Len(cut) = n - 2
             /\ \A k \in 1 .. n - 2 : cut[k] = frames[k]
      BY <1>7
    <2>2. frames' = Append(cut, grown)
      BY <1>5, <2>1
    <2>3. Len(cut) = n - 2 /\ Len(cut) + 1 = m
      BY <1>1, <2>1
    <2>4. /\ Append(cut, grown) \in Seq(Frames)
          /\ Append(cut, grown) # << >>
          /\ DOMAIN Append(cut, grown) = 1 .. Len(cut) + 1
          /\ \A k \in 1 .. Len(cut) : Append(cut, grown)[k] = cut[k]
          /\ Append(cut, grown)[Len(cut) + 1] = grown
      BY <1>6, Appended
    <2> HIDE DEF n, m
    <2> QED  BY <2>1, <2>2, <2>3, <2>4
  <1>9. \A k \in 1 .. m :
           /\ k \in DOMAIN frames
           /\ k \in 1 .. n - 2 \/ k = m
           /\ k > 1 => k - 1 \in 1 .. n - 2 /\ k - 1 \in DOMAIN frames
    <2>1. n \in Nat /\ n > 1 /\ m = n - 1 /\ DOMAIN frames = 1 .. n
      BY <1>1
    <2> HIDE DEF n, m
    <2> QED  BY <2>1
  <1>10. \A k \in 1 .. m :
            /\ frames'[k].type = frames[k].type
            /\ frames'[k].shared = frames[k].shared
            /\ Fits(frames'[k].type, frames'[k].parts)
    BY <1>2, <1>6, <1>8, <1>9
  <1>11. \A k \in DOMAIN frames' :
            frames'[k].shared <=> k > 1 /\ frames'[k].type = frames'[k - 1].type
    BY <1>2, <1>8, <1>9, <1>10
  <1>12. StackOK(frames')
    BY <1>8, <1>10, <1>11, StackFrom
  <1> QED  BY <1>12 DEF PhrasesInv

LEMMA PhrasesInvariant == Spec => []PhrasesInv
  <1>1. PhrasesInv /\ [Next]_vars => PhrasesInv'
    <2> SUFFICES ASSUME PhrasesInv, [Next]_vars PROVE PhrasesInv'
      OBVIOUS
    <2>1. ASSUME NEW r \in Restrictions, With(r) PROVE PhrasesInv'
      BY <2>1, WithPhrases
    <2>2. CASE AnyOf
      BY <2>2, OpensPhrases DEF AnyOf
    <2>3. CASE AllOf
      BY <2>3, OpensPhrases DEF AllOf
    <2>4. CASE EndBlock
      BY <2>4, EndBlockPhrases
    <2>5. CASE UNCHANGED vars
      BY <2>5 DEF vars, PhrasesInv
    <2> QED  BY <2>1, <2>2, <2>3, <2>4, <2>5 DEF Next
  <1> QED  BY InitPhrases, <1>1, PTL DEF Spec

-----------------------------------------------------------------------------
(* The theorems.                                                           *)

LEMMA ScopeWellFormed ==
    ASSUME PhrasesInv, NEW i \in DOMAIN Scope
    PROVE  WellFormed(Scope[i])
  <1>1. Scope = frames[1].parts /\ 1 \in DOMAIN frames
    BY EmptySeq DEF PhrasesInv, StackOK, Scope
  <1> QED  BY <1>1, FrameFits DEF PhrasesInv, Fits

\* dsl/scope.rb, any_of and all_of: whatever blocks an application nests and
\* negates, the filter queries of the scope find the documents the blocks
\* describe, irregular components aside.
THEOREM ScopesMean == Spec => []PhraseMeans
  <1>1. PhrasesInv => PhraseMeans
    <2> SUFFICES ASSUME PhrasesInv, Ordinary, NEW doc \in Documents, NEW i \in DOMAIN Scope
                 PROVE  Filters(Phrase(Scope[i]), doc) <=>
                          Phrase(Scope[i]) = Nothing \/ doc \in Scope[i].means
      BY DEF PhraseMeans, Means, Found
    <2>1. CASE Phrase(Scope[i]) = Nothing
      BY <2>1 DEF Filters
    <2>2. CASE Phrase(Scope[i]) # Nothing
      <3>1. Scope[i].regular
        BY <2>2 DEF Ordinary
      <3>2. Finds(Phrase(Scope[i]), Scope[i].means)
        BY <3>1, ScopeWellFormed DEF WellFormed, Sound
      <3> QED  BY <2>2, <3>2 DEF Finds, Filters, Selects
    <2> QED  BY <2>1, <2>2
  <1> QED  BY <1>1, PhrasesInvariant, PTL
=============================================================================
