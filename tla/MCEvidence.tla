------------------------------ MODULE MCEvidence ------------------------------
(***************************************************************************)
(* Up to MaxFound passages with one or two windows, which name some of two *)
(* identifiers, another one, or none, and are scored for both sides of a   *)
(* comparison.                                                             *)
(***************************************************************************)
EXTENDS Evidence

CONSTANTS MaxFound

Window(names, key, s1, s2) == [names |-> names, key |-> <<key, names>>, score |-> <<s1, s2>>]
Scores == {<<0, 1>>, <<1, 0>>, <<1, 2>>, <<2, 1>>}
Single(names, key) == { [windows |-> <<Window(names, key, s[1], s[2])>>] : s \in Scores }
Double(whole, part) ==
  { [windows |-> <<Window(whole, 1, s[1], t[1]), Window(part, 2, s[2], t[2])>>] :
      s \in {<<1, 2>>, <<2, 2>>}, t \in {<<1, 0>>, <<0, 1>>} }
Found == UNION { Single(names, 1) : names \in {{}, {"a"}, {"b"}, {"a", "b"}, {"z"}} }
         \cup Single({"a"}, 2) \cup Double({"a", "b"}, {"b"}) \cup Double({"a", "z"}, {"z"})

VARIABLE found

Init == found = <<>>
Next == /\ Len(found) < MaxFound
        /\ \E c \in Found : found' = Append(found, c)
Spec == Init /\ [][Next]_found

\* By definition: the sources one could cite for a side, a window of each passage.
Citable(side, required) ==
  LET ranked == Ranked(found, side)
  IN  { [names |-> ranked[i].names, key |-> ranked[i].key] :
          i \in { j \in DOMAIN ranked : ranked[j].score >= MinScore /\ ~Elsewhere(ranked[j], required) } }

NamesOf(S) == UNION { s.names : s \in S }
Cited(sources) == { [names |-> sources[i].names, key |-> sources[i].key] : i \in DOMAIN sources }
CanShow(S, required) ==
  \E T \in SUBSET S : T # {} /\ Cardinality(T) <= SourceLimit /\ required \subseteq NamesOf(T)

(***************************************************************************)
(* A question is answered exactly when some sources within the limit name  *)
(* every identifier it asks for, with enough evidence; what is cited is    *)
(* such a choice, no excerpt twice, best first.  A comparison is answered  *)
(* exactly when each side has its own evidence and one choice covers both. *)
(***************************************************************************)
CitesWhatIsAsked ==
  /\ \A required \in {{}, {"a"}, {"a", "b"}} :
       LET sources == Plain(found, required)
           citable == Citable(1, required)
       IN  /\ sources # Insufficient <=> CanShow(citable, required)
           /\ Cited(sources) \subseteq citable
           /\ Cardinality(Cited(sources)) = Len(sources) /\ Len(sources) <= SourceLimit
           /\ \A i, j \in DOMAIN sources : i < j => sources[i].score >= sources[j].score
           /\ sources # Insufficient => required \subseteq NamesOf(Cited(sources))
  /\ \A asked \in {<<{}, {}>>, <<{"a"}, {"b"}>>} :
       LET sources == Comparison(found, asked)
           citable(f) == Citable(f, asked[f])
           all == citable(1) \cup citable(2)
           Covers(T) == /\ T \cap citable(1) # {} /\ T \cap citable(2) # {}
                        /\ asked[1] \cup asked[2] \subseteq NamesOf(T)
       IN  /\ sources # Insufficient <=>
                /\ \A f \in 1 .. 2 : citable(f) # {} /\ asked[f] \subseteq NamesOf(citable(f))
                /\ \E T \in SUBSET all : Cardinality(T) <= SourceLimit /\ Covers(T)
           /\ Cited(sources) \subseteq all /\ Len(sources) <= SourceLimit
           /\ sources # Insufficient => Covers(Cited(sources))
===============================================================================
