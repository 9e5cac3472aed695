------------------------------ MODULE TokenLookup ------------------------------
(***************************************************************************)
(* Which Token a resource uses (InitNginxPMClient of                       *)
(* internal/controller/helpers.go), as a function of the tokens in the     *)
(* cache.  tokens[ns][name] is "absent", "empty" (no status.token yet) or   *)
(* "ready".                                                                *)
(***************************************************************************)
EXTENDS Naturals, Sequences, SequencesExt

CONSTANTS DefaultName,      \* TOKEN_DEFAULT_NAME
          SystemNamespace,  \* TOKEN_SYSTEM_NAMESPACE
          DefaultNamespace, \* TOKEN_DEFAULT_NAMESPACE
          NoToken,          \* the lookup fails
          Unset             \* an optional field that is not given

\* reference is Unset or a name with an optional namespace.
NamesOf(reference) ==
  IF reference = Unset THEN <<DefaultName>> ELSE <<reference.name, DefaultName>>

NamespacesOf(reference, own) ==
  (IF reference = Unset \/ reference.namespace = Unset THEN << >> ELSE <<reference.namespace>>)
    \o <<own, SystemNamespace, DefaultNamespace>>

\* Every namespace is searched for both names before the next one.
Candidates(reference, own) ==
  LET names == NamesOf(reference)
      spaces == NamespacesOf(reference, own)
  IN  [i \in 1 .. Len(spaces) * Len(names) |->
         <<spaces[((i - 1) \div Len(names)) + 1], names[((i - 1) % Len(names)) + 1]>>]

\* Mutant: a token without a value is passed over.
FirstReady(tokens, reference, own) ==
  LET at == SelectInSeq(Candidates(reference, own), LAMBDA c : tokens[c[1]][c[2]] = "ready")
  IN  IF at = 0 THEN NoToken ELSE Candidates(reference, own)[at]

\* The first token that exists; one that has no value yet is an error, whatever
\* comes after it.
FindToken(tokens, reference, own) ==
  LET at == SelectInSeq(Candidates(reference, own), LAMBDA c : tokens[c[1]][c[2]] # "absent")
      found == Candidates(reference, own)[at]
  IN  IF at = 0 THEN NoToken
      ELSE IF tokens[found[1]][found[2]] = "ready" THEN found ELSE NoToken
===============================================================================
