-------------------------- MODULE CandidateResolution --------------------------
(***************************************************************************)
(* Which token does a post mean?  What the author names                    *)
(* (content-extractor.js), whether the words are a call to act             *)
(* (intent-gate.js), the tokens known by those names (candidate-index.js), *)
(* what the provider says of them (gmgn-market-source.js) and the choice   *)
(* among them (resolution-policy.js), in the order of ca-resolver.js.      *)
(*                                                                         *)
(* A post is [event, language, terms, platforms]: the kinds of phrases the *)
(* patterns of the intent gate find in it, the terms, the launchpads it    *)
(* mentions.  A term is [type, value, own, via]; own: the author's words.  *)
(* A token is [chain, address, symbol, name, launchpad, cap, liquidity,    *)
(* known, counted]: known is the number of renowned wallets, when it is    *)
(* counted; a market number the provider does not have is 0.               *)
(***************************************************************************)
EXTENDS Naturals, FiniteSets, FiniteSetsExt

CONSTANTS
    Tokens,             \* tokens a post may mean
    DominanceRatio,     \* lead of the dominant token (code: 2)
    MaxCandidates       \* code: 25

ASSUME ResolutionAssumption == DominanceRatio \in Nat \ {0, 1} /\ MaxCandidates \in Nat \ {0}

None == [chain |-> "none"]
EvmChains == {"bsc", "base", "eth", "robinhood"}

-----------------------------------------------------------------------------
(* The terms of the author; a name counts when the policy approves it.     *)
Terms(post, aliases) == {t \in post.terms : t.type = "approved_name" => t.value \in aliases}

AuthorTerms(post, aliases) ==
    IF post.event = "retweet" THEN {} ELSE {t \in Terms(post, aliases) : t.own}

(* uniqueAuthorAssets: cash tag and hash tag are one identity.             *)
Identity(t) == [kind |-> IF t.type \in {"cashtag", "hashtag"} THEN "symbol" ELSE t.type, value |-> t.value]
AssetTerms(terms) == {t \in terms : t.type \in {"ca", "cashtag", "hashtag", "approved_name"}}
Assets(terms) == {Identity(t) : t \in AssetTerms(terms)}

(* classifyIntent: one token, no word against it, and a reason to act.     *)
MayResolve(post, terms) ==
    /\ post.event # "retweet"
    /\ post.language \cap {"security", "negative", "sell", "historical", "comparison"} = {}
    /\ Cardinality(Assets(terms)) = 1
    /\ \/ post.language \cap {"buy", "launch"} # {}
       \/ \E a \in Assets(terms) : a.kind \in {"ca", "approved_name"}

-----------------------------------------------------------------------------
Names(t, token) ==
    \/ t.type = "ca" /\ token.address = t.value
    \/ t.type \in {"cashtag", "hashtag"} /\ token.symbol = t.value
    \/ t.type = "approved_name" /\ token.name = t.value

(* lookupTerms over the fresh entries of the index.                        *)
LookedUp(terms, known, chains) ==
    {k \in Tokens : known[k] # "absent" /\ k.chain \in chains /\ \E t \in terms : Names(t, k)}

(* A full address needs no entry, when the chain is clear.                 *)
Transient(terms, chains) ==
    {k \in Tokens :
        \E t \in terms :
            /\ t.type = "ca" /\ k.address = t.value
            /\ \/ k.chain = "sol" /\ "sol" \in chains
               \/ chains \cap EvmChains = {k.chain}}

(* verifyCandidate.  The provider's answer for a token is "failed" (no or a*)
(* mismatching token info), "tradable", "untradable" or "unknown" (security*)
(* or pool missing).  An entry that is verified already is not asked about.*)
AskedAbout(known) == {k \in Tokens : known[k] \notin {"tradable", "untradable"}}
Verified(token, known, answers) ==
    IF token \in AskedAbout(known) THEN answers[token] ELSE known[token]

(* evaluateCandidate: a candidate survives without a single objection.     *)
Survives(post, token, state, chains) ==
    /\ state = "tradable"
    /\ token.chain \in chains
    /\ post.platforms = {} \/ token.launchpad \in post.platforms

(* marketDominantCandidate.  The index does not keep the number of renowned*)
(* wallets: only tokens that were asked about just now can be compared.    *)
Eligible(tokens) == {k \in tokens : k.known >= 3 /\ k.cap > 0 /\ k.liquidity > 0}
Dominates(k, l) == k.cap >= DominanceRatio * l.cap /\ k.liquidity >= DominanceRatio * l.liquidity
Dominant(tokens, asked) ==
    {k \in Eligible(tokens) :
        /\ tokens \subseteq {l \in asked : l.counted}
        /\ \A l \in Eligible(tokens) \ {k} : Dominates(k, l)}

(* applyResolutionPolicy: the address in the post, the launchpad it names, *)
(* the only one left, or the one that dominates its market.                *)
Selected(post, terms, survivors, asked) ==
    LET direct == {k \in survivors : \E t \in terms : t.type = "ca" /\ t.value = k.address}
        platform == {k \in survivors : k.launchpad \in post.platforms}
    IN  IF Cardinality(direct) = 1 THEN direct
        ELSE IF Cardinality(platform) = 1 THEN platform
        ELSE IF Cardinality(survivors) = 1 THEN survivors
        ELSE Dominant(survivors, asked)

(* resolveDynamicSignal                                                    *)
Resolve(post, policy, known, answers) ==
    LET author == AuthorTerms(post, policy.aliases)
        terms == {t \in author : t.type \in policy.types}
        candidates == LookedUp(terms, known, policy.chains) \cup Transient(terms, policy.chains)
        survivors == {k \in candidates :
                        Survives(post, k, Verified(k, known, answers), policy.chains)}
        selected == Selected(post, terms, survivors, AskedAbout(known))
        Outcome(status, token) == [status |-> status, token |-> token]
    IN  IF ~MayResolve(post, author) THEN Outcome("rejected", None)
        ELSE IF candidates = {} THEN Outcome("not_found", None)
        ELSE IF Cardinality(candidates) > MaxCandidates THEN Outcome("ambiguous", None)
        ELSE IF survivors = {} THEN Outcome("rejected", None)
        ELSE IF selected = {} THEN Outcome("ambiguous", None)
        ELSE Outcome("resolved", CHOOSE k \in selected : TRUE)
=============================================================================
