----------------------------- MODULE AccessEdge -----------------------------
(***************************************************************************)
(* Access tokens at the edge: how long the JWT that carries a Creatio      *)
(* access token lives, the check of mcpAuth, and the marks that keep a     *)
(* rejected or revoked Creatio token out.                                  *)
(*                                                                         *)
(* A pair of Creatio tokens comes from a login (it waits in an             *)
(* authorization code and is turned into one JWT) or from a refresh (it is *)
(* turned into a JWT on receipt, and into more of them while the replay    *)
(* window of that refresh is open).  Time is in seconds, the unit of JWTs. *)
(***************************************************************************)
EXTENDS Integers

CONSTANTS
    Pair,       \* pairs of Creatio tokens, which name their access tokens
    None,       \* absence of a value
    Lifetimes,  \* the lifetimes Creatio gives access tokens (expires_in)
    Margin,     \* EXPIRES_MARGIN_SECONDS
    MaxTtl,     \* ACCESS_TOKEN_MAX_TTL_SECONDS
    RejectFor,  \* how long invalidate marks a token for
    CodeTtl,    \* AUTH_CODE_TTL_MS
    Window,     \* REFRESH_REPLAY_WINDOW_MS
    MaxTime     \* bound: the clock stops here

\* The source uses one hour for MaxTtl and for RejectFor.
ASSUME DurationAssumption ==
    /\ Lifetimes \subseteq Nat \ {0}
    /\ Margin \in Nat /\ CodeTtl \in Nat /\ Window \in Nat /\ MaxTime \in Nat
    /\ MaxTtl \in Nat \ {0}
    /\ RejectFor \in Nat /\ RejectFor >= MaxTtl

ASSUME NoneAssumption == None \notin Nat

VARIABLES
    now,
    kind,      \* kind[p]: the call to Creatio that obtains p
    phase,     \* phase[p]: how far that call and its answer are
    until,     \* until[p]: end of the code or of the replay window of p
    dies,      \* dies[p]: when Creatio stops accepting the access token
    life,      \* life[p]: expires_in of Creatio's answer
    expiry,    \* expiry[p]: UserTokens.accessTokenExpiryMs
    prompt,    \* history: answers that were received within Margin
    jwts,      \* access tokens minted so far
    inUse,     \* Creatio tokens of /mcp requests past the edge
    rejected,  \* _rejectedCreatioTokens
    barred     \* history: the JWTs the last mark on a token was to keep out

pairVars == <<kind, phase, until, dies, life, expiry, prompt>>
edgeVars == <<inUse, rejected, barred>>
vars == <<now, pairVars, jwts, edgeVars>>

Jwt == [cat : Pair, iat : Nat, exp : Nat]

Init ==
    /\ now = 0
    /\ kind = [p \in Pair |-> "login"]
    /\ phase = [p \in Pair |-> "unused"]
    /\ until = [p \in Pair |-> 0]
    /\ dies = [p \in Pair |-> 0]
    /\ life = [p \in Pair |-> 0]
    /\ expiry = [p \in Pair |-> 0]
    /\ prompt = {}
    /\ jwts = {}
    /\ inUse = {}
    /\ rejected = [p \in Pair |-> None]
    /\ barred = [p \in Pair |-> {}]

AtLeastOne(n) == IF n < 1 THEN 1 ELSE n
AtMost(n, m)  == IF n > m THEN m ELSE n

-----------------------------------------------------------------------------
(* From Creatio to a JWT. *)

\* The broker calls Creatio's token endpoint.  The window of a refresh is
\* counted from here.
Ask(p, k) ==
    /\ phase[p] = "unused"
    /\ phase' = [phase EXCEPT ![p] = "asked"]
    /\ kind' = [kind EXCEPT ![p] = k]
    /\ until' = [until EXCEPT ![p] = now + Window]
    /\ UNCHANGED <<now, dies, life, expiry, prompt, jwts, edgeVars>>

\* Creatio issues the pair.
CreatioIssues(p, n) ==
    /\ phase[p] = "asked"
    /\ phase' = [phase EXCEPT ![p] = "issued"]
    /\ life' = [life EXCEPT ![p] = n]
    /\ dies' = [dies EXCEPT ![p] = now + n]
    /\ UNCHANGED <<now, kind, until, expiry, prompt, jwts, edgeVars>>

\* computeTokenExpiryMs, which counts from the receipt of the answer.
RecordedExpiry(n) == now + AtLeastOne(n - Margin)

\* Mutant: the remaining life is not looked at.
ExpiresUncapped(e) == MaxTtl

\* The expires_in of _issueTokens for tokens with that recorded expiry.
ExpiresIn(e) == AtLeastOne(AtMost(e - now, MaxTtl))

\* jwt.sign: exp counts from iat.
Minted(p, e) == [cat |-> p, iat |-> now, exp |-> now + ExpiresIn(e)]

\* The answer arrives.  A login is put into an authorization code, whose life
\* starts here; a refresh answers those who await it.
Receive(p) ==
    /\ phase[p] = "issued"
    /\ phase' = [phase EXCEPT ![p] = "held"]
    /\ expiry' = [expiry EXCEPT ![p] = RecordedExpiry(life[p])]
    /\ prompt' = IF now <= dies[p] - life[p] + Margin THEN prompt \cup {p}
                                                      ELSE prompt
    /\ until' = IF kind[p] = "login"
                THEN [until EXCEPT ![p] = now + CodeTtl] ELSE until
    /\ jwts' = IF kind[p] = "login" THEN jwts
               ELSE jwts \cup {Minted(p, expiry'[p])}
    /\ UNCHANGED <<now, kind, dies, life, edgeVars>>

\* The code of a login is redeemed, once.
RedeemCode(p) ==
    /\ phase[p] = "held" /\ kind[p] = "login"
    /\ now <= until[p]
    /\ phase' = [phase EXCEPT ![p] = "gone"]
    /\ jwts' = jwts \cup {Minted(p, expiry[p])}
    /\ UNCHANGED <<now, kind, until, dies, life, expiry, prompt, edgeVars>>

\* A /token request is answered from the replay window.
ReplayRefresh(p) ==
    /\ phase[p] = "held" /\ kind[p] = "refresh"
    /\ now < until[p]
    /\ jwts' = jwts \cup {Minted(p, expiry[p])}
    /\ UNCHANGED <<now, pairVars, edgeVars>>

-----------------------------------------------------------------------------
(* The edge. *)

\* What mcpAuth lets pass: jwt.verify, then the marks.
Accepted(j) == now < j.exp /\ rejected[j.cat] = None

Admit(j) ==
    /\ Accepted(j)
    /\ inUse' = inUse \cup {j.cat}
    /\ UNCHANGED <<now, pairVars, jwts, rejected, barred>>

\* Mutant: a mark that is there is left as it is.
MarkOnce(p, e, js) ==
    /\ rejected' = IF rejected[p] = None THEN [rejected EXCEPT ![p] = e]
                                         ELSE rejected
    /\ barred' = [barred EXCEPT ![p] = js]

\* markCreatioTokenRejected, meant to keep the JWTs js out.
Mark(p, e, js) ==
    /\ rejected' = [rejected EXCEPT ![p] = e]
    /\ barred' = [barred EXCEPT ![p] = js]

\* Creatio answers 401 to a request (the token expired or was revoked), and
\* again to its retry: BrokerProvider.invalidate.
Bounce(p) ==
    /\ p \in inUse
    /\ inUse' = inUse \ {p}
    /\ Mark(p, now + RejectFor, {j \in jwts : j.cat = p})
    /\ UNCHANGED <<now, pairVars, jwts>>

\* Creatio serves the request.
Serve(p) ==
    /\ p \in inUse
    /\ inUse' = inUse \ {p}
    /\ UNCHANGED <<now, pairVars, jwts, rejected, barred>>

\* POST /revoke with an access token; a mark that is there does not matter.
RevokeAccess(j) ==
    /\ now < j.exp
    /\ Mark(j.cat, j.exp, {j})
    /\ UNCHANGED <<now, pairVars, jwts, inUse>>

\* evictRejectedCreatioTokens, on the five-minute timer.
Cleanup ==
    /\ rejected' = [p \in Pair |->
          IF rejected[p] # None /\ now > rejected[p] THEN None
                                                     ELSE rejected[p]]
    /\ UNCHANGED <<now, pairVars, jwts, inUse, barred>>

\* The process restarts: codes, windows, calls in flight and marks are gone;
\* clients keep their JWTs.
Restart ==
    /\ phase' = [p \in Pair |-> IF phase[p] = "unused" THEN "unused"
                                                       ELSE "gone"]
    /\ inUse' = {}
    /\ rejected' = [p \in Pair |-> None]
    /\ barred' = [p \in Pair |-> {}]
    /\ UNCHANGED <<now, kind, until, dies, life, expiry, prompt, jwts>>

Tick ==
    /\ now < MaxTime
    /\ now' = now + 1
    /\ UNCHANGED <<pairVars, jwts, edgeVars>>

Next ==
    \/ \E p \in Pair, k \in {"login", "refresh"} : Ask(p, k)
    \/ \E p \in Pair, n \in Lifetimes : CreatioIssues(p, n)
    \/ \E p \in Pair : Receive(p)
    \/ \E p \in Pair : RedeemCode(p)
    \/ \E p \in Pair : ReplayRefresh(p)
    \/ \E j \in jwts : Admit(j)
    \/ \E p \in Pair : Bounce(p)
    \/ \E p \in Pair : Serve(p)
    \/ \E j \in jwts : RevokeAccess(j)
    \/ Cleanup
    \/ Restart
    \/ Tick

Spec == Init /\ [][Next]_vars

-----------------------------------------------------------------------------
(* Properties. *)

TypeOK ==
    /\ now \in Nat
    /\ kind \in [Pair -> {"login", "refresh"}]
    /\ phase \in [Pair -> {"unused", "asked", "issued", "held", "gone"}]
    /\ until \in [Pair -> Nat]
    /\ dies \in [Pair -> Nat]
    /\ life \in [Pair -> Nat]
    /\ expiry \in [Pair -> Nat]
    /\ prompt \in SUBSET Pair
    /\ jwts \in SUBSET Jwt
    /\ inUse \in SUBSET Pair
    /\ rejected \in [Pair -> Nat \cup {None}]
    /\ barred \in [Pair -> SUBSET Jwt]

\* While no later mark replaces it, a mark keeps out what it was made for
\* until the process restarts, although the timer drops it: after a revocation
\* the JWT that was revoked, after a 401 of Creatio every JWT minted by then.
RejectionFinal ==
    \A p \in Pair : \A j \in barred[p] : ~Accepted(j)

\* A JWT does not outlive the Creatio token it carries when Creatio's answer
\* took no longer than Margin, Creatio's lifetime exceeds Margin, and there
\* was lifetime left when the JWT was minted.
CappedByCredential ==
    \A j \in jwts :
        (j.cat \in prompt /\ life[j.cat] > Margin /\ j.iat < expiry[j.cat])
           => j.exp <= dies[j.cat]

-----------------------------------------------------------------------------
(* What a comment in the source says and the code does not do. *)

\* session-context.ts: the timer drops "entries whose token has expired anyway".
DroppedWhenExpired ==
    [][\A p \in Pair : (rejected[p] # None /\ rejected'[p] = None) =>
          \/ \A j \in jwts : j.cat = p => now >= j.exp
          \/ Restart]_vars
=============================================================================
