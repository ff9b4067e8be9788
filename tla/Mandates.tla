------------------------------- MODULE Mandates -------------------------------
(***************************************************************************)
(* Mandates (chp_core/signing.py): a principal's grant of bounded          *)
(* authority, what its delegates pass on of it, revocations, and the       *)
(* verification a host makes before it runs an invocation under one.       *)
(*                                                                         *)
(* A mandate is the sequence of its links, the root first (in the code a   *)
(* link embeds its parent).  A name, in a scope or of a capability, is a   *)
(* sequence of characters.  A signature is the key that made it; an        *)
(* attestation is a key's own statement of the host it belongs to.         *)
(* Nothing here ties a key to a host but such statements: whoever has a    *)
(* key may attest any name with it.                                        *)
(***************************************************************************)
EXTENDS Integers, Sequences, SequencesExt

CONSTANTS
    Principals,     \* names of hosts that grant and pass on
    HostKeys,       \* the keys that sign for them
    Characters,     \* of names
    ScopeChoices,   \* the scopes considered
    WindowChoices,  \* the windows considered, <<valid_from, valid_until>>
    Capabilities,   \* the capabilities asked for
    Moments,        \* the times of verification
    MaxDepth,       \* _MAX_MANDATE_DEPTH
    MaxLinks        \* bound on the links of a mandate

ASSUME MandateConstants ==
    /\ ScopeChoices \subseteq SUBSET (Seq(Characters) \ {<<>>})
    /\ Capabilities \subseteq Seq(Characters)
    /\ Moments \subseteq Nat
    /\ WindowChoices \subseteq Nat \X Nat
    /\ MaxDepth \in Nat
    /\ MaxLinks \in Nat

VARIABLES
    links,   \* the mandate
    foreign, \* history: one of its links was not signed by build_sub_mandate
    revoked  \* the revocations a host holds: <<mandate_id, the key that signed it>>

mandateVars == <<links, foreign, revoked>>

-----------------------------------------------------------------------------
(***************************************************************************)
(* The checks                                                              *)
(***************************************************************************)
\* The name itself, or a pattern it begins like.
ScopeAllows(scope, name) ==
    \E s \in scope : name = s \/ (Last(s) = "*" /\ IsPrefix(Front(s), name))

\* Mutant of Attenuates: the join of the link to its parent's delegate is gone.
AttenuatesUnjoined(child, parent) ==
    /\ child.scope # {} /\ \A s \in child.scope : ScopeAllows(parent.scope, s)
    /\ parent.valid_from <= child.valid_from
    /\ child.valid_until <= parent.valid_until
    /\ child.parent_id = parent.mandate_id
    /\ child.depth = parent.depth + 1
    /\ child.depth <= MaxDepth

Attenuates(child, parent) ==
    /\ child.scope # {} /\ \A s \in child.scope : ScopeAllows(parent.scope, s)
    /\ parent.valid_from <= child.valid_from
    /\ child.valid_until <= parent.valid_until
    /\ parent.delegate = child.principal
    /\ child.parent_id = parent.mandate_id
    /\ child.depth = parent.depth + 1
    /\ child.depth <= MaxDepth

\* The signature was made with the key the link carries.
SignatureHolds(link) == link.signer = link.key

\* verify_attestation: it says that this key is that of the principal named, and
\* was signed with it.
AttestationHolds(link) == link.attestation = <<link.principal, link.key>>

\* The issuer-only rule: the issuer is the key.
NotRevoked(link, held) == <<link.mandate_id, link.key>> \notin held

\* What verify_mandate checks of every link.
LinkValid(link, at, held) ==
    /\ SignatureHolds(link)
    /\ AttestationHolds(link)
    /\ link.valid_from <= at
    /\ at <= link.valid_until
    /\ NotRevoked(link, held)

\* verify_mandate, down to the root.
Verified(mandate, at, held) ==
    /\ \A n \in DOMAIN mandate : LinkValid(mandate[n], at, held)
    /\ \A n \in DOMAIN mandate \ {1} :
          /\ Attenuates(mandate[n], mandate[n - 1])
          /\ mandate[n - 1].delegable

\* Where transport has not verified who calls.
Unverified == "unverified"

\* Gate 5: the mandate is valid, a verified caller is its delegate, and the leaf's
\* scope allows the capability.  The gate expects no key.
Authorizes(mandate, caller, capability, at, held) ==
    /\ mandate # <<>>
    /\ Verified(mandate, at, held)
    /\ caller \in {Unverified, mandate[Len(mandate)].delegate}
    /\ ScopeAllows(mandate[Len(mandate)].scope, capability)

-----------------------------------------------------------------------------
(***************************************************************************)
(* Granting, passing on, revoking                                          *)
(***************************************************************************)
MandateInit ==
    /\ links = <<>>
    /\ foreign = FALSE
    /\ revoked = {}

Link(principal, key, delegate, scope, window, delegable) ==
    [mandate_id |-> Len(links) + 1, principal |-> principal, key |-> key, signer |-> key,
     attestation |-> <<principal, key>>, delegate |-> delegate, scope |-> scope,
     valid_from |-> window[1], valid_until |-> window[2], delegable |-> delegable,
     depth |-> Len(links), parent_id |-> Len(links)]

\* build_mandate takes any name with any key.
Grant(root) ==
    /\ links = <<>>
    /\ links' = <<root>>
    /\ UNCHANGED <<foreign, revoked>>

\* build_sub_mandate refuses what the verification would refuse, and signs for the
\* parent's delegate with whatever key it is given.
PassOn(child) ==
    LET parent == links[Len(links)]
    IN  /\ links # <<>>
        /\ child.principal = parent.delegate
        /\ parent.delegable
        /\ Attenuates([child EXCEPT !.depth = parent.depth + 1,
                                    !.parent_id = parent.mandate_id], parent)
        /\ links' = Append(links, [child EXCEPT !.depth = parent.depth + 1,
                                                !.parent_id = parent.mandate_id])
        /\ UNCHANGED <<foreign, revoked>>

\* Another implementation puts a link together as it likes, from what some key has
\* signed and what some key has attested.
SignForeign(child, signer, attestation, depth, parentId) ==
    /\ links # <<>>
    /\ ~foreign
    /\ foreign' = TRUE
    /\ links' = Append(links, [child EXCEPT !.signer = signer, !.attestation = attestation,
                                            !.depth = depth, !.parent_id = parentId])
    /\ UNCHANGED revoked

\* The host receives a revocation and verifies it under the key that signed it.
\* Any key may sign one that names the mandate.
Revoke(id, by) ==
    /\ revoked = {}
    /\ id \in DOMAIN links
    /\ revoked' = {<<id, by>>}
    /\ UNCHANGED <<links, foreign>>

MandateNext ==
    \/ /\ Len(links) < MaxLinks
       /\ \E principal, delegate \in Principals, key \in HostKeys, scope \in ScopeChoices,
             window \in WindowChoices, delegable \in BOOLEAN :
             LET link == Link(principal, key, delegate, scope, window, delegable)
             IN  \/ Grant(link)
                 \/ PassOn(link)
                 \/ \E signer \in HostKeys, attestation \in Principals \X HostKeys,
                       depth \in {Len(links) - 1, Len(links)}, parentId \in {1, Len(links)} :
                       SignForeign(link, signer, attestation, depth, parentId)
    \/ \E id \in DOMAIN links, by \in HostKeys : Revoke(id, by)

MandateSpec == MandateInit /\ [][MandateNext]_mandateVars

-----------------------------------------------------------------------------
(***************************************************************************)
(* Properties                                                              *)
(***************************************************************************)
MandateTypeOK ==
    /\ Len(links) <= MaxLinks
    /\ \A n \in DOMAIN links :
          /\ links[n].mandate_id = n
          /\ links[n].depth \in 0..MaxLinks
    /\ foreign \in BOOLEAN
    /\ revoked \subseteq (1..MaxLinks) \X HostKeys

\* The patterns have their star at the end and no other.  The code asks for no such
\* thing, and without it a mandate for "a**" can be passed on as "a*", which
\* allows more: AuthorityNarrows needs it, the rest does not.
StarsEndNames ==
    \A scope \in ScopeChoices : \A s \in scope : \A i \in 1..Len(s) - 1 : s[i] # "*"

\* Authority only narrows on its way: whatever a host lets a mandate do, and for
\* whom, every link of it up to the root was signed by the key it carries, which
\* says it is the principal's, allows that capability at that time, has not been
\* withdrawn by that key, and was passed on under the name of the delegate before
\* it, with permission and within the depth.
AuthorityNarrows ==
    \A caller \in Principals \cup {Unverified}, capability \in Capabilities, at \in Moments :
        Authorizes(links, caller, capability, at, revoked) =>
            /\ caller # Unverified => links[Len(links)].delegate = caller
            /\ \A n \in DOMAIN links :
                  /\ links[n].signer = links[n].key
                  /\ links[n].attestation = <<links[n].principal, links[n].key>>
                  /\ ScopeAllows(links[n].scope, capability)
                  /\ at \in links[n].valid_from..links[n].valid_until
                  /\ <<n, links[n].key>> \notin revoked
                  /\ links[n].depth <= MaxDepth
                  /\ n < Len(links) => /\ links[n].delegable
                                       /\ links[n].delegate = links[n + 1].principal

\* What the library builds is accepted: a mandate passed on by build_sub_mandate
\* alone authorizes its delegate to all that its leaf grants, unless a link's own
\* key has withdrawn it; a revocation by any other key revokes nothing.
BuiltIsAccepted ==
    (links # <<>> /\ ~foreign) =>
        \A caller \in Principals \cup {Unverified}, capability \in Capabilities, at \in Moments :
            LET leaf == links[Len(links)]
            IN  (/\ caller \in {Unverified, leaf.delegate}
                 /\ ScopeAllows(leaf.scope, capability)
                 /\ at \in leaf.valid_from..leaf.valid_until
                 /\ \A n \in DOMAIN links : <<n, links[n].key>> \notin revoked)
                => Authorizes(links, caller, capability, at, revoked)

\* "The principal's attestation ... answers 'whose authority?'": what a mandate
\* lets its holder do was granted by one key for each name in it.
NameHasOneKey ==
    \A capability \in Capabilities, at \in Moments :
        Authorizes(links, Unverified, capability, at, revoked) =>
            \A n, m \in DOMAIN links :
                links[n].principal = links[m].principal => links[n].key = links[m].key

\* A mandate lets its holder do what its chain grants, no less and no more.
MandatesSafe == MandateTypeOK /\ AuthorityNarrows /\ BuiltIsAccepted
=============================================================================
