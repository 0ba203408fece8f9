------------------------- MODULE HybridCertificates -------------------------
(***************************************************************************)
(* pki/hybrid_certs.py: generate_chain signs a root and a leaf with one    *)
(* RSA and one ML-DSA key and throws the keys away; verify_chain accepts   *)
(* two certificates under a pinned root at a time.                         *)
(*                                                                         *)
(* A key is a number.  A signature is [by |-> key, of |-> what was signed];*)
(* who has no key can only move signatures and edit what they are over.    *)
(* `form` stands for the parts of the profile that generate_chain always   *)
(* writes alike (version, key sizes, algorithm, extensions, key usage).    *)
(***************************************************************************)
EXTENDS Naturals, Sequences

CONSTANTS Names, BadName,        \* common names, and one that _name refuses
          Starts, Days,          \* arguments of generate_chain
          CheckTimes, LastTime,  \* of verify_chain; _time refuses what lies above LastTime
          MAX_DAYS,              \* 365
          Serials, MaxChains,
          BadLength              \* a post-quantum signature that is not 3309 bytes

\* What generate_chain makes.
Profiled == [subject : Names, issuer : Names, rsa : Nat, pq : Nat, serial : Serials,
             start : Starts, end : Nat, ca : BOOLEAN, form : {"profile"}]
Certificates == [tbs : Profiled, signature : [by : Nat, of : Profiled]]
Envelopes == [certificate : Certificates, pq_signature : [by : Nat, of : Certificates]]
ASSUME CertAssumption == /\ Starts \subseteq Nat /\ MAX_DAYS \in Nat
                         /\ BadLength \notin [by : Nat, of : Certificates]

VARIABLES issued,   \* the chains of generate_chain
          verdict   \* of the last call
certVars == <<issued, verdict>>
CertInit == issued = <<>> /\ verdict = [call |-> "none"]

\* tbs_certificate_bytes
Tbs(subject, issuer, rsa, pq, serial, start, days, ca) ==
  [subject |-> subject, issuer |-> issuer, rsa |-> rsa, pq |-> pq, serial |-> serial,
   start |-> start, end |-> start + days, ca |-> ca, form |-> "profile"]
Sign(key, content) == [by |-> key, of |-> content]

\* The certificate, signed by the root's RSA key, in the envelope with the
\* root's ML-DSA signature over all of it.
Envelope(tbs, rsa, pq) ==
  LET cert == [tbs |-> tbs, signature |-> Sign(rsa, tbs)]
  IN  [certificate |-> cert, pq_signature |-> Sign(pq, cert)]

Time(t) == t <= LastTime

\* The keys of the n-th chain are 2n-1 and 2n, of both kinds.
GenerateChain(root_cn, leaf_cn, start, days, serials) ==
  LET k == 2 * Len(issued) + 1
      root == Tbs(root_cn, root_cn, k, k, serials[1], start, days, TRUE)
      leaf == Tbs(leaf_cn, root_cn, k + 1, k + 1, serials[2], start, days, FALSE)
      ok == /\ BadName \notin {root_cn, leaf_cn} /\ root_cn # leaf_cn
            /\ days \in 1..MAX_DAYS /\ Time(start) /\ Time(start + days)
  IN /\ serials[1] # serials[2] /\ Len(issued) < MaxChains
     /\ issued' = IF ok THEN Append(issued, <<Envelope(root, k, k), Envelope(leaf, k, k)>>) ELSE issued
     /\ verdict' = [call |-> "generate", ok |-> ok]

\* _profile
Profile(tbs, ca, at) == /\ tbs.form = "profile" /\ tbs.ca = ca /\ tbs.subject # BadName
                        /\ tbs.start <= at /\ at <= tbs.end
                        /\ tbs.end - tbs.start \in 1..MAX_DAYS

Verified(signature, key, content) == signature = Sign(key, content)

\* Mutant: only the classical signature is verified.
ClassicalOnly(item, root) == Verified(item.certificate.signature, root.rsa, item.certificate.tbs)

Signed(item, root) == /\ item.pq_signature # BadLength
                      /\ Verified(item.certificate.signature, root.rsa, item.certificate.tbs)
                      /\ Verified(item.pq_signature, root.pq, item.certificate)

Accepts(chain, pin, at) ==
  LET rc == chain[1].certificate.tbs
      lc == chain[2].certificate.tbs
  IN /\ Time(at) /\ Len(chain) = 2
     /\ chain[1].certificate = pin
     /\ Profile(rc, TRUE, at) /\ Profile(lc, FALSE, at)
     /\ rc.issuer = rc.subject /\ lc.issuer = rc.subject /\ lc.subject # rc.subject
     /\ rc.serial # lc.serial /\ rc.rsa # lc.rsa /\ rc.pq # lc.pq
     /\ rc.start <= lc.start /\ lc.end <= rc.end
     /\ \A item \in {chain[1], chain[2]} : Signed(item, rc)

VerifyChain(chain, pin, at) ==
  /\ verdict' = [call |-> "verify", chain |-> chain, pin |-> pin, at |-> at, ok |-> Accepts(chain, pin, at)]
  /\ UNCHANGED issued

-----------------------------------------------------------------------------

Items == {issued[n][j] : n \in DOMAIN issued, j \in 1..2}
\* What reaches verify_chain: issued envelopes, and ones with a part of another
\* in them or a field edited; one of the two at a time.
Altered(item) ==
  {[item EXCEPT !.pq_signature = s] : s \in {o.pq_signature : o \in Items} \cup {BadLength}}
  \cup {[item EXCEPT !.certificate.signature = o.certificate.signature] : o \in Items}
  \cup {[item EXCEPT !.certificate.tbs.subject = s] : s \in Names \cup {BadName}}
  \cup {[item EXCEPT !.certificate.tbs.issuer = s] : s \in Names \cup {BadName}}
  \cup {[item EXCEPT !.certificate.tbs.serial = s] : s \in Serials}
  \cup {[item EXCEPT !.certificate.tbs.start = @ + 1], [item EXCEPT !.certificate.tbs.end = @ + 1],
        [item EXCEPT !.certificate.tbs.form = "other"], [item EXCEPT !.certificate.tbs.ca = ~@]}
  \cup {[item EXCEPT !.certificate.tbs.rsa = o.certificate.tbs.rsa,
                     !.certificate.tbs.pq = o.certificate.tbs.pq] : o \in Items}
Presented == LET edited == UNION {Altered(item) : item \in Items}
             IN  (Items \X (Items \cup edited)) \cup (edited \X Items)

\* After a verification nothing more is issued: only its answer is of interest.
CertNext ==
  /\ verdict.call # "verify"
  /\ \/ \E root_cn, leaf_cn \in Names \cup {BadName}, start \in Starts, days \in Days,
           serials \in Serials \X Serials : GenerateChain(root_cn, leaf_cn, start, days, serials)
     \/ \E chain \in Presented, pin \in {item.certificate : item \in Items},
           at \in CheckTimes : VerifyChain(chain, pin, at)

CertSpec == CertInit /\ [][CertNext]_certVars

\* A chain is accepted exactly when generate_chain made it, as it is, under the
\* root that is pinned and within its validity: parts of two chains, a moved
\* signature or an edited field never verify, and what was issued always does.
AcceptedIsIssued ==
  verdict.call = "verify" =>
    (verdict.ok <=> \E n \in DOMAIN issued :
       /\ verdict.chain = issued[n] /\ verdict.pin = issued[n][1].certificate /\ Time(verdict.at)
       /\ issued[n][2].certificate.tbs.start <= verdict.at /\ verdict.at <= issued[n][2].certificate.tbs.end)
=============================================================================
