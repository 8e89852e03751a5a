----------------------------- MODULE AddressLookups -----------------------------
(***************************************************************************)
(* The tasks of src/src/main.rs that work on names: the poll that gives     *)
(* every connection its name, the loop that looks addresses up (PTR and     *)
(* ASN, src/src/resolve.rs) and the loop that trims what was found.         *)
(*                                                                          *)
(* A round of lookups is chosen under the lock, waited for without it, and  *)
(* each answer is applied under the lock by itself.                         *)
(***************************************************************************)
EXTENDS NameStore

CONSTANTS Batch, MaxRetries, RetryAfter

ASSUME LookupsAssumption ==
  Batch \in Nat \ {0} /\ MaxRetries \in Nat \ {0} /\ RetryAfter \in Nat \ {0}

VARIABLES
  whois,    \* App::whois: what was found, by address
  fails,    \* failed lookups in a row, by address, and the time of the last
  batch,    \* addresses of the round whose answers are not applied yet
  renewed   \* history: tuples that another socket has just taken over

lookupVars == <<whois, fails, batch, renewed>>
vars == <<nameVars, lookupVars>>

Whois == [ptr : Name \cup {None}, asn : BOOLEAN]

TypeOK ==
  /\ NamesTypeOK
  /\ DOMAIN whois \subseteq Public /\ \A ip \in DOMAIN whois : whois[ip] \in Whois
  /\ DOMAIN fails \subseteq Public
  /\ \A ip \in DOMAIN fails : fails[ip].n \in 1..MaxRetries /\ fails[ip].at \in 0..clock
  /\ batch \subseteq Public \ DOMAIN whois /\ renewed \subseteq Conn

Init ==
  /\ NamesInit
  /\ whois = Empty /\ fails = Empty /\ batch = {} /\ renewed = {}
-----------------------------------------------------------------------------
\* Mutant: a name that was found replaces the one shown.
WhoisReplaces(c, row) ==
  IF Remote[c] \notin DOMAIN whois THEN row
  ELSE LET w == whois[Remote[c]] IN
       [row EXCEPT !.ptr = IF @ = None THEN w.ptr ELSE @, !.asn = @ \/ w.asn,
                   !.domain = IF w.ptr # None THEN w.ptr ELSE @]

\* One row of apply_whois: what is missing is taken from the map.
Whoised(c, row) ==
  IF Remote[c] \notin DOMAIN whois \/ (row.asn /\ row.domain # None) THEN row
  ELSE LET w == whois[Remote[c]] IN
       [row EXCEPT !.ptr = IF @ = None THEN w.ptr ELSE @, !.asn = @ \/ w.asn,
                   !.domain = IF @ = None THEN w.ptr ELSE @]

\* The end of a poll: apply_sockets enters new connections and finds tuples
\* that were reused, then enrich_names and apply_whois, in one section.
Poll(opened, reused) ==
  /\ opened \cap DOMAIN conns = {} /\ reused \subseteq DOMAIN conns
  /\ conns' = [c \in DOMAIN conns \cup opened |->
       LET row == IF c \in opened THEN NewRow
                  ELSE IF c \in reused THEN Renewed(conns[c]) ELSE conns[c]
       IN Whoised(c, Enrich(c, row))]
  /\ renewed' = reused
  /\ UNCHANGED <<clock, lang, dns, heard, whois, fails, batch>>

\* whois_targets and the start of a round: failures are forgotten after a while.
Retryable(ip, failed) == ip \notin DOMAIN failed \/ failed[ip].n < MaxRetries

Targets(failed) ==
  LET wanted == {ip \in Public \cap InHistory : ip \notin DOMAIN whois /\ Retryable(ip, failed)}
  IN {t \in SUBSET wanted : Cardinality(t) = Smaller(Batch, Cardinality(wanted))}

LookupRound ==
  /\ batch = {}
  /\ fails' = Restrict(fails, {ip \in DOMAIN fails : clock - fails[ip].at < RetryAfter})
  /\ batch' \in Targets(fails')
  /\ UNCHANGED <<nameVars, whois>>

\* resolve::lookup: the PTR name and the ASN are asked for by themselves, each
\* from a second resolver when the first does not answer; the owner of the ASN
\* is asked for after it, and the result is failed if any of them is.
Answers == {"ok", "empty", "failed"}
Result(name, origin, owner) ==
  [ptr    |-> name, asn |-> origin = "ok",
   failed |-> origin = "failed" \/ (origin = "ok" /\ owner = "failed")]
Lookup == {Result(n, o, w) : n \in Name \cup {None}, o \in Answers, w \in Answers}
          \cup {[ptr |-> None, asn |-> o = "ok", failed |-> TRUE] : o \in Answers}

Failed(ip) == IF ip \in DOMAIN fails THEN fails[ip].n + 1 ELSE 1

\* whois_loop: one answer is applied, a partial one only to the rows there are.
LookupDone(ip, w) ==
  /\ batch' = batch \ {ip}
  /\ IF w.failed
     THEN /\ fails' = [x \in DOMAIN fails \cup {ip} |->
                         IF x = ip THEN [n |-> Failed(ip), at |-> clock] ELSE fails[x]]
          /\ whois' = whois
     ELSE /\ fails' = Restrict(fails, DOMAIN fails \ {ip})
          /\ whois' = [x \in DOMAIN whois \cup {ip} |->
                         IF x = ip THEN [ptr |-> w.ptr, asn |-> w.asn] ELSE whois[x]]
  /\ conns' = [c \in DOMAIN conns |->
       IF Remote[c] # ip THEN conns[c]
       ELSE [conns[c] EXCEPT !.ptr = IF w.ptr # None THEN w.ptr ELSE @, !.asn = @ \/ w.asn,
                             !.domain = IF @ = None THEN w.ptr ELSE @]]
  /\ UNCHANGED <<clock, lang, dns, heard>>

\* What cache_snapshot saves: answers that are not empty.
Named == {ip \in DOMAIN whois : whois[ip].ptr # None \/ whois[ip].asn}

\* cache_loop: empty answers are not kept for long, and the map is trimmed.
Prune ==
  /\ \E kept \in {DOMAIN whois, Named} :
     \E left \in IF Cardinality(kept) > MaxNames THEN Trimmed(kept) ELSE {kept} :
       /\ left # DOMAIN whois
       /\ whois' = Restrict(whois, left)
  /\ UNCHANGED <<nameVars, fails, batch>>

\* The program ends with a save and starts again.
Restart ==
  /\ conns' = Empty /\ dns' = Restored
  /\ heard' = [ip \in Addr |-> IF ip \in DOMAIN dns' THEN heard[ip] ELSE Unheard]
  /\ whois' = Restrict(whois, Named)
  /\ fails' = Empty /\ batch' = {}
  /\ UNCHANGED <<clock, lang>>

\* Names that have expired are not told apart by how long ago.
Tick ==
  /\ clock < MaxTime /\ clock' = clock + 1
  /\ heard' = [ip \in Addr |-> [n \in Name |-> IF heard[ip][n] > clock' THEN heard[ip][n] ELSE 0]]
  /\ UNCHANGED <<lang, dns, conns, whois, fails, batch>>

\* i18n::set.
SetLanguage == lang' \in Label \ {lang} /\ UNCHANGED <<clock, dns, conns, heard, whois, fails, batch>>

StoreStep ==
  \/ \E ip \in Addr, n \in Name, ttl \in Ttl : RememberName(ip, n, ttl)
  \/ \E c \in Conn, sni \in Name \cup {None} : SeePacket(c, sni)
  \/ \E c \in DOMAIN conns : ForgetConn(c)

Next ==
  \/ \E opened, reused \in SUBSET Conn : Poll(opened, reused)
  \/ /\ renewed' = {}
     /\ \/ StoreStep /\ UNCHANGED <<whois, fails, batch>>
        \/ LookupRound \/ Prune \/ Restart \/ Tick \/ SetLanguage
        \/ \E ip \in batch, w \in Lookup : LookupDone(ip, w)

Spec == Init /\ [][Next]_vars
-----------------------------------------------------------------------------
Both == DOMAIN conns \cap DOMAIN conns'

(* Names come from SNI first: a connection whose SNI is known is shown with   *)
(* it, whatever DNS answers, lookups and polls come before or after it.       *)
SniIsShown ==
  \A c \in DOMAIN conns : conns[c].sni # None => conns[c].domain = conns[c].sni

(* docs/how-it-works.md: simultaneous names or overflow make the DNS name     *)
(* ambiguous.  A DNS name is only given to a connection while it is the only  *)
(* valid one of all that were answered for the address, also of those that    *)
(* found no room in the entry or that were saved by an earlier run.           *)
DnsNameWasUnique ==
  [][\A c \in Both :
       LET row == conns'[c] IN
       /\ row.domain \in Name \ {conns[c].domain, row.ptr}
       /\ row.sni = None
       => {n \in Name : heard[Remote[c]][n] > clock} = {row.domain}]_vars

(* An existing connection keeps its first DNS name until SNI replaces it (or  *)
(* another socket takes the tuple): not another name of the address, not PTR, *)
(* not a label.  A DNS name that equals the PTR name is not known as such.    *)
DnsNameStays ==
  [][\A c \in Both :
       LET row == conns[c] IN
       /\ row.domain \in Name \ {row.ptr}
       /\ conns'[c].sni = row.sni /\ c \notin renewed'
       => conns'[c].domain = row.domain]_vars

Poorer(row) == row.sni = None /\ row.domain \in Label \cup {None, row.ptr}

(* A name from DNS replaces a PTR name or a label if it arrives later, and    *)
(* what was found for the address reaches connections opened afterwards: no   *)
(* poll leaves a connection without a name that is known.                     *)
PollGivesBestName ==
  [][Poll({}, {}) =>
       \A c \in DOMAIN conns : Poorer(conns[c]) =>
         LET unique == UniqueName(Remote[c]) IN
         /\ unique # {} => conns'[c].domain \in unique
         /\ Remote[c] \in DOMAIN whois /\ whois[Remote[c]].ptr # None =>
              conns'[c].domain # None]_vars
=============================================================================
