----------------------------- MODULE DnsRecords -----------------------------
(***************************************************************************)
(* DNS (addons/dns/records.ts, engine.ts): turning the records published   *)
(* at a name into the ones a profile wants, one call to Cloudflare at a    *)
(* time, without touching what the profile does not speak for.             *)
(*                                                                         *)
(* A record is a type, a value and whether its proxy, TTL or priority is   *)
(* the wanted one; the TXT kinds are types of their own.  The value of an  *)
(* SPF record is its set of senders.  Cloudflare refuses a second record   *)
(* with the same type and content, and a CNAME beside an address or CNAME. *)
(***************************************************************************)
EXTENDS Naturals, FiniteSets, Sequences, SequencesExt

CONSTANTS MaxPublished, MaxRows, MaxFailures

VARIABLES published, rows, waiting, ops, started, failures, ids

vars == <<published, rows, waiting, ops, started, failures, ids>>

Contents == ({"A", "CNAME", "other"} \X {{1}, {2}}) \cup ({"NS", "dkim"} \X {{1}})
            \cup ({"spf"} \X (SUBSET {1, 2} \ {{}}))
Web == {"A", "CNAME"}
Unproxied == {"spf", "dkim", "other", "NS"}
Record(c, t) == [type |-> c[1], val |-> c[2], tuned |-> t]
Same(r, w) == r.type = w.type /\ r.val = w.val

(* Cloudflare's own rules for the records beside a record of another id.   *)
Accepts(r, others) == /\ \A o \in others : ~Same(r, o)
                      /\ r.type = "CNAME" => \A o \in others : o.type \notin Web
                      /\ r.type = "A" => \A o \in others : o.type # "CNAME"
Others(zone, id) == {zone[i].rec : i \in {j \in DOMAIN zone : zone[j].id # id}}

(* A profile's rows at the name: renderProfile refuses the other sets.     *)
Rendered(rs) == /\ \A r \in rs : r.type # "NS" /\ r.tuned
                /\ (\E r \in rs : r.type = "CNAME") => Cardinality(rs) = 1
                /\ Cardinality({r \in rs : r.type = "spf"}) <= 1
Claims(rs) == {r.type : r \in rs} \cup (IF waiting THEN {"dkim"} ELSE {})
claimedBy(r, rs) == \/ "CNAME" \in Claims(rs)
                    \/ r.type = "CNAME" /\ Claims(rs) # {}
                    \/ r.type \in Claims(rs) \ {"other"}
sameRecord(r, w) == Same(r, w) /\ r.tuned = w.tuned

(* The SPF row is merged with the senders that are published.              *)
Senders(zone) == UNION {zone[i].rec.val : i \in {j \in DOMAIN zone : zone[j].rec.type = "spf"}}
merge(w, zone) == IF w.type = "spf" THEN [w EXCEPT !.val = @ \cup Senders(zone)] ELSE w

-----------------------------------------------------------------------------
(* Exact matches first, then the same content, then any record of the      *)
(* kind; what is left of the pool is deleted, what is unmatched created.   *)
Pool(zone) == IF waiting THEN <<>> ELSE SelectSeq(zone, LAMBDA p : claimedBy(p.rec, rows))
Candidates(w, zone) == IF w.type = "other" THEN {p \in Range(zone) : Same(p.rec, w)}
                       ELSE {p \in Range(Pool(zone)) : p.rec.type = w.type}
Fits(pass, p, w) == CASE pass = 1 -> sameRecord(p.rec, w) [] pass = 2 -> Same(p.rec, w) [] pass = 3 -> TRUE
(* One pass over the wanted records, in their order: the pairs it adds.    *)
Pass(pass, wanted, zone, pairs) ==
  FoldSeq(LAMBDA w, acc :
            LET taken == {a.p : a \in acc}
                free == {p \in Candidates(w, zone) \ taken : Fits(pass, p, w)}
            IN IF free = {} \/ \E a \in acc : a.w = w THEN acc
               ELSE acc \cup {[p |-> CHOOSE p \in free : \A q \in free : p.id <= q.id, w |-> w, pass |-> pass]},
          pairs, wanted)
(* Changed form: the first free record of the kind is taken for each.      *)
MatchesAny(wanted, zone) == Pass(3, wanted, zone, {})
Matches(wanted, zone) == Pass(3, wanted, zone, Pass(2, wanted, zone, Pass(1, wanted, zone, {})))

Op(action, id, rec) == [action |-> action, id |-> id, rec |-> rec]
Updates(pairs) == {Op("update", a.p.id, a.w) : a \in {b \in pairs : ~sameRecord(b.p.rec, b.w)}}
Deletes(pairs, zone) == {Op("delete", p.id, p.rec) : p \in Range(Pool(zone)) \ {a.p : a \in pairs}}
Creates(pairs, wanted) == {Op("create", 0, w) : w \in Range(wanted) \ {a.w : a \in pairs}}
(* Changed form: the superfluous records are deleted first.                *)
DeletesFirst(pairs, wanted, zone) ==
  SetToSeq(Deletes(pairs, zone)) \o SetToSeq(Updates(pairs)) \o SetToSeq(Creates(pairs, wanted))
Ordered(pairs, wanted, zone) ==
  SetToSeq(Updates(pairs)) \o SetToSeq(Deletes(pairs, zone)) \o SetToSeq(Creates(pairs, wanted))
(* A claimed NS record blocks the name: it is a problem, and no plan.      *)
Blocked(zone) == \E p \in Range(zone) : p.rec.type = "NS" /\ claimedBy(p.rec, rows)
diffRecords(zone) ==
  LET wanted == SetToSeq({merge(w, zone) : w \in rows}) IN
  IF Blocked(zone) THEN <<>> ELSE Ordered(Matches(wanted, zone), wanted, zone)

-----------------------------------------------------------------------------
Init == /\ rows \in {rs \in UNION {{ {Record(c, TRUE) : c \in cs} : cs \in kSubset(n, Contents)} : n \in 0..MaxRows} : Rendered(rs)}
        /\ waiting \in BOOLEAN /\ (waiting => \A r \in rows : r.type # "CNAME")
        /\ \E cs \in UNION {kSubset(n, Contents) : n \in 0..MaxPublished} :
             \E tuned \in [cs -> BOOLEAN], order \in {SetToSeq(cs), Reverse(SetToSeq(cs))} :
               /\ \A c \in cs : c[1] \in Unproxied \/ c = <<"A", {2}>> => tuned[c]
               /\ published = [i \in DOMAIN order |-> [id |-> i, rec |-> Record(order[i], tuned[order[i]])]]
        /\ \A p \in Range(published) : Accepts(p.rec, Others(published, p.id))
        /\ ops = <<>> /\ started = FALSE /\ failures = 0 /\ ids = MaxPublished

Plan == /\ ~started /\ started' = TRUE /\ ops' = diffRecords(published)
        /\ UNCHANGED <<published, rows, waiting, failures, ids>>

Taken(op) == op.action = "delete" \/ Accepts(op.rec, Others(published, op.id))
Applied(op) ==
  CASE op.action = "delete" -> SelectSeq(published, LAMBDA p : p.id # op.id)
    [] op.action = "update" -> [i \in DOMAIN published |->
                                  IF published[i].id = op.id THEN [published[i] EXCEPT !.rec = op.rec] ELSE published[i]]
    [] op.action = "create" -> Append(published, [id |-> ids + 1, rec |-> op.rec])
applyRecords == /\ ops # <<>> /\ Taken(Head(ops))
                /\ published' = Applied(Head(ops)) /\ ops' = Tail(ops) /\ ids' = ids + 1
                /\ UNCHANGED <<rows, waiting, started, failures>>
(* A call that fails ends the site's run; the next check plans anew.       *)
CallFails == /\ ops # <<>> /\ failures < MaxFailures
             /\ failures' = failures + 1 /\ ops' = <<>> /\ started' = FALSE
             /\ UNCHANGED <<published, rows, waiting, ids>>

Next == Plan \/ applyRecords \/ CallFails
Spec == Init /\ [][Next]_vars

-----------------------------------------------------------------------------
TypeOK == /\ \A p \in Range(published) : p.id \in 1..ids /\ <<p.rec.type, p.rec.val>> \in Contents
          /\ Len(ops) <= MaxPublished + MaxRows /\ waiting \in BOOLEAN /\ started \in BOOLEAN

(* Cloudflare takes every call of a plan when its turn comes: none gives a *)
(* record another's content, or is made beside a CNAME, while what it      *)
(* replaces is still there; and a plan carried out leaves nothing to do.   *)
(* The exception is a row beside a DKIM key that is waited for: no record  *)
(* at that name is taken for it, so that it is created once more.          *)
(* (diffRecords)                                                           *)
BesideWaiting == waiting /\ \E r \in rows : r.type # "other"
PlanIsAccepted == ~BesideWaiting => /\ ops # <<>> => Taken(Head(ops))
                                    /\ started /\ ops = <<>> => diffRecords(published) = <<>>

(* No step takes away a record the profile does not speak for, nor a       *)
(* sender that was published: a merged SPF is there before the records it  *)
(* replaces go.  (diffRecords, mergeSpf)                                   *)
NothingElseTakenStep ==
  /\ \A p \in Range(published) : ~claimedBy(p.rec, rows) => p \in Range(published')
  /\ ("CNAME" \notin Claims(rows) => Senders(published) \subseteq Senders(published'))
=============================================================================
