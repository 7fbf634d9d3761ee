-------------------------- MODULE SchemaLifeProofs --------------------------
(***************************************************************************)
(* Safety of the schema for any tenants, rows, alembic processes and       *)
(* histories of commands and writes.                                       *)
(*                                                                         *)
(* Every statement of the five migrations keeps a database sane.  What     *)
(* succeeds on a database succeeds on a fresh one of the same version and  *)
(* leaves them alike, so that all histories end where a first upgrade      *)
(* does; what a version allows is then read off the fresh databases.       *)
(* The scripts themselves succeed wherever no row is an orphan.            *)
(***************************************************************************)
EXTENDS SchemaLife, WellFoundedInduction, TLAPS

(***************************************************************************)
(* Induction over scripts and commands.                                    *)
(***************************************************************************)

(* Induction over a range of numbers: a set that has the first and, with   *)
(* every number, the next has them all.  The smallest missing number would *)
(* be the next of one that is there.                                       *)
LEMMA CountUp ==
  ASSUME NEW m \in Nat, NEW n \in Nat, NEW S, m \in S,
         \A i \in m + 1 .. n : i - 1 \in S => i \in S
  PROVE  m .. n \subseteq S
<1> DEFINE T == (m .. n) \ S
<1>1. SUFFICES T = {}
  OBVIOUS
<1>2. SUFFICES ASSUME T # {} PROVE FALSE
  OBVIOUS
<1>3. T \subseteq Nat
  OBVIOUS
<1>4. \E x \in T : \A y \in T : ~ (<<y, x>> \in OpToRel(<, Nat))
  <2> HIDE DEF T
  <2> QED
    BY <1>2, <1>3, NatLessThanWellFounded, WFMin
<1>5. PICK x \in T : \A y \in T : ~(y < x)
  BY <1>3, <1>4 DEF OpToRel
<1>6. x \in m + 1 .. n /\ x - 1 \notin T
  BY <1>5
<1> QED
  BY <1>5, <1>6

(* A script runs as a list of databases, one for every statement           *)
(* (ExecuteAll).                                                           *)
LEMMA RunHistory ==
  ASSUME NEW d, NEW script, Len(script) \in Nat
  PROVE  \E h : /\ h[0] = d
                /\ \A n \in 1 .. Len(script) : h[n] = Execute(h[n - 1], script[n])
                /\ ExecuteAll(d, script) = h[Len(script)]
<1> DEFINE L == Len(script)
           Run(f, n) ==
             f = [i \in 0 .. n |-> IF i = 0 THEN d ELSE Execute(f[i - 1], script[i])]
           S == {n \in 0 .. L : \E f : Run(f, n)}
<1>1. 0 \in S
  <2> DEFINE f == [i \in 0 .. 0 |-> d]
  <2>1. \A i \in 0 .. 0 : f[i] = IF i = 0 THEN d ELSE Execute(f[i - 1], script[i])
    OBVIOUS
  <2>2. f = [i \in 0 .. 0 |-> f[i]]
    OBVIOUS
  <2>3. Run(f, 0)
    <3> HIDE DEF f
    <3> QED
      BY <2>1, <2>2
  <2> HIDE DEF f, Run
  <2> QED
    BY <2>3
<1>2. ASSUME NEW n \in 1 .. L, n - 1 \in S PROVE n \in S
  <2>1. PICK f : Run(f, n - 1)
    BY <1>2
  <2> DEFINE g == [i \in 0 .. n |-> IF i = n THEN Execute(f[n - 1], script[n]) ELSE f[i]]
  <2>2. \A i \in 0 .. n - 1 : f[i] = IF i = 0 THEN d ELSE Execute(f[i - 1], script[i])
    BY <2>1
  <2>3. \A i \in 0 .. n : g[i] = IF i = 0 THEN d ELSE Execute(g[i - 1], script[i])
    <3> TAKE i \in 0 .. n
    <3>1. CASE i = n
      BY <3>1, <2>2
    <3>2. CASE i < n
      <4>1. g[i] = f[i] /\ i \in 0 .. n - 1 /\ (i # 0 => g[i - 1] = f[i - 1])
        BY <3>2
      <4> QED
        BY <4>1, <2>2
    <3> QED
      BY <3>1, <3>2
  <2>4. g = [i \in 0 .. n |-> g[i]]
    OBVIOUS
  <2>5. Run(g, n)
    <3> HIDE DEF g
    <3> QED
      BY <2>3, <2>4
  <2> HIDE DEF g, Run
  <2> QED
    BY <2>5
<1>3. PICK f : Run(f, L)
  <2> HIDE DEF S
  <2>1. L \in Nat
    OBVIOUS
  <2> HIDE DEF L
  <2>2. \A i \in 0 + 1 .. L : i - 1 \in S => i \in S
    BY <1>2, <2>1
  <2>3. 0 .. L \subseteq S
    BY <1>1, <2>1, <2>2, CountUp
  <2>4. L \in S
    BY <2>1, <2>3
  <2> HIDE DEF Run
  <2> QED
    BY <2>4 DEF S
<1> DEFINE h == CHOOSE r : Run(r, L)
<1>4. Run(h, L)
  BY <1>3
<1>5. ExecuteAll(d, script) = h[L]
  BY DEF ExecuteAll
<1>6. h[0] = d /\ \A n \in 1 .. L : h[n] = Execute(h[n - 1], script[n])
  <2> HIDE DEF h
  <2>1. \A i \in 0 .. L : h[i] = IF i = 0 THEN d ELSE Execute(h[i - 1], script[i])
    BY <1>4
  <2> QED
    BY <2>1
<1> QED
  BY <1>5, <1>6

(* A command runs as a list of databases, one for every revision it passes *)
(* (ExecuteSteps).                                                         *)
LEMMA StepsHistory ==
  ASSUME NEW d, NEW steps, Len(steps) \in Nat
  PROVE  \E h : /\ h[0] = d
                /\ \A n \in 1 .. Len(steps) : h[n] = ExecuteAll(h[n - 1], steps[n])
                /\ ExecuteSteps(d, steps) = h[Len(steps)]
<1> DEFINE L == Len(steps)
           Run(f, n) ==
             f = [i \in 0 .. n |-> IF i = 0 THEN d ELSE ExecuteAll(f[i - 1], steps[i])]
           S == {n \in 0 .. L : \E f : Run(f, n)}
<1>1. 0 \in S
  <2> DEFINE f == [i \in 0 .. 0 |-> d]
  <2>1. \A i \in 0 .. 0 : f[i] = IF i = 0 THEN d ELSE ExecuteAll(f[i - 1], steps[i])
    OBVIOUS
  <2>2. f = [i \in 0 .. 0 |-> f[i]]
    OBVIOUS
  <2>3. Run(f, 0)
    <3> HIDE DEF f
    <3> QED
      BY <2>1, <2>2
  <2> HIDE DEF f, Run
  <2> QED
    BY <2>3
<1>2. ASSUME NEW n \in 1 .. L, n - 1 \in S PROVE n \in S
  <2>1. PICK f : Run(f, n - 1)
    BY <1>2
  <2> DEFINE g == [i \in 0 .. n |-> IF i = n THEN ExecuteAll(f[n - 1], steps[n]) ELSE f[i]]
  <2>2. \A i \in 0 .. n - 1 : f[i] = IF i = 0 THEN d ELSE ExecuteAll(f[i - 1], steps[i])
    BY <2>1
  <2>3. \A i \in 0 .. n : g[i] = IF i = 0 THEN d ELSE ExecuteAll(g[i - 1], steps[i])
    <3> TAKE i \in 0 .. n
    <3>1. CASE i = n
      BY <3>1, <2>2
    <3>2. CASE i < n
      <4>1. g[i] = f[i] /\ i \in 0 .. n - 1 /\ (i # 0 => g[i - 1] = f[i - 1])
        BY <3>2
      <4> QED
        BY <4>1, <2>2
    <3> QED
      BY <3>1, <3>2
  <2>4. g = [i \in 0 .. n |-> g[i]]
    OBVIOUS
  <2>5. Run(g, n)
    <3> HIDE DEF g
    <3> QED
      BY <2>3, <2>4
  <2> HIDE DEF g, Run
  <2> QED
    BY <2>5
<1>3. PICK f : Run(f, L)
  <2> HIDE DEF S
  <2>1. L \in Nat
    OBVIOUS
  <2> HIDE DEF L
  <2>2. \A i \in 0 + 1 .. L : i - 1 \in S => i \in S
    BY <1>2, <2>1
  <2>3. 0 .. L \subseteq S
    BY <1>1, <2>1, <2>2, CountUp
  <2>4. L \in S
    BY <2>1, <2>3
  <2> HIDE DEF Run
  <2> QED
    BY <2>4 DEF S
<1> DEFINE h == CHOOSE r : Run(r, L)
<1>4. Run(h, L)
  BY <1>3
<1>5. ExecuteSteps(d, steps) = h[L]
  BY DEF ExecuteSteps
<1>6. h[0] = d /\ \A n \in 1 .. L : h[n] = ExecuteAll(h[n - 1], steps[n])
  <2> HIDE DEF h
  <2>1. \A i \in 0 .. L : h[i] = IF i = 0 THEN d ELSE ExecuteAll(h[i - 1], steps[i])
    BY <1>4
  <2> QED
    BY <2>1
<1> QED
  BY <1>5, <1>6

(***************************************************************************)
(* The statements.                                                         *)
(***************************************************************************)

(* What the default privileges give on a new table.                        *)
GrantsOf(d, table) == {<<x[1], table, x[2]>> : x \in d.defaults}

(* What the statements of the scripts do (Catalog's Effect), one by one.   *)
(* A new table comes with its keys and the default privileges.             *)
LEMMA CreateTableEffect ==
  ASSUME NEW d, Shape(d), NEW s, s.do = "create table"
  PROVE  LET e == Effect(d, s)
         IN  /\ Shape(e)
             /\ Others(d, e, {"tables", "keys", "grants"})
             /\ e.tables = d.tables \cup {s.table}
             /\ e.keys = d.keys \cup s.keys
             /\ e.grants = d.grants \cup GrantsOf(d, s.table)
<1> DEFINE v1 == d.tables \cup {s.table}
           v2 == d.keys \cup s.keys
           v3 == d.grants \cup GrantsOf(d, s.table)
<1>1. Effect(d, s) = [d EXCEPT !.tables = v1, !.keys = v2, !.grants = v3]
  BY DEF Effect, GrantsOf
<1> HIDE DEF v1, v2, v3
<1>2. LET e == Effect(d, s)
      IN  /\ Shape(e)
          /\ Others(d, e, {"tables", "keys", "grants"})
          /\ e.tables = v1 /\ e.keys = v2 /\ e.grants = v3
  BY <1>1 DEF Shape, Others, Fields
<1> QED
  BY <1>2 DEF v1, v2, v3

(* What is left when a table goes.                                         *)
KeysBut(d, table)     == {k \in d.keys : k.from # table}
GrantsBut(d, table)   == {g \in d.grants : g[2] # table}
PoliciesBut(d, table) == {p \in d.policies : p.table # table}
TriggersBut(d, table) == {t \in d.triggers : t[1] # table}
RowsBut(d, table)     == {r \in d.rows : r.table # table}

(* A dropped table takes its row security, keys, grants, policies,         *)
(* triggers and rows along.                                                *)
LEMMA DropTableEffect ==
  ASSUME NEW d, Shape(d), NEW s, s.do = "drop table"
  PROVE  LET e == Effect(d, s)
         IN  /\ Shape(e)
             /\ Others(d, e, {"tables", "secured", "keys", "grants", "policies",
                              "triggers", "rows"})
             /\ e.tables = d.tables \ {s.table}
             /\ e.secured = d.secured \ {s.table}
             /\ e.keys = KeysBut(d, s.table)
             /\ e.grants = GrantsBut(d, s.table)
             /\ e.policies = PoliciesBut(d, s.table)
             /\ e.triggers = TriggersBut(d, s.table)
             /\ e.rows = RowsBut(d, s.table)
<1> DEFINE v1 == d.tables \ {s.table}
           v2 == d.secured \ {s.table}
           v3 == KeysBut(d, s.table)
           v4 == GrantsBut(d, s.table)
           v5 == PoliciesBut(d, s.table)
           v6 == TriggersBut(d, s.table)
           v7 == RowsBut(d, s.table)
<1>1. Effect(d, s) = [d EXCEPT !.tables = v1, !.secured = v2, !.keys = v3, !.grants = v4,
                               !.policies = v5, !.triggers = v6, !.rows = v7]
  BY DEF Effect, KeysBut, GrantsBut, PoliciesBut, TriggersBut, RowsBut
<1> HIDE DEF v1, v2, v3, v4, v5, v6, v7
<1>2. LET e == Effect(d, s)
      IN  /\ Shape(e)
          /\ Others(d, e, {"tables", "secured", "keys", "grants", "policies",
                           "triggers", "rows"})
          /\ e.tables = v1 /\ e.secured = v2 /\ e.keys = v3 /\ e.grants = v4
          /\ e.policies = v5 /\ e.triggers = v6 /\ e.rows = v7
  BY <1>1 DEF Shape, Others, Fields
<1> QED
  BY <1>2 DEF v1, v2, v3, v4, v5, v6, v7

(* ALTER TABLE ... ADD CONSTRAINT adds one key and nothing else.           *)
LEMMA AddKeyEffect ==
  ASSUME NEW d, Shape(d), NEW s, s.do = "add key"
  PROVE  LET e == Effect(d, s)
         IN  /\ Shape(e)
             /\ Others(d, e, {"keys"})
             /\ e.keys = d.keys \cup {s.key}
  BY DEF Effect, Shape, Others, Fields

(* DROP CONSTRAINT removes that one key.                                   *)
LEMMA DropKeyEffect ==
  ASSUME NEW d, Shape(d), NEW s, s.do = "drop key"
  PROVE  LET e == Effect(d, s)
         IN  /\ Shape(e)
             /\ Others(d, e, {"keys"})
             /\ e.keys = d.keys \ {s.key}
  BY DEF Effect, Shape, Others, Fields

(* ENABLE and FORCE ROW LEVEL SECURITY secure the tables named.            *)
LEMMA SecureEffect ==
  ASSUME NEW d, Shape(d), NEW s, s.do = "secure"
  PROVE  LET e == Effect(d, s)
         IN  /\ Shape(e)
             /\ Others(d, e, {"secured"})
             /\ e.secured = d.secured \cup s.tables
  BY DEF Effect, Shape, Others, Fields

(* DISABLE ROW LEVEL SECURITY opens the tables named.                      *)
LEMMA UnsecureEffect ==
  ASSUME NEW d, Shape(d), NEW s, s.do = "unsecure"
  PROVE  LET e == Effect(d, s)
         IN  /\ Shape(e)
             /\ Others(d, e, {"secured"})
             /\ e.secured = d.secured \ s.tables
  BY DEF Effect, Shape, Others, Fields

(* CREATE POLICY adds the policies and leaves the rest alone.              *)
LEMMA CreatePoliciesEffect ==
  ASSUME NEW d, Shape(d), NEW s, s.do = "create policies"
  PROVE  LET e == Effect(d, s)
         IN  /\ Shape(e)
             /\ Others(d, e, {"policies"})
             /\ e.policies = d.policies \cup s.policies
  BY DEF Effect, Shape, Others, Fields

PoliciesOutside(d, N)  == {p \in d.policies : p.table \notin N}
FunctionsBut(d, names) == {f \in d.functions : f[1] \notin names}

(* DROP POLICY removes the policies of the tables named.                   *)
LEMMA DropPoliciesEffect ==
  ASSUME NEW d, Shape(d), NEW s, s.do = "drop policies"
  PROVE  LET e == Effect(d, s)
         IN  /\ Shape(e)
             /\ Others(d, e, {"policies"})
             /\ e.policies = PoliciesOutside(d, s.tables)
  BY DEF Effect, Shape, Others, Fields, PoliciesOutside

(* CREATE TRIGGER adds the triggers and leaves the rest alone.             *)
LEMMA CreateTriggersEffect ==
  ASSUME NEW d, Shape(d), NEW s, s.do = "create triggers"
  PROVE  LET e == Effect(d, s)
         IN  /\ Shape(e)
             /\ Others(d, e, {"triggers"})
             /\ e.triggers = d.triggers \cup s.triggers
  BY DEF Effect, Shape, Others, Fields

(* DROP TRIGGER removes the triggers named.                                *)
LEMMA DropTriggersEffect ==
  ASSUME NEW d, Shape(d), NEW s, s.do = "drop triggers"
  PROVE  LET e == Effect(d, s)
         IN  /\ Shape(e)
             /\ Others(d, e, {"triggers"})
             /\ e.triggers = d.triggers \ s.triggers
  BY DEF Effect, Shape, Others, Fields

(* GRANT adds the grants and leaves the rest alone.                        *)
LEMMA GrantEffect ==
  ASSUME NEW d, Shape(d), NEW s, s.do = "grant"
  PROVE  LET e == Effect(d, s)
         IN  /\ Shape(e)
             /\ Others(d, e, {"grants"})
             /\ e.grants = d.grants \cup s.grants
  BY DEF Effect, Shape, Others, Fields

(* REVOKE removes the grants named, whoever gave them.                     *)
LEMMA RevokeEffect ==
  ASSUME NEW d, Shape(d), NEW s, s.do = "revoke"
  PROVE  LET e == Effect(d, s)
         IN  /\ Shape(e)
             /\ Others(d, e, {"grants"})
             /\ e.grants = d.grants \ s.grants
  BY DEF Effect, Shape, Others, Fields

(* GRANT SELECT ON ALL TABLES is about the tables there are by then.       *)
LEMMA GrantOnAllEffect ==
  ASSUME NEW d, Shape(d), NEW s, s.do = "grant on all"
  PROVE  LET e == Effect(d, s)
         IN  /\ Shape(e)
             /\ Others(d, e, {"grants"})
             /\ e.grants = d.grants \cup (s.roles \X d.tables \X {"select"})
  BY DEF Effect, Shape, Others, Fields

(* ALTER DEFAULT PRIVILEGES is about tables to come.                       *)
LEMMA DefaultEffect ==
  ASSUME NEW d, Shape(d), NEW s, s.do = "default"
  PROVE  LET e == Effect(d, s)
         IN  /\ Shape(e)
             /\ Others(d, e, {"defaults"})
             /\ e.defaults = d.defaults \cup s.defaults
  BY DEF Effect, Shape, Others, Fields

(* CREATE FUNCTION adds the functions.                                     *)
LEMMA CreateFunctionsEffect ==
  ASSUME NEW d, Shape(d), NEW s, s.do = "create functions"
  PROVE  LET e == Effect(d, s)
         IN  /\ Shape(e)
             /\ Others(d, e, {"functions"})
             /\ e.functions = d.functions \cup s.functions
  BY DEF Effect, Shape, Others, Fields

(* DROP FUNCTION removes the functions named.                              *)
LEMMA DropFunctionsEffect ==
  ASSUME NEW d, Shape(d), NEW s, s.do = "drop functions"
  PROVE  LET e == Effect(d, s)
         IN  /\ Shape(e)
             /\ Others(d, e, {"functions"})
             /\ e.functions = FunctionsBut(d, s.names)
  BY DEF Effect, Shape, Others, Fields, FunctionsBut

(***************************************************************************)
(* Sane databases.                                                         *)
(***************************************************************************)

Kinds == {"create table", "drop table", "add key", "drop key", "secure", "unsecure",
          "create policies", "drop policies", "create triggers", "drop triggers",
          "grant", "revoke", "grant on all", "default", "create functions",
          "drop functions"}

(* What the kinds of statements leave alone, all in one place.             *)
LEMMA EffectFrame ==
  ASSUME NEW d, Shape(d), NEW s, s.do \in Kinds
  PROVE  LET e == Effect(d, s)
         IN  /\ Shape(e)
             /\ e.ok = d.ok
             /\ s.do # "drop table" => e.rows = d.rows
             /\ s.do \notin {"create table", "drop table"} => e.tables = d.tables
             /\ s.do \notin {"create table", "drop table", "add key", "drop key"} =>
                  e.keys = d.keys
             /\ s.do \notin {"drop table", "secure", "unsecure"} => e.secured = d.secured
             /\ s.do \notin {"create table", "drop table", "grant", "revoke",
                            "grant on all"} => e.grants = d.grants
             /\ s.do # "default" => e.defaults = d.defaults
             /\ s.do \notin {"drop table", "create policies", "drop policies"} =>
                  e.policies = d.policies
             /\ s.do \notin {"drop table", "create triggers", "drop triggers"} =>
                  e.triggers = d.triggers
             /\ s.do \notin {"create functions", "drop functions"} =>
                  e.functions = d.functions
<1> DEFINE e == Effect(d, s)
<1>1. CASE s.do = "create table"
  <2>1. /\ Shape(e)
        /\ Others(d, e, {"tables", "keys", "grants"})
    BY <1>1, CreateTableEffect
  <2> QED
    BY <1>1, <2>1 DEF Others, Fields
<1>2. CASE s.do = "drop table"
  <2>1. /\ Shape(e)
        /\ Others(d, e, {"tables", "secured", "keys", "grants", "policies", "triggers",
                         "rows"})
    BY <1>2, DropTableEffect
  <2> QED
    BY <1>2, <2>1 DEF Others, Fields
<1>3. CASE s.do = "add key"
  <2>1. /\ Shape(e)
        /\ Others(d, e, {"keys"})
    BY <1>3, AddKeyEffect
  <2> QED
    BY <1>3, <2>1 DEF Others, Fields
<1>4. CASE s.do = "drop key"
  <2>1. /\ Shape(e)
        /\ Others(d, e, {"keys"})
    BY <1>4, DropKeyEffect
  <2> QED
    BY <1>4, <2>1 DEF Others, Fields
<1>5. CASE s.do = "secure"
  <2>1. /\ Shape(e)
        /\ Others(d, e, {"secured"})
    BY <1>5, SecureEffect
  <2> QED
    BY <1>5, <2>1 DEF Others, Fields
<1>6. CASE s.do = "unsecure"
  <2>1. /\ Shape(e)
        /\ Others(d, e, {"secured"})
    BY <1>6, UnsecureEffect
  <2> QED
    BY <1>6, <2>1 DEF Others, Fields
<1>7. CASE s.do = "create policies"
  <2>1. /\ Shape(e)
        /\ Others(d, e, {"policies"})
    BY <1>7, CreatePoliciesEffect
  <2> QED
    BY <1>7, <2>1 DEF Others, Fields
<1>8. CASE s.do = "drop policies"
  <2>1. /\ Shape(e)
        /\ Others(d, e, {"policies"})
    BY <1>8, DropPoliciesEffect
  <2> QED
    BY <1>8, <2>1 DEF Others, Fields
<1>9. CASE s.do = "create triggers"
  <2>1. /\ Shape(e)
        /\ Others(d, e, {"triggers"})
    BY <1>9, CreateTriggersEffect
  <2> QED
    BY <1>9, <2>1 DEF Others, Fields
<1>10. CASE s.do = "drop triggers"
  <2>1. /\ Shape(e)
        /\ Others(d, e, {"triggers"})
    BY <1>10, DropTriggersEffect
  <2> QED
    BY <1>10, <2>1 DEF Others, Fields
<1>11. CASE s.do = "grant"
  <2>1. /\ Shape(e)
        /\ Others(d, e, {"grants"})
    BY <1>11, GrantEffect
  <2> QED
    BY <1>11, <2>1 DEF Others, Fields
<1>12. CASE s.do = "revoke"
  <2>1. /\ Shape(e)
        /\ Others(d, e, {"grants"})
    BY <1>12, RevokeEffect
  <2> QED
    BY <1>12, <2>1 DEF Others, Fields
<1>13. CASE s.do = "grant on all"
  <2>1. /\ Shape(e)
        /\ Others(d, e, {"grants"})
    BY <1>13, GrantOnAllEffect
  <2> QED
    BY <1>13, <2>1 DEF Others, Fields
<1>14. CASE s.do = "default"
  <2>1. /\ Shape(e)
        /\ Others(d, e, {"defaults"})
    BY <1>14, DefaultEffect
  <2> QED
    BY <1>14, <2>1 DEF Others, Fields
<1>15. CASE s.do = "create functions"
  <2>1. /\ Shape(e)
        /\ Others(d, e, {"functions"})
    BY <1>15, CreateFunctionsEffect
  <2> QED
    BY <1>15, <2>1 DEF Others, Fields
<1>16. CASE s.do = "drop functions"
  <2>1. /\ Shape(e)
        /\ Others(d, e, {"functions"})
    BY <1>16, DropFunctionsEffect
  <2> QED
    BY <1>16, <2>1 DEF Others, Fields
<1> QED
  BY <1>1, <1>2, <1>3, <1>4, <1>5, <1>6, <1>7, <1>8, <1>9, <1>10, <1>11, <1>12, <1>13,
     <1>14, <1>15, <1>16 DEF Kinds

(* A statement has its effect, or fails and only marks the transaction as  *)
(* failed (Execute).                                                       *)
LEMMA ExecuteCases ==
  ASSUME NEW d, Shape(d), NEW s, s.do \in Kinds
  PROVE  LET e == Execute(d, s)
         IN  /\ Shape(e)
             /\ e.ok => d.ok /\ Possible(d, s) /\ e = Effect(d, s)
             /\ ~e.ok => Others(d, e, {"ok"})
<1>1. CASE d.ok /\ Possible(d, s)
  <2>1. Shape(Effect(d, s)) /\ Effect(d, s).ok = d.ok
    BY EffectFrame
  <2> QED
    BY <1>1, <2>1 DEF Execute
<1>2. CASE ~(d.ok /\ Possible(d, s))
  <2> DEFINE e == [d EXCEPT !.ok = FALSE]
  <2>1. Execute(d, s) = e
    BY <1>2 DEF Execute
  <2>2. Shape(e) /\ e.ok = FALSE /\ Others(d, e, {"ok"})
    BY DEF Shape, Fields, Others
  <2> HIDE DEF e
  <2> QED
    BY <2>1, <2>2
<1> QED
  BY <1>1, <1>2

(* What PostgreSQL has checked of a statement that did not fail            *)
(* (Possible).                                                             *)
LEMMA PossibleCases ==
  ASSUME NEW d, NEW s, Possible(d, s)
  PROVE  /\ s.do = "create table" =>
              s.table \notin d.tables /\ \A k \in s.keys : k.to \in d.tables \cup {s.table}
         /\ s.do = "drop table" => \A k \in d.keys : k.to = s.table => k.from = s.table
         /\ s.do = "add key" =>
              /\ s.key \notin d.keys /\ s.key.from \in d.tables /\ s.key.to \in d.tables
              /\ s.valid => \A row \in d.rows : Resolves(row, s.key, d.rows)
         /\ s.do = "secure" => s.tables \subseteq d.tables
         /\ s.do = "grant" => s.tables \subseteq d.tables
         /\ s.do = "create policies" =>
              s.policies \cap d.policies = {} /\ \A p \in s.policies : p.table \in d.tables
         /\ s.do = "create triggers" =>
              s.triggers \cap d.triggers = {} /\ \A t \in s.triggers : t[1] \in d.tables
  BY DEF Possible

(* What a statement must be for the database to stay sane.                 *)
Sound(s) ==
  /\ s.do \in Kinds
  /\ s.do = "create table" => \A k \in s.keys : k.from = s.table /\ KeyOk(k)
  /\ s.do = "add key" => s.valid /\ KeyOk(s.key)
  /\ s.do = "grant" => \A g \in s.grants : g[2] \in s.tables
  /\ s.do = "create policies" => \A p \in s.policies : PolicyOk(p)
  /\ s.do = "default" => s.defaults \subseteq Defaults2
  /\ s.do = "create functions" => s.functions \subseteq Functions4

(* After a sound statement nothing hangs on a table that is not there: a   *)
(* table that goes takes everything along, and none goes that is referred  *)
(* to.                                                                     *)
LEMMA HangsKeeps ==
  ASSUME NEW d, Shape(d), Hangs(d), NEW s, Sound(s), Possible(d, s)
  PROVE  Hangs(Effect(d, s))
<1> DEFINE e == Effect(d, s)
<1>0. s.do \in Kinds
  BY DEF Sound
<1>1. ASSUME s.do = "create table" PROVE Hangs(e)
  <2>1. Others(d, e, {"tables", "keys", "grants"})
    BY <1>1, CreateTableEffect
  <2>2. e.tables = d.tables \cup {s.table}
    BY <1>1, CreateTableEffect
  <2>3. e.keys = d.keys \cup s.keys
    BY <1>1, CreateTableEffect
  <2>4. e.grants = d.grants \cup GrantsOf(d, s.table)
    BY <1>1, CreateTableEffect
  <2>5. e.secured = d.secured /\ e.policies = d.policies /\ e.triggers = d.triggers
    BY <2>1 DEF Others, Fields
  <2>6. \A k \in s.keys : k.from = s.table /\ k.to \in d.tables \cup {s.table}
    BY <1>1, PossibleCases DEF Sound
  <2> HIDE DEF e
  <2> QED
    BY <2>2, <2>3, <2>4, <2>5, <2>6 DEF Hangs, GrantsOf
<1>2. ASSUME s.do = "drop table" PROVE Hangs(e)
  <2>1. Others(d, e, {"tables", "secured", "keys", "grants", "policies", "triggers",
                         "rows"})
    BY <1>2, DropTableEffect
  <2>2. e.tables = d.tables \ {s.table}
    BY <1>2, DropTableEffect
  <2>3. e.secured = d.secured \ {s.table}
    BY <1>2, DropTableEffect
  <2>4. e.keys = KeysBut(d, s.table)
    BY <1>2, DropTableEffect
  <2>5. e.grants = GrantsBut(d, s.table)
    BY <1>2, DropTableEffect
  <2>6. e.policies = PoliciesBut(d, s.table)
    BY <1>2, DropTableEffect
  <2>7. e.triggers = TriggersBut(d, s.table)
    BY <1>2, DropTableEffect
  <2>8. \A k \in d.keys : k.to = s.table => k.from = s.table
    BY <1>2, PossibleCases
  <2> HIDE DEF e
  <2> QED
    BY <2>2, <2>3, <2>4, <2>5, <2>6, <2>7, <2>8 DEF Hangs, KeysBut, GrantsBut,
       PoliciesBut, TriggersBut
<1>3. ASSUME s.do = "add key" PROVE Hangs(e)
  <2>1. Others(d, e, {"keys"})
    BY <1>3, AddKeyEffect
  <2>2. e.keys = d.keys \cup {s.key}
    BY <1>3, AddKeyEffect
  <2>3. /\ e.tables = d.tables /\ e.secured = d.secured /\ e.grants = d.grants
        /\ e.policies = d.policies /\ e.triggers = d.triggers
    BY <2>1 DEF Others, Fields
  <2>4. s.key.from \in d.tables /\ s.key.to \in d.tables
    BY <1>3, PossibleCases
  <2> HIDE DEF e
  <2> QED
    BY <2>2, <2>3, <2>4 DEF Hangs
<1>4. ASSUME s.do = "drop key" PROVE Hangs(e)
  <2>1. Others(d, e, {"keys"})
    BY <1>4, DropKeyEffect
  <2>2. e.keys = d.keys \ {s.key}
    BY <1>4, DropKeyEffect
  <2>3. /\ e.tables = d.tables /\ e.secured = d.secured /\ e.grants = d.grants
        /\ e.policies = d.policies /\ e.triggers = d.triggers
    BY <2>1 DEF Others, Fields
  <2> HIDE DEF e
  <2> QED
    BY <2>2, <2>3 DEF Hangs
<1>5. ASSUME s.do = "secure" PROVE Hangs(e)
  <2>1. Others(d, e, {"secured"})
    BY <1>5, SecureEffect
  <2>2. e.secured = d.secured \cup s.tables
    BY <1>5, SecureEffect
  <2>3. /\ e.tables = d.tables /\ e.grants = d.grants /\ e.policies = d.policies
        /\ e.triggers = d.triggers /\ e.keys = d.keys
    BY <2>1 DEF Others, Fields
  <2>4. s.tables \subseteq d.tables
    BY <1>5, PossibleCases
  <2> HIDE DEF e
  <2> QED
    BY <2>2, <2>3, <2>4 DEF Hangs
<1>6. ASSUME s.do = "unsecure" PROVE Hangs(e)
  <2>1. Others(d, e, {"secured"})
    BY <1>6, UnsecureEffect
  <2>2. e.secured = d.secured \ s.tables
    BY <1>6, UnsecureEffect
  <2>3. /\ e.tables = d.tables /\ e.grants = d.grants /\ e.policies = d.policies
        /\ e.triggers = d.triggers /\ e.keys = d.keys
    BY <2>1 DEF Others, Fields
  <2> HIDE DEF e
  <2> QED
    BY <2>2, <2>3 DEF Hangs
<1>7. ASSUME s.do = "create policies" PROVE Hangs(e)
  <2>1. Others(d, e, {"policies"})
    BY <1>7, CreatePoliciesEffect
  <2>2. e.policies = d.policies \cup s.policies
    BY <1>7, CreatePoliciesEffect
  <2>3. /\ e.tables = d.tables /\ e.secured = d.secured /\ e.grants = d.grants
        /\ e.triggers = d.triggers /\ e.keys = d.keys
    BY <2>1 DEF Others, Fields
  <2>4. \A p \in s.policies : p.table \in d.tables
    BY <1>7, PossibleCases
  <2> HIDE DEF e
  <2> QED
    BY <2>2, <2>3, <2>4 DEF Hangs
<1>8. ASSUME s.do = "drop policies" PROVE Hangs(e)
  <2>1. Others(d, e, {"policies"})
    BY <1>8, DropPoliciesEffect
  <2>2. e.policies = PoliciesOutside(d, s.tables)
    BY <1>8, DropPoliciesEffect
  <2>3. /\ e.tables = d.tables /\ e.secured = d.secured /\ e.grants = d.grants
        /\ e.triggers = d.triggers /\ e.keys = d.keys
    BY <2>1 DEF Others, Fields
  <2> HIDE DEF e
  <2> QED
    BY <2>2, <2>3 DEF Hangs, PoliciesOutside
<1>9. ASSUME s.do = "create triggers" PROVE Hangs(e)
  <2>1. Others(d, e, {"triggers"})
    BY <1>9, CreateTriggersEffect
  <2>2. e.triggers = d.triggers \cup s.triggers
    BY <1>9, CreateTriggersEffect
  <2>3. /\ e.tables = d.tables /\ e.secured = d.secured /\ e.grants = d.grants
        /\ e.policies = d.policies /\ e.keys = d.keys
    BY <2>1 DEF Others, Fields
  <2>4. \A t \in s.triggers : t[1] \in d.tables
    BY <1>9, PossibleCases
  <2> HIDE DEF e
  <2> QED
    BY <2>2, <2>3, <2>4 DEF Hangs
<1>10. ASSUME s.do = "drop triggers" PROVE Hangs(e)
  <2>1. Others(d, e, {"triggers"})
    BY <1>10, DropTriggersEffect
  <2>2. e.triggers = d.triggers \ s.triggers
    BY <1>10, DropTriggersEffect
  <2>3. /\ e.tables = d.tables /\ e.secured = d.secured /\ e.grants = d.grants
        /\ e.policies = d.policies /\ e.keys = d.keys
    BY <2>1 DEF Others, Fields
  <2> HIDE DEF e
  <2> QED
    BY <2>2, <2>3 DEF Hangs
<1>11. ASSUME s.do = "grant" PROVE Hangs(e)
  <2>1. Others(d, e, {"grants"})
    BY <1>11, GrantEffect
  <2>2. e.grants = d.grants \cup s.grants
    BY <1>11, GrantEffect
  <2>3. /\ e.tables = d.tables /\ e.secured = d.secured /\ e.policies = d.policies
        /\ e.triggers = d.triggers /\ e.keys = d.keys
    BY <2>1 DEF Others, Fields
  <2>4. s.tables \subseteq d.tables
    BY <1>11, PossibleCases
  <2>5. \A g \in s.grants : g[2] \in s.tables
    BY <1>11 DEF Sound
  <2> HIDE DEF e
  <2> QED
    BY <2>2, <2>3, <2>4, <2>5 DEF Hangs
<1>12. ASSUME s.do = "revoke" PROVE Hangs(e)
  <2>1. Others(d, e, {"grants"})
    BY <1>12, RevokeEffect
  <2>2. e.grants = d.grants \ s.grants
    BY <1>12, RevokeEffect
  <2>3. /\ e.tables = d.tables /\ e.secured = d.secured /\ e.policies = d.policies
        /\ e.triggers = d.triggers /\ e.keys = d.keys
    BY <2>1 DEF Others, Fields
  <2> HIDE DEF e
  <2> QED
    BY <2>2, <2>3 DEF Hangs
<1>13. ASSUME s.do = "grant on all" PROVE Hangs(e)
  <2>1. Others(d, e, {"grants"})
    BY <1>13, GrantOnAllEffect
  <2>2. e.grants = d.grants \cup (s.roles \X d.tables \X {"select"})
    BY <1>13, GrantOnAllEffect
  <2>3. /\ e.tables = d.tables /\ e.secured = d.secured /\ e.policies = d.policies
        /\ e.triggers = d.triggers /\ e.keys = d.keys
    BY <2>1 DEF Others, Fields
  <2> HIDE DEF e
  <2> QED
    BY <2>2, <2>3 DEF Hangs
<1>14. ASSUME s.do = "default" PROVE Hangs(e)
  <2>1. Others(d, e, {"defaults"})
    BY <1>14, DefaultEffect
  <2>2. /\ e.tables = d.tables /\ e.secured = d.secured /\ e.grants = d.grants
        /\ e.policies = d.policies /\ e.triggers = d.triggers /\ e.keys = d.keys
    BY <2>1 DEF Others, Fields
  <2> HIDE DEF e
  <2> QED
    BY <2>2 DEF Hangs
<1>15. ASSUME s.do = "create functions" PROVE Hangs(e)
  <2>1. Others(d, e, {"functions"})
    BY <1>15, CreateFunctionsEffect
  <2>2. /\ e.tables = d.tables /\ e.secured = d.secured /\ e.grants = d.grants
        /\ e.policies = d.policies /\ e.triggers = d.triggers /\ e.keys = d.keys
    BY <2>1 DEF Others, Fields
  <2> HIDE DEF e
  <2> QED
    BY <2>2 DEF Hangs
<1>16. ASSUME s.do = "drop functions" PROVE Hangs(e)
  <2>1. Others(d, e, {"functions"})
    BY <1>16, DropFunctionsEffect
  <2>2. /\ e.tables = d.tables /\ e.secured = d.secured /\ e.grants = d.grants
        /\ e.policies = d.policies /\ e.triggers = d.triggers /\ e.keys = d.keys
    BY <2>1 DEF Others, Fields
  <2> HIDE DEF e
  <2> QED
    BY <2>2 DEF Hangs
<1> QED
  BY <1>0, <1>1, <1>2, <1>3, <1>4, <1>5, <1>6, <1>7, <1>8, <1>9, <1>10, <1>11, <1>12,
     <1>13, <1>14, <1>15, <1>16 DEF Kinds

(* Policies, default privileges and functions stay among those the         *)
(* migrations know.                                                        *)
LEMMA BoundsKeep ==
  ASSUME NEW d, Shape(d), NEW s, Sound(s),
         \A p \in d.policies : PolicyOk(p),
         d.defaults \subseteq Defaults2, d.functions \subseteq Functions4
  PROVE  LET e == Effect(d, s)
         IN  /\ \A p \in e.policies : PolicyOk(p)
             /\ e.defaults \subseteq Defaults2
             /\ e.functions \subseteq Functions4
<1> DEFINE e == Effect(d, s)
<1>0. s.do \in Kinds
  BY DEF Sound
<1>1. \A p \in e.policies : PolicyOk(p)
  <2>1. CASE s.do = "drop table"
    <3>1. e.policies = PoliciesBut(d, s.table)
      BY <2>1, DropTableEffect
    <3> QED
      BY <3>1 DEF PoliciesBut
  <2>2. CASE s.do = "create policies"
    <3>1. e.policies = d.policies \cup s.policies
      BY <2>2, CreatePoliciesEffect
    <3> QED
      BY <2>2, <3>1 DEF Sound
  <2>3. CASE s.do = "drop policies"
    <3>1. e.policies = PoliciesOutside(d, s.tables)
      BY <2>3, DropPoliciesEffect
    <3> QED
      BY <3>1 DEF PoliciesOutside
  <2>4. CASE s.do \notin {"drop table", "create policies", "drop policies"}
    BY <1>0, <2>4, EffectFrame
  <2> QED
    BY <2>1, <2>2, <2>3, <2>4
<1>2. e.defaults \subseteq Defaults2
  <2>1. CASE s.do = "default"
    <3>1. e.defaults = d.defaults \cup s.defaults
      BY <2>1, DefaultEffect
    <3> QED
      BY <2>1, <3>1 DEF Sound
  <2>2. CASE s.do # "default"
    BY <1>0, <2>2, EffectFrame
  <2> QED
    BY <2>1, <2>2
<1>3. e.functions \subseteq Functions4
  <2>1. CASE s.do = "create functions"
    <3>1. e.functions = d.functions \cup s.functions
      BY <2>1, CreateFunctionsEffect
    <3> QED
      BY <2>1, <3>1 DEF Sound
  <2>2. CASE s.do = "drop functions"
    <3>1. e.functions = FunctionsBut(d, s.names)
      BY <2>2, DropFunctionsEffect
    <3> QED
      BY <3>1 DEF FunctionsBut
  <2>3. CASE s.do \notin {"create functions", "drop functions"}
    BY <1>0, <2>3, EffectFrame
  <2> QED
    BY <2>1, <2>2, <2>3
<1> QED
  BY <1>1, <1>2, <1>3

(* A sound statement, failing or not, keeps a database sane: every row has *)
(* its table, and every reference that a key covers resolves, because an   *)
(* added key checks the rows there and a table others refer to is not      *)
(* dropped.                                                                *)
LEMMA StatementKeeps ==
  ASSUME NEW d, Sane(d), NEW s, Sound(s)
  PROVE  Sane(Execute(d, s))
<1> DEFINE e == Execute(d, s)
<1>0. Shape(d) /\ s.do \in Kinds
  BY DEF Sane, Sound
<1>1. ASSUME ~e.ok PROVE Sane(e)
  BY <1>0, <1>1, ExecuteCases DEF Sane
<1>2. ASSUME e.ok PROVE Sane(e)
  <2>1. d.ok /\ Possible(d, s) /\ e = Effect(d, s) /\ Shape(e)
    BY <1>0, <1>2, ExecuteCases
  <2>2. Hangs(e) /\ e.ok
    BY <1>2, <2>1, HangsKeeps DEF Sane
  <2>3. /\ \A p \in e.policies : PolicyOk(p)
        /\ e.defaults \subseteq Defaults2 /\ e.functions \subseteq Functions4
    BY <2>1, BoundsKeep DEF Sane
  <2> HIDE DEF e
  <2>4. CASE s.do = "create table"
    <3>1. /\ e.rows = d.rows /\ e.tables = d.tables \cup {s.table}
          /\ e.keys = d.keys \cup s.keys /\ s.table \notin d.tables
      <4>1. e.tables = d.tables \cup {s.table} /\ e.keys = d.keys \cup s.keys
        BY <1>0, <2>1, <2>4, CreateTableEffect
      <4>2. e.rows = d.rows
        BY <1>0, <2>1, <2>4, EffectFrame
      <4>3. s.table \notin d.tables
        BY <2>1, <2>4, PossibleCases
      <4> QED
        BY <4>1, <4>2, <4>3
    <3>2. \A k \in s.keys, row \in d.rows : ~Uses(row, k)
      BY <2>1, <2>4, <3>1 DEF Uses, Sane, Sound
    <3> QED
      BY <2>2, <2>1, <2>3, <2>4, <3>1, <3>2 DEF Sane, Sound, Resolves
  <2>5. CASE s.do = "drop table"
    <3>1. /\ e.rows = RowsBut(d, s.table) /\ e.tables = d.tables \ {s.table}
          /\ e.keys = KeysBut(d, s.table)
      <4>1. LET c == Effect(d, s)
            IN  /\ c.rows = RowsBut(d, s.table) /\ c.tables = d.tables \ {s.table}
                /\ c.keys = KeysBut(d, s.table)
        BY <1>0, <2>5, DropTableEffect
      <4> QED
        BY <2>1, <4>1
    <3>2. \A k \in d.keys : k.to = s.table => k.from = s.table
      BY <2>1, <2>5, PossibleCases
    <3>3. ASSUME NEW k \in e.keys, NEW row \in e.rows PROVE Resolves(row, k, e.rows)
      BY <2>1, <3>1, <3>2 DEF Resolves, RefersTo, Sane, RowsBut, KeysBut
    <3> QED
      BY <2>2, <2>1, <2>3, <3>1, <3>3 DEF Sane, RowsBut, KeysBut
  <2>6. CASE s.do = "add key"
    <3>1. /\ e.rows = d.rows /\ e.tables = d.tables /\ e.keys = d.keys \cup {s.key}
          /\ s.valid => \A row \in d.rows : Resolves(row, s.key, d.rows)
      <4>1. e.keys = d.keys \cup {s.key}
        BY <1>0, <2>1, <2>6, AddKeyEffect
      <4>2. e.rows = d.rows /\ e.tables = d.tables
        BY <1>0, <2>1, <2>6, EffectFrame
      <4>3. s.valid => \A row \in d.rows : Resolves(row, s.key, d.rows)
        BY <2>1, <2>6, PossibleCases
      <4> QED
        BY <4>1, <4>2, <4>3
    <3>2. KeyOk(s.key) /\ \A row \in d.rows : Resolves(row, s.key, d.rows)
      BY <2>6, <3>1 DEF Sound
    <3>3. \A k \in d.keys : KeyOk(k) /\ \A row \in d.rows : Resolves(row, k, d.rows)
      BY <2>1 DEF Sane
    <3>4. /\ \A k \in e.keys : KeyOk(k)
          /\ \A k \in e.keys, row \in e.rows : Resolves(row, k, e.rows)
      BY <3>1, <3>2, <3>3
    <3> QED
      BY <2>2, <2>1, <2>3, <3>1, <3>4 DEF Sane
  <2>7. CASE s.do \notin {"create table", "drop table", "add key"}
    <3>1. e.rows = d.rows /\ e.tables = d.tables /\ e.keys \subseteq d.keys
      <4>1. e.rows = d.rows /\ e.tables = d.tables
        BY <1>0, <2>1, <2>7, EffectFrame
      <4>2. CASE s.do = "drop key"
        <5>1. e.keys = d.keys \ {s.key}
          BY <1>0, <2>1, <4>2, DropKeyEffect
        <5> QED
          BY <4>1, <5>1
      <4>3. CASE s.do # "drop key"
        <5>1. e.keys = d.keys
          BY <1>0, <2>1, <2>7, <4>3, EffectFrame
        <5> QED
          BY <4>1, <5>1
      <4> QED
        BY <4>2, <4>3
    <3> QED
      BY <2>2, <2>1, <2>3, <3>1 DEF Sane
  <2> QED
    BY <2>4, <2>5, <2>6, <2>7
<1> QED
  BY <1>1, <1>2

(***************************************************************************)
(* Alike databases.                                                        *)
(***************************************************************************)

(* What a statement changes does not depend on the rows; and but for       *)
(* grants and default privileges themselves, not on these either.          *)
Loose == {{"ok", "rows"}, {"ok", "rows", "grants", "defaults"}}

(* A statement makes of alike databases alike databases.                   *)
LEMMA AlikeStep ==
  ASSUME NEW c, Shape(c), NEW d, Shape(d), NEW X \in Loose, Others(c, d, X),
         NEW s, s.do \in Kinds
  PROVE  Others(Effect(c, s), Effect(d, s), X)
<1> DEFINE a == Effect(c, s)
           b == Effect(d, s)
<1>1. ASSUME s.do = "create table" PROVE Others(a, b, X)
  <2>1. /\ Others(c, a, {"tables", "keys", "grants"})
        /\ a.tables = c.tables \cup {s.table}
        /\ a.keys = c.keys \cup s.keys
        /\ a.grants = c.grants \cup GrantsOf(c, s.table)
    BY <1>1, CreateTableEffect
  <2>2. /\ Others(d, b, {"tables", "keys", "grants"})
        /\ b.tables = d.tables \cup {s.table}
        /\ b.keys = d.keys \cup s.keys
        /\ b.grants = d.grants \cup GrantsOf(d, s.table)
    BY <1>1, CreateTableEffect
  <2> HIDE DEF a, b
  <2> QED
    BY <2>1, <2>2 DEF Others, Fields, Loose, GrantsOf
<1>2. ASSUME s.do = "drop table" PROVE Others(a, b, X)
  <2>1. /\ Others(c, a, {"tables", "secured", "keys", "grants", "policies",
                              "triggers", "rows"})
        /\ a.tables = c.tables \ {s.table}
        /\ a.secured = c.secured \ {s.table}
        /\ a.keys = KeysBut(c, s.table)
        /\ a.grants = GrantsBut(c, s.table)
        /\ a.policies = PoliciesBut(c, s.table)
        /\ a.triggers = TriggersBut(c, s.table)
    BY <1>2, DropTableEffect
  <2>2. /\ Others(d, b, {"tables", "secured", "keys", "grants", "policies",
                              "triggers", "rows"})
        /\ b.tables = d.tables \ {s.table}
        /\ b.secured = d.secured \ {s.table}
        /\ b.keys = KeysBut(d, s.table)
        /\ b.grants = GrantsBut(d, s.table)
        /\ b.policies = PoliciesBut(d, s.table)
        /\ b.triggers = TriggersBut(d, s.table)
    BY <1>2, DropTableEffect
  <2> HIDE DEF a, b
  <2>3. KeysBut(c, s.table) = KeysBut(d, s.table)
    BY DEF Others, Fields, Loose, KeysBut
  <2>4. /\ PoliciesBut(c, s.table) = PoliciesBut(d, s.table)
        /\ TriggersBut(c, s.table) = TriggersBut(d, s.table)
    BY DEF Others, Fields, Loose, PoliciesBut, TriggersBut
  <2>5. c.grants = d.grants => GrantsBut(c, s.table) = GrantsBut(d, s.table)
    BY DEF GrantsBut
  <2>6. /\ a.tables = b.tables /\ a.secured = b.secured /\ a.keys = b.keys
        /\ a.policies = b.policies /\ a.triggers = b.triggers
        /\ c.grants = d.grants => a.grants = b.grants
    BY <2>1, <2>2, <2>3, <2>4, <2>5 DEF Others, Fields, Loose
  <2>7. CASE X = {"ok", "rows"}
    <3>1. c.grants = d.grants /\ a.defaults = b.defaults /\ a.functions = b.functions
      BY <2>1, <2>2, <2>7 DEF Others, Fields
    <3> QED
      BY <2>6, <2>7, <3>1 DEF Others, Fields
  <2>8. CASE X = {"ok", "rows", "grants", "defaults"}
    <3>1. a.functions = b.functions
      BY <2>1, <2>2, <2>8 DEF Others, Fields
    <3> QED
      BY <2>6, <2>8, <3>1 DEF Others, Fields
  <2> QED
    BY <2>7, <2>8 DEF Loose
<1>3. ASSUME s.do = "add key" PROVE Others(a, b, X)
  <2>1. /\ Others(c, a, {"keys"})
        /\ a.keys = c.keys \cup {s.key}
    BY <1>3, AddKeyEffect
  <2>2. /\ Others(d, b, {"keys"})
        /\ b.keys = d.keys \cup {s.key}
    BY <1>3, AddKeyEffect
  <2> HIDE DEF a, b
  <2> QED
    BY <2>1, <2>2 DEF Others, Fields, Loose
<1>4. ASSUME s.do = "drop key" PROVE Others(a, b, X)
  <2>1. /\ Others(c, a, {"keys"})
        /\ a.keys = c.keys \ {s.key}
    BY <1>4, DropKeyEffect
  <2>2. /\ Others(d, b, {"keys"})
        /\ b.keys = d.keys \ {s.key}
    BY <1>4, DropKeyEffect
  <2> HIDE DEF a, b
  <2> QED
    BY <2>1, <2>2 DEF Others, Fields, Loose
<1>5. ASSUME s.do = "secure" PROVE Others(a, b, X)
  <2>1. /\ Others(c, a, {"secured"})
        /\ a.secured = c.secured \cup s.tables
    BY <1>5, SecureEffect
  <2>2. /\ Others(d, b, {"secured"})
        /\ b.secured = d.secured \cup s.tables
    BY <1>5, SecureEffect
  <2> HIDE DEF a, b
  <2> QED
    BY <2>1, <2>2 DEF Others, Fields, Loose
<1>6. ASSUME s.do = "unsecure" PROVE Others(a, b, X)
  <2>1. /\ Others(c, a, {"secured"})
        /\ a.secured = c.secured \ s.tables
    BY <1>6, UnsecureEffect
  <2>2. /\ Others(d, b, {"secured"})
        /\ b.secured = d.secured \ s.tables
    BY <1>6, UnsecureEffect
  <2> HIDE DEF a, b
  <2> QED
    BY <2>1, <2>2 DEF Others, Fields, Loose
<1>7. ASSUME s.do = "create policies" PROVE Others(a, b, X)
  <2>1. /\ Others(c, a, {"policies"})
        /\ a.policies = c.policies \cup s.policies
    BY <1>7, CreatePoliciesEffect
  <2>2. /\ Others(d, b, {"policies"})
        /\ b.policies = d.policies \cup s.policies
    BY <1>7, CreatePoliciesEffect
  <2> HIDE DEF a, b
  <2> QED
    BY <2>1, <2>2 DEF Others, Fields, Loose
<1>8. ASSUME s.do = "drop policies" PROVE Others(a, b, X)
  <2>1. /\ Others(c, a, {"policies"})
        /\ a.policies = PoliciesOutside(c, s.tables)
    BY <1>8, DropPoliciesEffect
  <2>2. /\ Others(d, b, {"policies"})
        /\ b.policies = PoliciesOutside(d, s.tables)
    BY <1>8, DropPoliciesEffect
  <2> HIDE DEF a, b
  <2> QED
    BY <2>1, <2>2 DEF Others, Fields, Loose, PoliciesOutside
<1>9. ASSUME s.do = "create triggers" PROVE Others(a, b, X)
  <2>1. /\ Others(c, a, {"triggers"})
        /\ a.triggers = c.triggers \cup s.triggers
    BY <1>9, CreateTriggersEffect
  <2>2. /\ Others(d, b, {"triggers"})
        /\ b.triggers = d.triggers \cup s.triggers
    BY <1>9, CreateTriggersEffect
  <2> HIDE DEF a, b
  <2> QED
    BY <2>1, <2>2 DEF Others, Fields, Loose
<1>10. ASSUME s.do = "drop triggers" PROVE Others(a, b, X)
  <2>1. /\ Others(c, a, {"triggers"})
        /\ a.triggers = c.triggers \ s.triggers
    BY <1>10, DropTriggersEffect
  <2>2. /\ Others(d, b, {"triggers"})
        /\ b.triggers = d.triggers \ s.triggers
    BY <1>10, DropTriggersEffect
  <2> HIDE DEF a, b
  <2> QED
    BY <2>1, <2>2 DEF Others, Fields, Loose
<1>11. ASSUME s.do = "grant" PROVE Others(a, b, X)
  <2>1. /\ Others(c, a, {"grants"})
        /\ a.grants = c.grants \cup s.grants
    BY <1>11, GrantEffect
  <2>2. /\ Others(d, b, {"grants"})
        /\ b.grants = d.grants \cup s.grants
    BY <1>11, GrantEffect
  <2> HIDE DEF a, b
  <2> QED
    BY <2>1, <2>2 DEF Others, Fields, Loose
<1>12. ASSUME s.do = "revoke" PROVE Others(a, b, X)
  <2>1. /\ Others(c, a, {"grants"})
        /\ a.grants = c.grants \ s.grants
    BY <1>12, RevokeEffect
  <2>2. /\ Others(d, b, {"grants"})
        /\ b.grants = d.grants \ s.grants
    BY <1>12, RevokeEffect
  <2> HIDE DEF a, b
  <2> QED
    BY <2>1, <2>2 DEF Others, Fields, Loose
<1>13. ASSUME s.do = "grant on all" PROVE Others(a, b, X)
  <2>1. /\ Others(c, a, {"grants"})
        /\ a.grants = c.grants \cup (s.roles \X c.tables \X {"select"})
    BY <1>13, GrantOnAllEffect
  <2>2. /\ Others(d, b, {"grants"})
        /\ b.grants = d.grants \cup (s.roles \X d.tables \X {"select"})
    BY <1>13, GrantOnAllEffect
  <2> HIDE DEF a, b
  <2> QED
    BY <2>1, <2>2 DEF Others, Fields, Loose
<1>14. ASSUME s.do = "default" PROVE Others(a, b, X)
  <2>1. /\ Others(c, a, {"defaults"})
        /\ a.defaults = c.defaults \cup s.defaults
    BY <1>14, DefaultEffect
  <2>2. /\ Others(d, b, {"defaults"})
        /\ b.defaults = d.defaults \cup s.defaults
    BY <1>14, DefaultEffect
  <2> HIDE DEF a, b
  <2> QED
    BY <2>1, <2>2 DEF Others, Fields, Loose
<1>15. ASSUME s.do = "create functions" PROVE Others(a, b, X)
  <2>1. /\ Others(c, a, {"functions"})
        /\ a.functions = c.functions \cup s.functions
    BY <1>15, CreateFunctionsEffect
  <2>2. /\ Others(d, b, {"functions"})
        /\ b.functions = d.functions \cup s.functions
    BY <1>15, CreateFunctionsEffect
  <2> HIDE DEF a, b
  <2> QED
    BY <2>1, <2>2 DEF Others, Fields, Loose
<1>16. ASSUME s.do = "drop functions" PROVE Others(a, b, X)
  <2>1. /\ Others(c, a, {"functions"})
        /\ a.functions = FunctionsBut(c, s.names)
    BY <1>16, DropFunctionsEffect
  <2>2. /\ Others(d, b, {"functions"})
        /\ b.functions = FunctionsBut(d, s.names)
    BY <1>16, DropFunctionsEffect
  <2> HIDE DEF a, b
  <2> QED
    BY <2>1, <2>2 DEF Others, Fields, Loose, FunctionsBut
<1> QED
  BY <1>1, <1>2, <1>3, <1>4, <1>5, <1>6, <1>7, <1>8, <1>9, <1>10, <1>11, <1>12, <1>13,
     <1>14, <1>15, <1>16 DEF Kinds

(* A statement of a migration writes no rows.                              *)
LEMMA EmptyStays ==
  ASSUME NEW d, Shape(d), d.rows = {}, NEW s, s.do \in Kinds
  PROVE  Effect(d, s).ok = d.ok /\ Effect(d, s).rows = {}
<1>1. /\ Effect(d, s).ok = d.ok
      /\ s.do # "drop table" => Effect(d, s).rows = d.rows
  BY EffectFrame
<1>2. s.do = "drop table" => Effect(d, s).rows = RowsBut(d, s.table)
  BY DropTableEffect
<1> QED
  BY <1>1, <1>2 DEF RowsBut

(* What is possible on a database is possible on an alike one without      *)
(* rows: rows can only make an added key fail.                             *)
LEMMA AlikePossible ==
  ASSUME NEW c, NEW d, NEW X \in Loose, Others(c, d, X), c.rows = {},
         NEW s, Possible(d, s)
  PROVE  Possible(c, s)
<1>1. /\ c.tables = d.tables /\ c.keys = d.keys
      /\ c.policies = d.policies /\ c.triggers = d.triggers
  BY DEF Others, Fields, Loose
<1> QED
  BY <1>1 DEF Possible

(***************************************************************************)
(* Scripts.                                                                *)
(***************************************************************************)

SoundScript(script) ==
  Len(script) \in Nat /\ \A n \in 1 .. Len(script) : Sound(script[n])

(* A script takes a sane database through sane ones.                       *)
LEMMA SaneHistory ==
  ASSUME NEW d, Sane(d), NEW script, SoundScript(script)
  PROVE  \E h : /\ h[0] = d
                /\ \A n \in 1 .. Len(script) : h[n] = Execute(h[n - 1], script[n])
                /\ \A n \in 0 .. Len(script) : Sane(h[n])
                /\ ExecuteAll(d, script) = h[Len(script)]
<1>1. PICK h : /\ h[0] = d
               /\ \A n \in 1 .. Len(script) : h[n] = Execute(h[n - 1], script[n])
               /\ ExecuteAll(d, script) = h[Len(script)]
  <2>1. Len(script) \in Nat
    BY DEF SoundScript
  <2> QED
    BY <2>1, RunHistory, SMTT(30)
<1> DEFINE S == {n \in 0 .. Len(script) : Sane(h[n])}
<1>2. 0 \in S
  BY <1>1 DEF SoundScript
<1>3. \A n \in 0 + 1 .. Len(script) : n - 1 \in S => n \in S
  BY <1>1, StatementKeeps DEF SoundScript
<1> HIDE DEF S
<1>4. 0 .. Len(script) \subseteq S
  BY <1>2, <1>3, CountUp DEF SoundScript
<1> QED
  BY <1>1, <1>4 DEF S

(* The databases a successful run goes through.                            *)
Runs(h, d, script) ==
  /\ h[0] = d
  /\ \A n \in 1 .. Len(script) :
       Possible(h[n - 1], script[n]) /\ h[n] = Effect(h[n - 1], script[n])
  /\ \A n \in 0 .. Len(script) : Sane(h[n]) /\ h[n].ok

(* When a script has succeeded in the end, each of its statements has.     *)
LEMMA GoodHistory ==
  ASSUME NEW d, Sane(d), NEW script, SoundScript(script), ExecuteAll(d, script).ok
  PROVE  \E h : Runs(h, d, script) /\ ExecuteAll(d, script) = h[Len(script)]
<1> DEFINE L == Len(script)
<1>0. L \in Nat /\ \A n \in 1 .. L : Sound(script[n]) /\ script[n].do \in Kinds
  BY DEF SoundScript, Sound
<1>1. PICK h : /\ h[0] = d
               /\ \A n \in 1 .. L : h[n] = Execute(h[n - 1], script[n])
               /\ \A n \in 0 .. L : Sane(h[n])
               /\ ExecuteAll(d, script) = h[L]
  BY SaneHistory
<1> HIDE DEF L
<1>2. ASSUME NEW m \in 0 .. L, ~h[m].ok PROVE FALSE
  <2> DEFINE S == {n \in m .. L : ~h[n].ok}
  <2>1. m \in S
    BY <1>0, <1>2
  <2>2. ASSUME NEW n \in m + 1 .. L, n - 1 \in S PROVE n \in S
    <3>1. n \in 1 .. L /\ n - 1 \in 0 .. L
      BY <1>0
    <3>2. Shape(h[n - 1]) /\ ~h[n - 1].ok
      BY <1>1, <2>2, <3>1 DEF Sane
    <3>3. ~Execute(h[n - 1], script[n]).ok
      BY <1>0, <3>1, <3>2, ExecuteCases
    <3> QED
      BY <1>0, <1>1, <3>1, <3>3
  <2> HIDE DEF S
  <2>3. m .. L \subseteq S
    BY <1>0, <2>1, <2>2, CountUp
  <2> QED
    BY <1>0, <1>1, <2>3 DEF S, L
<1>3. ASSUME NEW n \in 1 .. L
      PROVE  Possible(h[n - 1], script[n]) /\ h[n] = Effect(h[n - 1], script[n])
  <2>1. n - 1 \in 0 .. L /\ n \in 0 .. L
    BY <1>0
  <2>2. Shape(h[n - 1]) /\ h[n].ok
    BY <1>1, <1>2, <2>1 DEF Sane
  <2> QED
    BY <1>0, <1>1, <2>2, ExecuteCases
<1> QED
  BY <1>1, <1>2, <1>3 DEF L, Runs

(* A script keeps a database sane, and mends none that had failed.         *)
LEMMA ScriptKeeps ==
  ASSUME NEW d, Sane(d), NEW script, SoundScript(script)
  PROVE  Sane(ExecuteAll(d, script)) /\ (ExecuteAll(d, script).ok => d.ok)
<1>1. Sane(ExecuteAll(d, script))
  <2>1. PICK h : /\ \A n \in 0 .. Len(script) : Sane(h[n])
                 /\ ExecuteAll(d, script) = h[Len(script)]
    BY SaneHistory
  <2> QED
    BY <2>1 DEF SoundScript
<1>2. ASSUME ExecuteAll(d, script).ok PROVE d.ok
  <2>1. PICK h : Runs(h, d, script)
    BY <1>2, GoodHistory
  <2> QED
    BY <2>1 DEF SoundScript, Runs
<1> QED
  BY <1>1, <1>2

(* What succeeds on a database succeeds on an alike one without rows, and  *)
(* they remain alike.                                                      *)
LEMMA AlikeRun ==
  ASSUME NEW c, Sane(c), c.ok, c.rows = {}, NEW d, Sane(d), NEW X \in Loose, Others(c, d, X),
         NEW script, SoundScript(script), ExecuteAll(d, script).ok
  PROVE  LET a == ExecuteAll(c, script)
             b == ExecuteAll(d, script)
         IN  a.ok /\ Others(a, b, X)
<1> DEFINE L == Len(script)
<1>0. L \in Nat /\ \A n \in 1 .. L : script[n].do \in Kinds
  BY DEF SoundScript, Sound
<1>1. PICK h : /\ h[0] = d
               /\ \A n \in 1 .. L :
                    /\ Possible(h[n - 1], script[n])
                    /\ h[n] = Effect(h[n - 1], script[n])
               /\ \A n \in 0 .. L : Sane(h[n]) /\ h[n].ok
               /\ ExecuteAll(d, script) = h[L]
  BY GoodHistory DEF Runs
<1>2. PICK g : /\ g[0] = c
               /\ \A n \in 1 .. L : g[n] = Execute(g[n - 1], script[n])
               /\ \A n \in 0 .. L : Sane(g[n])
               /\ ExecuteAll(c, script) = g[L]
  <2> HIDE DEF L
  <2>1. \E h2 : /\ h2[0] = c
                /\ \A n \in 1 .. Len(script) : h2[n] = Execute(h2[n - 1], script[n])
                /\ \A n \in 0 .. Len(script) : Sane(h2[n])
                /\ ExecuteAll(c, script) = h2[Len(script)]
    BY SaneHistory
  <2> QED
    BY <2>1 DEF L
<1> HIDE DEF L
<1> DEFINE S == {n \in 0 .. L : g[n].ok /\ g[n].rows = {} /\ Others(g[n], h[n], X)}
<1>3. 0 \in S
  BY <1>0, <1>1, <1>2
<1>4. ASSUME NEW n \in 0 + 1 .. L, n - 1 \in S PROVE n \in S
  <2>1. n \in 1 .. L /\ n - 1 \in 0 .. L
    BY <1>0
  <2>2. Shape(g[n - 1]) /\ Shape(h[n - 1])
    BY <1>1, <1>2, <2>1 DEF Sane
  <2>3. g[n - 1].ok /\ g[n - 1].rows = {} /\ Others(g[n - 1], h[n - 1], X)
    BY <1>4
  <2>4. Possible(g[n - 1], script[n])
    BY <1>1, <2>1, <2>3, AlikePossible
  <2>5. g[n] = Effect(g[n - 1], script[n]) /\ h[n] = Effect(h[n - 1], script[n])
    BY <1>1, <1>2, <2>1, <2>3, <2>4 DEF Execute
  <2>6. script[n].do \in Kinds
    BY <1>0, <2>1
  <2>7. Others(g[n], h[n], X)
    BY <2>2, <2>3, <2>5, <2>6, AlikeStep
  <2>8. g[n].ok /\ g[n].rows = {}
    BY <2>2, <2>3, <2>5, <2>6, EmptyStays
  <2> QED
    BY <1>0, <2>7, <2>8
<1> HIDE DEF S
<1>5. 0 .. L \subseteq S
  BY <1>0, <1>3, <1>4, CountUp
<1> QED
  BY <1>0, <1>1, <1>2, <1>5 DEF S, L

(***************************************************************************)
(* The statements of each revision.                                        *)
(***************************************************************************)

(* The statements of revision v: but for 0002, which brings none, they are *)
(* about its own tables.                                                   *)
New == << Spine, Spine, {"location", "location_alias"},
          {"audit_card", "cost_ledger", "cost_budget"}, {"cost_preview", "approval"} >>
Drops == {"drop table", "drop key", "unsecure", "drop policies", "drop triggers",
          "drop functions"}

Concerns(s, tables) ==
  /\ s.do \in {"create table", "drop table"} => s.table \in tables
  /\ s.do \in {"add key", "drop key"} => s.key.from \in tables \/ s.key.to \in tables
  /\ s.do \in {"secure", "unsecure", "drop policies"} => s.tables \subseteq tables
  /\ s.do = "create policies" => \A p \in s.policies : p.table \in tables
  /\ s.do \in {"create triggers", "drop triggers"} => \A t \in s.triggers : t[1] \in tables
  /\ s.do \in {"grant", "revoke"} => \A g \in s.grants : g[2] \in tables

(* From 0003 on the worker is given no more than to read and to insert     *)
(* cards and ledger entries, the read-only role nothing, and nobody is to  *)
(* truncate.                                                               *)
GrantOk(g) ==
  /\ g[1] = "app_worker" =>
       g[3] = "select" \/ g \in Worker \X {"audit_card", "cost_ledger"} \X {"insert"}
  /\ g[1] = "app_readonly" => g[3] = "select"
  /\ g[3] # "truncate"
  /\ g = <<g[1], g[2], g[3]>>

Part(s, v, way) ==
  /\ Sound(s) /\ Concerns(s, New[v])
  /\ s.do \in Drops <=> way = "down"
  /\ s.do \in {"grant on all", "default"} => v = 2
  /\ s.do \in {"create functions", "drop functions"} => v = 4
  /\ v = 1 => s.do \in {"create table", "drop table"}
  /\ v = 2 => s.do \notin {"create table", "drop table", "add key", "drop key"}
  /\ v = 2 /\ s.do = "create triggers" => s.triggers \subseteq Triggers2
  /\ v > 2 /\ s.do = "grant" => \A g \in s.grants : GrantOk(g)
IsScript(script, v, way) ==
  Len(script) \in Nat /\ \A n \in 1 .. Len(script) : Part(script[n], v, way)

(* The tables of each revision, by number.                                 *)
LEMMA NewAre ==
  /\ New[1] = Spine /\ New[2] = Spine /\ New[3] = {"location", "location_alias"}
  /\ New[4] = {"audit_card", "cost_ledger", "cost_budget"}
  /\ New[5] = {"cost_preview", "approval"}
  BY DEF New

(* Statements about a table of revision v are parts of it: creating its    *)
(* own tables goes up, dropping them goes down.                            *)
LEMMA TableParts ==
  ASSUME NEW v \in {1, 3, 4, 5}, NEW t \in New[v]
  PROVE  /\ \A keys : (\A k \in keys : k.from = t /\ KeyOk(k)) =>
                       Part(CreateTable(t, keys), v, "up")
         /\ Part(DropTable(t), v, "down")
  BY DEF Part, Sound, Kinds, Concerns, Drops, CreateTable, DropTable

(* Adding and dropping a key from or to one of the revision's tables.      *)
LEMMA KeyParts ==
  ASSUME NEW v \in 3 .. 5, NEW k, k.from \in New[v] \/ k.to \in New[v], KeyOk(k)
  PROVE  Part(AddKey(k), v, "up") /\ Part(DropKey(k), v, "down")
  BY DEF Part, Sound, Kinds, Concerns, Drops, AddKey, DropKey

(* Row security of the revision's tables, and the end of their policies.   *)
LEMMA SecurityParts ==
  ASSUME NEW v \in 2 .. 5, NEW tables \in SUBSET New[v]
  PROVE  /\ Part(Secure(tables), v, "up") /\ Part(Unsecure(tables), v, "down")
         /\ Part(DropPolicies(tables), v, "down")
  BY DEF Part, Sound, Kinds, Concerns, Drops, Secure, Unsecure, DropPolicies

(* Policies on the revision's tables.                                      *)
LEMMA PolicyParts ==
  ASSUME NEW v \in 2 .. 5, NEW policies,
         \A p \in policies : p.table \in New[v] /\ PolicyOk(p)
  PROVE  Part(CreatePolicies(policies), v, "up")
  BY DEF Part, Sound, Kinds, Concerns, Drops, CreatePolicies

(* Triggers on the revision's tables.                                      *)
LEMMA TriggerParts ==
  ASSUME NEW v \in 2 .. 5, NEW triggers, \A t \in triggers : t[1] \in New[v],
         v = 2 => triggers \subseteq Triggers2
  PROVE  Part(CreateTriggers(triggers), v, "up") /\ Part(DropTriggers(triggers), v, "down")
  BY DEF Part, Sound, Kinds, Concerns, Drops, CreateTriggers, DropTriggers

(* Grants on the revision's tables, and revokes of them.                   *)
LEMMA GrantParts ==
  ASSUME NEW v \in 2 .. 5, NEW roles, NEW tables \in SUBSET New[v], NEW cmds
  PROVE  /\ (v > 2 => \A g \in roles \X tables \X cmds : GrantOk(g)) =>
              Part(Grant(roles, tables, cmds), v, "up")
         /\ Part(Revoke(roles, tables, cmds), v, "up")
  BY DEF Part, Sound, Kinds, Concerns, Drops, Grant, Revoke

(* What only 0002 does: grants on all tables, and default privileges.      *)
LEMMA RoleParts ==
  ASSUME NEW roles, NEW cmds
  PROVE  /\ Part(GrantSelectOnAll(roles), 2, "up")
         /\ roles \X cmds \subseteq Defaults2 => Part(DefaultGrant(roles, cmds), 2, "up")
  BY DEF Part, Sound, Kinds, Concerns, Drops, GrantSelectOnAll, DefaultGrant

(* What only 0004 does: functions.                                         *)
LEMMA FunctionParts ==
  /\ Part(CreateFunctions(Functions4), 4, "up")
  /\ \A names : Part(DropFunctions(names), 4, "down")
  BY DEF Part, Sound, Kinds, Concerns, Drops, CreateFunctions, DropFunctions

(* A key of the migrations cascades from the two leaf tables only, and     *)
(* none refers to these.                                                   *)
LEMMA KeysAreOk ==
  /\ \A t : KeyOk(TenantKey(t)) /\ TenantKey(t).from = t
  /\ \A f, c, t : Key(f, c, t).from = f /\ CascadeKey(f, c, t).from = f
  /\ \A f, c, t : t \notin Cascaded => KeyOk(Key(f, c, t))
  /\ \A f, c, t : t \notin Cascaded /\ f \in Cascaded => KeyOk(CascadeKey(f, c, t))
  BY DEF KeyOk, TenantKey, Key, CascadeKey, Cascaded

(***************************************************************************)
(* The five revisions.                                                     *)
(***************************************************************************)

(* The scripts, statement by statement.  0001 creates the tenant spine and *)
(* drops it again (0001_tenant_spine.py).                                  *)
LEMMA Script1 ==
  /\ Len(Up1) = 5
  /\ Up1[1] = CreateTable("tenant", {}) /\ Up1[2] = CreateTable("user_profile", {})
  /\ Up1[3] = CreateTable("membership",
       {TenantKey("membership"), Key("membership", "user_id", "user_profile"),
        Key("membership", "invited_by", "user_profile")})
  /\ Up1[4] = CreateTable("membership_location",
       {CascadeKey("membership_location", "membership_id", "membership")})
  /\ Up1[5] = CreateTable("tenant_credential", {TenantKey("tenant_credential")})
  /\ Len(Down1) = 5
  /\ Down1[1] = DropTable("tenant_credential") /\ Down1[2] = DropTable("membership_location")
  /\ Down1[3] = DropTable("membership") /\ Down1[4] = DropTable("user_profile")
  /\ Down1[5] = DropTable("tenant")
  BY DEF Up1, Down1

(* Each statement of 0001 is a part of revision 1.                         *)
LEMMA Parts1 == IsScript(Up1, 1, "up") /\ IsScript(Down1, 1, "down")
<1>1. /\ "user_profile" \notin Cascaded /\ "membership" \notin Cascaded
      /\ "membership_location" \in Cascaded
  BY DEF Cascaded
<1>2. /\ "tenant" \in New[1] /\ "user_profile" \in New[1] /\ "membership" \in New[1]
      /\ "membership_location" \in New[1] /\ "tenant_credential" \in New[1]
  BY NewAre DEF Spine
<1>3. Part(Up1[1], 1, "up") /\ Part(Up1[2], 1, "up")
  BY <1>2, Script1, TableParts
<1>4. Part(Up1[3], 1, "up")
  BY <1>1, <1>2, Script1, TableParts, KeysAreOk
<1>5. Part(Up1[4], 1, "up")
  BY <1>1, <1>2, Script1, TableParts, KeysAreOk
<1>6. Part(Up1[5], 1, "up")
  BY <1>2, Script1, TableParts, KeysAreOk
<1>7. \A n \in 1 .. 5 : Part(Down1[n], 1, "down")
  BY <1>2, Script1, TableParts
<1> QED
  BY <1>3, <1>4, <1>5, <1>6, <1>7, Script1 DEF IsScript

(* 0002 grants, secures the spine and adds its policies and triggers; its  *)
(* downgrade takes no grant back (0002_roles_and_functions.py).            *)
LEMMA Script2 ==
  /\ Len(Up2) = 9
  /\ Up2[1] = Grant(Api, Spine, Crud) /\ Up2[2] = GrantSelectOnAll(Worker \cup Readonly)
  /\ Up2[3] = Revoke(Worker, Identity, Commands) /\ Up2[4] = GrantSelectOnAll(Readonly)
  /\ Up2[5] = DefaultGrant(Api, Crud)
  /\ Up2[6] = DefaultGrant(Worker \cup Readonly, {"select"})
  /\ Up2[7] = Secure(Spine) /\ Up2[8] = CreatePolicies(Policies2)
  /\ Up2[9] = CreateTriggers(Triggers2)
  /\ Len(Down2) = 3
  /\ Down2[1] = DropTriggers(Triggers2) /\ Down2[2] = DropPolicies(Spine)
  /\ Down2[3] = Unsecure(Spine)
  BY DEF Up2, Grants2, Down2

(* A trigger is on one of the tables it is created for.                    *)
LEMMA TriggersAre ==
  /\ \A tables, t : t \in EnforceTenant(tables) => t[1] \in tables
  /\ \A tables, t : t \in UpdatedAt(tables) => t[1] \in tables
  BY DEF EnforceTenant, UpdatedAt

(* A set of policies is on one table and has one rule.                     *)
LEMMA PoliciesAre ==
  ASSUME NEW table, NEW rule, NEW readers, NEW writers, NEW deleters,
         NEW p \in Policies(table, rule, readers, writers, deleters)
  PROVE  p.table = table /\ p.rule = rule
  BY DEF Policies, Policy

(* The policies of 0002 are on the spine and name the tenant, the profile  *)
(* or the membership.                                                      *)
LEMMA Policies2Ok == \A p \in Policies2 : p.table \in Spine /\ PolicyOk(p)
<1> TAKE p \in Policies2
<1>1. ASSUME p = Policy("tenant", "select", AppRoles, "its tenant")
      PROVE  p.table \in Spine /\ PolicyOk(p)
  <2>1. p.table = "tenant" /\ p.cmd = "select" /\ p.rule = "its tenant"
    BY <1>1 DEF Policy
  <2> QED
    BY <2>1 DEF PolicyOk, Spine
<1>2. ASSUME p = Policy("user_profile", "select", Api, "self")
      PROVE  p.table \in Spine /\ PolicyOk(p)
  <2>1. p.table = "user_profile" /\ p.cmd = "select" /\ p.rule = "self"
    BY <1>2 DEF Policy
  <2> QED
    BY <2>1 DEF PolicyOk, Spine
<1>3. ASSUME p \in Policies("membership", "tenant", AppRoles, Api \cup Worker, Api)
      PROVE  p.table \in Spine /\ PolicyOk(p)
  <2>1. p.table = "membership" /\ p.rule = "tenant"
    BY <1>3, PoliciesAre
  <2> QED
    BY <2>1 DEF PolicyOk, Spine
<1>4. ASSUME p \in Policies("membership_location", "membership", AppRoles,
                           Api \cup Worker, Api)
      PROVE  p.table \in Spine /\ PolicyOk(p)
  <2>1. p.table = "membership_location" /\ p.rule = "membership"
    BY <1>4, PoliciesAre
  <2> QED
    BY <2>1 DEF PolicyOk, Spine
<1>5. ASSUME p \in Policies("tenant_credential", "tenant", Api, Api \cup Worker, Api)
      PROVE  p.table \in Spine /\ PolicyOk(p)
  <2>1. p.table = "tenant_credential" /\ p.rule = "tenant"
    BY <1>5, PoliciesAre
  <2> QED
    BY <2>1 DEF PolicyOk, Spine
<1> QED
  BY <1>1, <1>2, <1>3, <1>4, <1>5, Zenon DEF Policies2

(* Each statement of 0002 is a part of revision 2.                         *)
LEMMA Parts2 == IsScript(Up2, 2, "up") /\ IsScript(Down2, 2, "down")
<1>1. /\ Api \X Crud \subseteq Defaults2
      /\ (Worker \cup Readonly) \X {"select"} \subseteq Defaults2
      /\ Identity \subseteq Spine /\ New[2] = Spine
  BY NewAre DEF Defaults2, Identity
<1>2. Part(Up2[1], 2, "up") /\ Part(Up2[3], 2, "up")
  BY <1>1, Script2, GrantParts
<1>3. Part(Up2[2], 2, "up") /\ Part(Up2[4], 2, "up")
  BY Script2, RoleParts
<1>4. Part(Up2[5], 2, "up") /\ Part(Up2[6], 2, "up")
  BY <1>1, Script2, RoleParts
<1>5. Part(Up2[7], 2, "up") /\ Part(Down2[2], 2, "down") /\ Part(Down2[3], 2, "down")
  BY <1>1, Script2, SecurityParts
<1>6. Part(Up2[8], 2, "up")
  BY <1>1, Script2, PolicyParts, Policies2Ok
<1>7. Part(Up2[9], 2, "up") /\ Part(Down2[1], 2, "down")
  <2>1. \A t \in Triggers2 : t[1] \in Spine
    BY DEF Triggers2, EnforceTenant, UpdatedAt, Spine
  <2> QED
    BY <1>1, <2>1, Script2, TriggerParts
<1> QED
  BY <1>2, <1>3, <1>4, <1>5, <1>6, <1>7, Script2 DEF IsScript

(* 0003 creates the locations and their aliases, and the key that the      *)
(* scope of a membership lacked (0003_location.py).                        *)
LEMMA Script3 ==
  /\ Len(Up3) = 6
  /\ Up3[1] = CreateTable("location", {TenantKey("location")})
  /\ Up3[2] = CreateTable("location_alias",
       {TenantKey("location_alias"),
        CascadeKey("location_alias", "location_id", "location"),
        Key("location_alias", "created_by", "user_profile")})
  /\ Up3[3] = AddKey(ScopeKey)
  /\ Up3[4] = Secure(Secured3) /\ Up3[5] = CreatePolicies(Policies3)
  /\ Up3[6] = CreateTriggers(Triggers3)
  /\ Len(Down3) = 5
  /\ Down3[1] = DropTriggers(Triggers3)
  /\ Down3[2] = DropPolicies({"location", "location_alias"})
  /\ Down3[3] = DropKey(ScopeKey)
  /\ Down3[4] = DropTable("location_alias") /\ Down3[5] = DropTable("location")
  BY DEF Up3, Tables3, Down3

(* A policy by tenant or by location scope is fine on any table that has   *)
(* no rule of its own.                                                     *)
LEMMA TenantPolicyOk ==
  ASSUME NEW p, p.table \notin {"tenant", "user_profile", "membership_location"},
         p.rule \in {"tenant", "location scope"}
  PROVE  PolicyOk(p)
  BY DEF PolicyOk

(* The policies of 0003 are on its own tables.                             *)
LEMMA Policies3Ok == \A p \in Policies3 : p.table \in New[3] /\ PolicyOk(p)
<1> TAKE p \in Policies3
<1>1. ASSUME p \in Policies("location_alias", "tenant", AppRoles, Api \cup Worker, Api)
      PROVE  p.table = "location_alias" /\ p.rule = "tenant"
  BY <1>1, PoliciesAre
<1>2. ASSUME \/ p = Policy("location", "select", Api, "location scope")
             \/ p = Policy("location", "select", Worker \cup Readonly, "tenant")
             \/ \E cmd \in {"insert", "update", "delete"} :
                  p = Policy("location", cmd, Api, "tenant")
      PROVE  p.table = "location" /\ (p.rule = "location scope" \/ p.rule = "tenant")
  <2>1. CASE p = Policy("location", "select", Api, "location scope")
    BY <2>1 DEF Policy
  <2>2. CASE p = Policy("location", "select", Worker \cup Readonly, "tenant")
    BY <2>2 DEF Policy
  <2>3. CASE \E cmd \in {"insert", "update", "delete"} :
               p = Policy("location", cmd, Api, "tenant")
    BY <2>3 DEF Policy
  <2> QED
    BY <1>2, <2>1, <2>2, <2>3
<1>3. \/ p.table = "location_alias" /\ p.rule = "tenant"
      \/ p.table = "location" /\ (p.rule = "location scope" \/ p.rule = "tenant")
  BY <1>1, <1>2, Zenon DEF Policies3
<1> QED
  BY <1>3, NewAre, TenantPolicyOk

(* Each statement of 0003 is a part of revision 3.                         *)
LEMMA Parts3 == IsScript(Up3, 3, "up") /\ IsScript(Down3, 3, "down")
<1>1. /\ "user_profile" \notin Cascaded /\ "location" \notin Cascaded
      /\ "membership_location" \in Cascaded /\ "location_alias" \in Cascaded
  BY DEF Cascaded
<1>2. /\ New[3] = {"location", "location_alias"} /\ Secured3 = New[3]
      /\ 3 \in 3 .. 5 /\ 3 \in 2 .. 5 /\ 3 \in {1, 3, 4, 5}
  BY NewAre DEF Secured3
<1>3. ScopeKey.to \in New[3] /\ KeyOk(ScopeKey)
  BY <1>1, <1>2, KeysAreOk DEF ScopeKey, CascadeKey, Key
<1>4. Part(Up3[1], 3, "up")
  BY <1>2, Script3, TableParts, KeysAreOk
<1>5. Part(Up3[2], 3, "up")
  BY <1>1, <1>2, Script3, TableParts, KeysAreOk
<1>6. Part(Up3[3], 3, "up") /\ Part(Down3[3], 3, "down")
  BY <1>2, <1>3, Script3, KeyParts
<1>7. Part(Up3[4], 3, "up") /\ Part(Down3[2], 3, "down")
  BY <1>2, Script3, SecurityParts
<1>8. Part(Up3[5], 3, "up")
  BY <1>2, Script3, PolicyParts, Policies3Ok
<1>9. Part(Up3[6], 3, "up") /\ Part(Down3[1], 3, "down")
  <2>1. \A t \in Triggers3 : t[1] \in New[3]
    BY <1>2 DEF Triggers3, EnforceTenant, UpdatedAt
  <2> QED
    BY <1>2, <2>1, Script3, TriggerParts
<1>10. Part(Down3[4], 3, "down") /\ Part(Down3[5], 3, "down")
  BY <1>2, Script3, TableParts
<1> QED
  BY <1>4, <1>5, <1>6, <1>7, <1>8, <1>9, <1>10, Script3 DEF IsScript

(* 0004 creates cards, ledger and budgets, the guard of the cards, the     *)
(* narrower grants of the worker, and the functions                        *)
(* (0004_audit_and_cost.py).                                               *)
LEMMA Script4 ==
  /\ Len(Up4) = 10
  /\ Up4[1] = CreateTable("audit_card",
       {TenantKey("audit_card"), Key("audit_card", "location_id", "location"),
        Key("audit_card", "actor_id", "user_profile")})
  /\ Up4[2] = CreateTable("cost_ledger",
       {TenantKey("cost_ledger"), Key("cost_ledger", "location_id", "location")})
  /\ Up4[3] = CreateTable("cost_budget", {TenantKey("cost_budget")})
  /\ Up4[4] = Secure(Secured4) /\ Up4[5] = CreatePolicies(Policies4)
  /\ Up4[6] = CreateTriggers(Triggers4)
  /\ Up4[7] = Revoke(Api, {"audit_card"}, {"insert", "update", "delete"})
  /\ Up4[8] = Grant(Worker, {"audit_card", "cost_ledger"}, {"insert"})
  /\ Up4[9] = Revoke(Worker, {"cost_budget"}, Commands)
  /\ Up4[10] = CreateFunctions(Functions4)
  /\ Len(Down4) = 6
  /\ Down4[1] = DropFunctions({f[1] : f \in Functions4})
  /\ Down4[2] = DropTriggers(Triggers4) /\ Down4[3] = DropPolicies(Secured4)
  /\ Down4[4] = DropTable("cost_budget") /\ Down4[5] = DropTable("cost_ledger")
  /\ Down4[6] = DropTable("audit_card")
  BY DEF Up4, Tables4, Grants4, Down4

(* The policies of 0004 are on its own tables.                             *)
LEMMA Policies4Ok == \A p \in Policies4 : p.table \in New[4] /\ PolicyOk(p)
<1> TAKE p \in Policies4
<1>1. p.table = "audit_card" \/ p.table = "cost_ledger" \/ p.table = "cost_budget"
  BY PoliciesAre DEF Policies4, Policy
<1>2. p.rule = "tenant"
  BY PoliciesAre DEF Policies4, Policy
<1> QED
  BY <1>1, <1>2, NewAre, TenantPolicyOk

(* Each statement of 0004 is a part of revision 4.                         *)
LEMMA Parts4 == IsScript(Up4, 4, "up") /\ IsScript(Down4, 4, "down")
<1>1. "user_profile" \notin Cascaded /\ "location" \notin Cascaded
  BY DEF Cascaded
<1>2. /\ New[4] = {"audit_card", "cost_ledger", "cost_budget"} /\ Secured4 = New[4]
      /\ 4 \in 3 .. 5 /\ 4 \in 2 .. 5 /\ 4 \in {1, 3, 4, 5}
  BY NewAre DEF Secured4, Money
<1>3. Part(Up4[1], 4, "up")
  BY <1>1, <1>2, Script4, TableParts, KeysAreOk
<1>4. Part(Up4[2], 4, "up")
  BY <1>1, <1>2, Script4, TableParts, KeysAreOk
<1>5. Part(Up4[3], 4, "up")
  BY <1>2, Script4, TableParts, KeysAreOk
<1>6. Part(Up4[4], 4, "up") /\ Part(Down4[3], 4, "down")
  BY <1>2, Script4, SecurityParts
<1>7. Part(Up4[5], 4, "up")
  BY <1>2, Script4, PolicyParts, Policies4Ok
<1>8. Part(Up4[6], 4, "up") /\ Part(Down4[2], 4, "down")
  <2>1. \A t \in Triggers4 :
          t[1] \in Secured4 \/ t[1] = "cost_budget" \/ t[1] = "audit_card"
    BY TriggersAre DEF Triggers4
  <2> QED
    BY <1>2, <2>1, Script4, TriggerParts
<1>9. Part(Up4[7], 4, "up") /\ Part(Up4[9], 4, "up")
  BY <1>2, Script4, GrantParts
<1>10. Part(Up4[8], 4, "up")
  <2>1. \A g \in Worker \X {"audit_card", "cost_ledger"} \X {"insert"} : GrantOk(g)
    BY DEF GrantOk, Worker
  <2> QED
    BY <1>2, <2>1, Script4, GrantParts
<1>11. Part(Up4[10], 4, "up") /\ Part(Down4[1], 4, "down")
  BY Script4, FunctionParts
<1>12. Part(Down4[4], 4, "down") /\ Part(Down4[5], 4, "down") /\ Part(Down4[6], 4, "down")
  BY <1>2, Script4, TableParts
<1> QED
  BY <1>3, <1>4, <1>5, <1>6, <1>7, <1>8, <1>9, <1>10, <1>11, <1>12, Script4 DEF IsScript

(* 0005 creates previews and approvals, and the key from the cards to the  *)
(* approvals (0005_approval_ladder.py).                                    *)
LEMMA Script5 ==
  /\ Len(Up5) = 7
  /\ Up5[1] = CreateTable("cost_preview",
       {TenantKey("cost_preview"), Key("cost_preview", "location_id", "location"),
        Key("cost_preview", "requested_by", "user_profile")})
  /\ Up5[2] = CreateTable("approval",
       {TenantKey("approval"), Key("approval", "location_id", "location"),
        Key("approval", "cost_preview_id", "cost_preview"),
        Key("approval", "approved_by", "user_profile")})
  /\ Up5[3] = AddKey(CardKey)
  /\ Up5[4] = Secure({"cost_preview", "approval"})
  /\ Up5[5] = CreatePolicies(Policies5) /\ Up5[6] = CreateTriggers(Triggers5)
  /\ Up5[7] = Revoke(Worker, {"approval"}, Commands)
  /\ Len(Down5) = 5
  /\ Down5[1] = DropTriggers(Triggers5)
  /\ Down5[2] = DropPolicies({"cost_preview", "approval"})
  /\ Down5[3] = DropKey(CardKey)
  /\ Down5[4] = DropTable("approval") /\ Down5[5] = DropTable("cost_preview")
  BY DEF Up5, Tables5, Down5

(* The policies of 0005 are on its own tables.                             *)
LEMMA Policies5Ok == \A p \in Policies5 : p.table \in New[5] /\ PolicyOk(p)
<1> TAKE p \in Policies5
<1>1. (p.table = "cost_preview" \/ p.table = "approval") /\ p.rule = "tenant"
  BY PoliciesAre DEF Policies5
<1> QED
  BY <1>1, NewAre, TenantPolicyOk

(* Each statement of 0005 is a part of revision 5.                         *)
LEMMA Parts5 == IsScript(Up5, 5, "up") /\ IsScript(Down5, 5, "down")
<1>1. /\ "user_profile" \notin Cascaded /\ "location" \notin Cascaded
      /\ "cost_preview" \notin Cascaded /\ "approval" \notin Cascaded
  BY DEF Cascaded
<1>2. /\ New[5] = {"cost_preview", "approval"}
      /\ 5 \in 3 .. 5 /\ 5 \in 2 .. 5 /\ 5 \in {1, 3, 4, 5}
  BY NewAre
<1>3. CardKey.to \in New[5] /\ KeyOk(CardKey)
  BY <1>1, <1>2, KeysAreOk DEF CardKey, Key
<1>4. Part(Up5[1], 5, "up")
  BY <1>1, <1>2, Script5, TableParts, KeysAreOk
<1>5. Part(Up5[2], 5, "up")
  BY <1>1, <1>2, Script5, TableParts, KeysAreOk
<1>6. Part(Up5[3], 5, "up") /\ Part(Down5[3], 5, "down")
  BY <1>2, <1>3, Script5, KeyParts
<1>7. Part(Up5[4], 5, "up") /\ Part(Down5[2], 5, "down")
  BY <1>2, Script5, SecurityParts
<1>8. Part(Up5[5], 5, "up")
  BY <1>2, Script5, PolicyParts, Policies5Ok
<1>9. Part(Up5[6], 5, "up") /\ Part(Down5[1], 5, "down")
  <2>1. \A t \in Triggers5 : t[1] \in New[5]
    BY <1>2 DEF Triggers5, EnforceTenant
  <2> QED
    BY <1>2, <2>1, Script5, TriggerParts
<1>10. Part(Up5[7], 5, "up")
  BY <1>2, Script5, GrantParts
<1>11. Part(Down5[4], 5, "down") /\ Part(Down5[5], 5, "down")
  BY <1>2, Script5, TableParts
<1> QED
  BY <1>4, <1>5, <1>6, <1>7, <1>8, <1>9, <1>10, <1>11, Script5 DEF IsScript

(* Every upgrade() and downgrade() consists of parts of its revision, and  *)
(* of sound statements.                                                    *)
LEMMA AllParts ==
  \A v \in 1 .. LastRevision :
    /\ IsScript(Ups[v], v, "up") /\ IsScript(Downs[v], v, "down")
    /\ SoundScript(Ups[v]) /\ SoundScript(Downs[v])
<1>1. 1 .. LastRevision = {1, 2, 3, 4, 5}
  BY DEF LastRevision
<1>2. /\ Ups[1] = Up1 /\ Ups[2] = Up2 /\ Ups[3] = Up3 /\ Ups[4] = Up4 /\ Ups[5] = Up5
      /\ Downs[1] = Down1 /\ Downs[2] = Down2 /\ Downs[3] = Down3 /\ Downs[4] = Down4
      /\ Downs[5] = Down5
  BY DEF Ups, Downs
<1>3. \A v \in 1 .. LastRevision :
        IsScript(Ups[v], v, "up") /\ IsScript(Downs[v], v, "down")
  BY <1>1, <1>2, Parts1, Parts2, Parts3, Parts4, Parts5
<1> QED
  BY <1>3 DEF IsScript, SoundScript, Part

(***************************************************************************)
(* What a revision leaves alone.                                           *)
(***************************************************************************)

(* What the catalogs d and e have outside of some tables is the same.      *)
KeysOutside(d, N)     == {k \in d.keys : k.from \notin N /\ k.to \notin N}
GrantsOutside(d, N)   == {g \in d.grants : g[2] \notin N}
TriggersOutside(d, N) == {t \in d.triggers : t[1] \notin N}
SameOutside(d, e, N) ==
  /\ d.tables \ N = e.tables \ N
  /\ d.secured \ N = e.secured \ N
  /\ KeysOutside(d, N) = KeysOutside(e, N)
  /\ GrantsOutside(d, N) = GrantsOutside(e, N)
  /\ PoliciesOutside(d, N) = PoliciesOutside(e, N)
  /\ TriggersOutside(d, N) = TriggersOutside(e, N)
  /\ d.defaults = e.defaults

(* But for 0002, a statement changes nothing outside of the tables of its  *)
(* revision.                                                               *)
LEMMA OutsideStep ==
  ASSUME NEW d, Shape(d), NEW v, v # 2, NEW way, NEW s, Part(s, v, way)
  PROVE  SameOutside(d, Effect(d, s), New[v])
<1> DEFINE e == Effect(d, s)
           N == New[v]
<1>0. s.do \in Kinds /\ s.do \notin {"grant on all", "default"}
  BY DEF Part, Sound
<1>1. ASSUME s.do = "create table" PROVE SameOutside(d, e, N)
  <2>1. /\ Others(d, e, {"tables", "keys", "grants"})
        /\ e.tables = d.tables \cup {s.table}
        /\ e.keys = d.keys \cup s.keys
        /\ e.grants = d.grants \cup GrantsOf(d, s.table)
    BY <1>1, CreateTableEffect
  <2>2. s.table \in N /\ \A k \in s.keys : k.from = s.table
    BY <1>1 DEF Part, Sound, Concerns
  <2> HIDE DEF e, N
  <2> QED
    BY <2>1, <2>2 DEF Others, Fields, SameOutside,
       KeysOutside, GrantsOutside, PoliciesOutside, TriggersOutside, GrantsOf
<1>2. ASSUME s.do = "drop table" PROVE SameOutside(d, e, N)
  <2>1. /\ Others(d, e, {"tables", "secured", "keys", "grants", "policies",
                              "triggers", "rows"})
        /\ e.tables = d.tables \ {s.table}
        /\ e.secured = d.secured \ {s.table}
        /\ e.keys = KeysBut(d, s.table)
        /\ e.grants = GrantsBut(d, s.table)
        /\ e.policies = PoliciesBut(d, s.table)
        /\ e.triggers = TriggersBut(d, s.table)
    BY <1>2, DropTableEffect
  <2>2. s.table \in N
    BY <1>2 DEF Part, Sound, Concerns
  <2> HIDE DEF e, N
  <2> QED
    BY <2>1, <2>2 DEF Others, Fields, SameOutside,
       KeysOutside, GrantsOutside, PoliciesOutside, TriggersOutside, KeysBut, GrantsBut,
       PoliciesBut, TriggersBut
<1>3. ASSUME s.do = "add key" PROVE SameOutside(d, e, N)
  <2>1. /\ Others(d, e, {"keys"})
        /\ e.keys = d.keys \cup {s.key}
    BY <1>3, AddKeyEffect
  <2>2. s.key.from \in N \/ s.key.to \in N
    BY <1>3 DEF Part, Sound, Concerns
  <2> HIDE DEF e, N
  <2> QED
    BY <2>1, <2>2 DEF Others, Fields, SameOutside,
       KeysOutside, GrantsOutside, PoliciesOutside, TriggersOutside
<1>4. ASSUME s.do = "drop key" PROVE SameOutside(d, e, N)
  <2>1. /\ Others(d, e, {"keys"})
        /\ e.keys = d.keys \ {s.key}
    BY <1>4, DropKeyEffect
  <2>2. s.key.from \in N \/ s.key.to \in N
    BY <1>4 DEF Part, Sound, Concerns
  <2> HIDE DEF e, N
  <2> QED
    BY <2>1, <2>2 DEF Others, Fields, SameOutside,
       KeysOutside, GrantsOutside, PoliciesOutside, TriggersOutside
<1>5. ASSUME s.do = "secure" PROVE SameOutside(d, e, N)
  <2>1. /\ Others(d, e, {"secured"})
        /\ e.secured = d.secured \cup s.tables
    BY <1>5, SecureEffect
  <2>2. s.tables \subseteq N
    BY <1>5 DEF Part, Sound, Concerns
  <2> HIDE DEF e, N
  <2> QED
    BY <2>1, <2>2 DEF Others, Fields, SameOutside,
       KeysOutside, GrantsOutside, PoliciesOutside, TriggersOutside
<1>6. ASSUME s.do = "unsecure" PROVE SameOutside(d, e, N)
  <2>1. /\ Others(d, e, {"secured"})
        /\ e.secured = d.secured \ s.tables
    BY <1>6, UnsecureEffect
  <2>2. s.tables \subseteq N
    BY <1>6 DEF Part, Sound, Concerns
  <2> HIDE DEF e, N
  <2> QED
    BY <2>1, <2>2 DEF Others, Fields, SameOutside,
       KeysOutside, GrantsOutside, PoliciesOutside, TriggersOutside
<1>7. ASSUME s.do = "create policies" PROVE SameOutside(d, e, N)
  <2>1. /\ Others(d, e, {"policies"})
        /\ e.policies = d.policies \cup s.policies
    BY <1>7, CreatePoliciesEffect
  <2>2. \A p \in s.policies : p.table \in N
    BY <1>7 DEF Part, Sound, Concerns
  <2> HIDE DEF e, N
  <2> QED
    BY <2>1, <2>2 DEF Others, Fields, SameOutside,
       KeysOutside, GrantsOutside, PoliciesOutside, TriggersOutside
<1>8. ASSUME s.do = "drop policies" PROVE SameOutside(d, e, N)
  <2>1. /\ Others(d, e, {"policies"})
        /\ e.policies = PoliciesOutside(d, s.tables)
    BY <1>8, DropPoliciesEffect
  <2>2. s.tables \subseteq N
    BY <1>8 DEF Part, Sound, Concerns
  <2> HIDE DEF e, N
  <2> QED
    BY <2>1, <2>2 DEF Others, Fields, SameOutside,
       KeysOutside, GrantsOutside, PoliciesOutside, TriggersOutside
<1>9. ASSUME s.do = "create triggers" PROVE SameOutside(d, e, N)
  <2>1. /\ Others(d, e, {"triggers"})
        /\ e.triggers = d.triggers \cup s.triggers
    BY <1>9, CreateTriggersEffect
  <2>2. \A t \in s.triggers : t[1] \in N
    BY <1>9 DEF Part, Sound, Concerns
  <2> HIDE DEF e, N
  <2> QED
    BY <2>1, <2>2 DEF Others, Fields, SameOutside,
       KeysOutside, GrantsOutside, PoliciesOutside, TriggersOutside
<1>10. ASSUME s.do = "drop triggers" PROVE SameOutside(d, e, N)
  <2>1. /\ Others(d, e, {"triggers"})
        /\ e.triggers = d.triggers \ s.triggers
    BY <1>10, DropTriggersEffect
  <2>2. \A t \in s.triggers : t[1] \in N
    BY <1>10 DEF Part, Sound, Concerns
  <2> HIDE DEF e, N
  <2> QED
    BY <2>1, <2>2 DEF Others, Fields, SameOutside,
       KeysOutside, GrantsOutside, PoliciesOutside, TriggersOutside
<1>11. ASSUME s.do = "grant" PROVE SameOutside(d, e, N)
  <2>1. /\ Others(d, e, {"grants"})
        /\ e.grants = d.grants \cup s.grants
    BY <1>11, GrantEffect
  <2>2. \A g \in s.grants : g[2] \in N
    BY <1>11 DEF Part, Sound, Concerns
  <2> HIDE DEF e, N
  <2> QED
    BY <2>1, <2>2 DEF Others, Fields, SameOutside,
       KeysOutside, GrantsOutside, PoliciesOutside, TriggersOutside
<1>12. ASSUME s.do = "revoke" PROVE SameOutside(d, e, N)
  <2>1. /\ Others(d, e, {"grants"})
        /\ e.grants = d.grants \ s.grants
    BY <1>12, RevokeEffect
  <2>2. \A g \in s.grants : g[2] \in N
    BY <1>12 DEF Part, Sound, Concerns
  <2> HIDE DEF e, N
  <2> QED
    BY <2>1, <2>2 DEF Others, Fields, SameOutside,
       KeysOutside, GrantsOutside, PoliciesOutside, TriggersOutside
<1>13. ASSUME s.do = "create functions" PROVE SameOutside(d, e, N)
  <2>1. /\ Others(d, e, {"functions"})
        /\ e.functions = d.functions \cup s.functions
    BY <1>13, CreateFunctionsEffect
  <2> HIDE DEF e, N
  <2> QED
    BY <2>1 DEF Others, Fields, SameOutside,
       KeysOutside, GrantsOutside, PoliciesOutside, TriggersOutside
<1>14. ASSUME s.do = "drop functions" PROVE SameOutside(d, e, N)
  <2>1. /\ Others(d, e, {"functions"})
        /\ e.functions = FunctionsBut(d, s.names)
    BY <1>14, DropFunctionsEffect
  <2> HIDE DEF e, N
  <2> QED
    BY <2>1 DEF Others, Fields, SameOutside,
       KeysOutside, GrantsOutside, PoliciesOutside, TriggersOutside
<1> QED
  BY <1>0, <1>1, <1>2, <1>3, <1>4, <1>5, <1>6, <1>7, <1>8, <1>9, <1>10, <1>11, <1>12,
     <1>13, <1>14 DEF Kinds

(* Nor does a whole script.                                                *)
LEMMA OutsideRun ==
  ASSUME NEW v, v # 2, NEW way, NEW script, IsScript(script, v, way),
         NEW d, NEW h, Runs(h, d, script)
  PROVE  SameOutside(d, h[Len(script)], New[v])
<1> DEFINE L == Len(script)
           S == {n \in 0 .. L : SameOutside(d, h[n], New[v])}
<1>1. L \in Nat /\ \A n \in 1 .. L : Part(script[n], v, way)
  BY DEF IsScript
<1>2. /\ h[0] = d
      /\ \A n \in 1 .. L : h[n] = Effect(h[n - 1], script[n])
      /\ \A n \in 0 .. L : Shape(h[n])
  BY DEF Runs, Sane
<1> HIDE DEF L
<1>3. 0 \in S
  BY <1>1, <1>2 DEF SameOutside
<1>4. ASSUME NEW n \in 0 + 1 .. L, n - 1 \in S PROVE n \in S
  <2>1. n \in 1 .. L /\ n - 1 \in 0 .. L /\ n \in 0 .. L
    BY <1>1
  <2>2. Shape(h[n - 1]) /\ Part(script[n], v, way) /\ SameOutside(d, h[n - 1], New[v])
    BY <1>1, <1>2, <1>4, <2>1
  <2>3. SameOutside(h[n - 1], Effect(h[n - 1], script[n]), New[v])
    BY <2>2, OutsideStep
  <2>4. SameOutside(h[n - 1], h[n], New[v])
    BY <1>2, <2>1, <2>3
  <2> QED
    BY <2>1, <2>2, <2>4 DEF SameOutside
<1> HIDE DEF S
<1>5. 0 .. L \subseteq S
  BY <1>1, <1>3, <1>4, CountUp
<1> QED
  BY <1>1, <1>5 DEF S, L

(* A statement of an upgrade takes no row security and no trigger away,    *)
(* and leaves the rows alone.                                              *)
LEMMA UpStep ==
  ASSUME NEW d, Shape(d), NEW v, NEW s, Part(s, v, "up")
  PROVE  LET e == Effect(d, s)
         IN  d.secured \subseteq e.secured /\ d.triggers \subseteq e.triggers /\ e.rows = d.rows
<1> DEFINE e == Effect(d, s)
<1>0. s.do \in Kinds /\ s.do \notin Drops
  BY DEF Part, Sound
<1>1. /\ e.rows = d.rows
      /\ s.do # "secure" => e.secured = d.secured
      /\ s.do # "create triggers" => e.triggers = d.triggers
  BY <1>0, EffectFrame DEF Drops
<1>2. s.do = "secure" => e.secured = d.secured \cup s.tables
  BY SecureEffect
<1>3. s.do = "create triggers" => e.triggers = d.triggers \cup s.triggers
  BY CreateTriggersEffect
<1> HIDE DEF e
<1>4. d.secured \subseteq e.secured /\ d.triggers \subseteq e.triggers /\ e.rows = d.rows
  BY <1>1, <1>2, <1>3
<1> QED
  BY <1>4 DEF e

(* What is secured or guarded in the middle of an upgrade is so at its     *)
(* end.                                                                    *)
LEMMA UpRun ==
  ASSUME NEW v, NEW script, IsScript(script, v, "up"), NEW d, NEW h, Runs(h, d, script),
         NEW m \in 0 .. Len(script)
  PROVE  LET e == h[Len(script)]
         IN  /\ h[m].secured \subseteq e.secured /\ h[m].triggers \subseteq e.triggers
             /\ e.rows = h[m].rows
<1> DEFINE L == Len(script)
           S == {n \in m .. L : /\ h[m].secured \subseteq h[n].secured
                                /\ h[m].triggers \subseteq h[n].triggers
                                /\ h[n].rows = h[m].rows}
<1>1. L \in Nat /\ \A n \in 1 .. L : Part(script[n], v, "up")
  BY DEF IsScript
<1>2. /\ \A n \in 1 .. L : h[n] = Effect(h[n - 1], script[n])
      /\ \A n \in 0 .. L : Shape(h[n])
  BY DEF Runs, Sane
<1>3. m \in Nat /\ m \in 0 .. L
  OBVIOUS
<1> HIDE DEF L
<1>4. m \in S
  BY <1>3, <1>1
<1>5. ASSUME NEW n \in m + 1 .. L, n - 1 \in S PROVE n \in S
  <2>1. n \in 1 .. L /\ n - 1 \in 0 .. L /\ n \in m .. L
    BY <1>3, <1>1
  <2>2. Shape(h[n - 1]) /\ Part(script[n], v, "up") /\ h[n] = Effect(h[n - 1], script[n])
    BY <1>1, <1>2, <2>1
  <2>3. /\ h[n - 1].secured \subseteq h[n].secured
        /\ h[n - 1].triggers \subseteq h[n].triggers
        /\ h[n].rows = h[n - 1].rows
    BY <2>2, UpStep
  <2> QED
    BY <1>5, <2>1, <2>3
<1> HIDE DEF S
<1>6. m .. L \subseteq S
  BY <1>3, <1>1, <1>4, <1>5, CountUp
<1>7. L \in S
  BY <1>3, <1>1, <1>6
<1> QED
  BY <1>7 DEF S, L

(* A statement of a downgrade adds nothing, and loses the rows of the      *)
(* tables it drops only.                                                   *)
LEMMA DownStep ==
  ASSUME NEW d, Shape(d), NEW v, NEW s, Part(s, v, "down")
  PROVE  LET e == Effect(d, s)
         IN  /\ e.tables \subseteq d.tables /\ e.functions \subseteq d.functions
             /\ e.secured \subseteq d.secured /\ e.policies \subseteq d.policies
             /\ e.triggers \subseteq d.triggers
             /\ \A r \in d.rows : r.table \in e.tables => r \in e.rows
<1> DEFINE e == Effect(d, s)
<1>0. s.do \in Kinds /\ s.do \in Drops
  BY DEF Part, Sound
<1>1. /\ s.do # "drop table" => e.rows = d.rows /\ e.tables = d.tables
      /\ s.do # "drop functions" => e.functions = d.functions
  BY <1>0, EffectFrame DEF Drops
<1>2. s.do = "drop table" => e.tables = d.tables \ {s.table} /\ e.rows = RowsBut(d, s.table)
  BY DropTableEffect
<1>3. s.do = "drop functions" => e.functions = FunctionsBut(d, s.names)
  BY DropFunctionsEffect
<1>4. e.secured \subseteq d.secured
  <2>1. CASE s.do = "drop table"
    <3>1. e.secured = d.secured \ {s.table}
      BY <2>1, DropTableEffect
    <3> QED
      BY <3>1
  <2>2. CASE s.do = "unsecure"
    <3>1. e.secured = d.secured \ s.tables
      BY <2>2, UnsecureEffect
    <3> QED
      BY <3>1
  <2>3. CASE s.do \notin {"drop table", "unsecure"}
    BY <1>0, <2>3, EffectFrame DEF Drops
  <2> QED
    BY <2>1, <2>2, <2>3
<1>5. e.policies \subseteq d.policies
  <2>1. CASE s.do = "drop table"
    <3>1. e.policies = PoliciesBut(d, s.table)
      BY <2>1, DropTableEffect
    <3> QED
      BY <3>1 DEF PoliciesBut
  <2>2. CASE s.do = "drop policies"
    <3>1. e.policies = PoliciesOutside(d, s.tables)
      BY <2>2, DropPoliciesEffect
    <3> QED
      BY <3>1 DEF PoliciesOutside
  <2>3. CASE s.do \notin {"drop table", "drop policies"}
    BY <1>0, <2>3, EffectFrame DEF Drops
  <2> QED
    BY <2>1, <2>2, <2>3
<1>6. e.triggers \subseteq d.triggers
  <2>1. CASE s.do = "drop table"
    <3>1. e.triggers = TriggersBut(d, s.table)
      BY <2>1, DropTableEffect
    <3> QED
      BY <3>1 DEF TriggersBut
  <2>2. CASE s.do = "drop triggers"
    <3>1. e.triggers = d.triggers \ s.triggers
      BY <2>2, DropTriggersEffect
    <3> QED
      BY <3>1
  <2>3. CASE s.do \notin {"drop table", "drop triggers"}
    BY <1>0, <2>3, EffectFrame DEF Drops
  <2> QED
    BY <2>1, <2>2, <2>3
<1> HIDE DEF e
<1>7. /\ e.tables \subseteq d.tables /\ e.functions \subseteq d.functions
      /\ \A r \in d.rows : r.table \in e.tables => r \in e.rows
  BY <1>1, <1>2, <1>3 DEF RowsBut, FunctionsBut
<1> QED
  BY <1>7, <1>4, <1>5, <1>6 DEF e

(* Nothing comes back in the course of a downgrade, and no other row is    *)
(* lost.                                                                   *)
LEMMA DownRun ==
  ASSUME NEW v, NEW script, IsScript(script, v, "down"), NEW d, NEW h, Runs(h, d, script),
         NEW m \in 0 .. Len(script)
  PROVE  LET e == h[Len(script)]
         IN  /\ e.tables \subseteq h[m].tables /\ e.functions \subseteq h[m].functions
             /\ e.secured \subseteq h[m].secured /\ e.policies \subseteq h[m].policies
             /\ e.triggers \subseteq h[m].triggers
             /\ \A r \in h[m].rows : r.table \in e.tables => r \in e.rows
<1> DEFINE L == Len(script)
           S == {n \in m .. L :
                  /\ h[n].tables \subseteq h[m].tables /\ h[n].functions \subseteq h[m].functions
                  /\ h[n].secured \subseteq h[m].secured
                  /\ h[n].policies \subseteq h[m].policies
                  /\ h[n].triggers \subseteq h[m].triggers
                  /\ \A r \in h[m].rows : r.table \in h[n].tables => r \in h[n].rows}
<1>1. L \in Nat /\ \A n \in 1 .. L : Part(script[n], v, "down")
  BY DEF IsScript
<1>2. /\ \A n \in 1 .. L : h[n] = Effect(h[n - 1], script[n])
      /\ \A n \in 0 .. L : Shape(h[n])
  BY DEF Runs, Sane
<1>3. m \in Nat /\ m \in 0 .. L
  OBVIOUS
<1> HIDE DEF L
<1>4. m \in S
  BY <1>3, <1>1
<1>5. ASSUME NEW n \in m + 1 .. L, n - 1 \in S PROVE n \in S
  <2>1. n \in 1 .. L /\ n - 1 \in 0 .. L /\ n \in m .. L
    BY <1>3, <1>1
  <2>2. Shape(h[n - 1]) /\ Part(script[n], v, "down") /\ h[n] = Effect(h[n - 1], script[n])
    BY <1>1, <1>2, <2>1
  <2>3. /\ h[n].tables \subseteq h[n - 1].tables
        /\ h[n].functions \subseteq h[n - 1].functions
        /\ h[n].secured \subseteq h[n - 1].secured
        /\ h[n].policies \subseteq h[n - 1].policies
        /\ h[n].triggers \subseteq h[n - 1].triggers
        /\ \A r \in h[n - 1].rows : r.table \in h[n].tables => r \in h[n].rows
    BY <2>2, DownStep
  <2> QED
    BY <1>5, <2>1, <2>3
<1> HIDE DEF S
<1>6. m .. L \subseteq S
  BY <1>3, <1>1, <1>4, <1>5, CountUp
<1>7. L \in S
  BY <1>3, <1>1, <1>6
<1> QED
  BY <1>7 DEF S, L

(* A table that a downgrade drops is gone at its end.                      *)
LEMMA DroppedTable ==
  ASSUME NEW v, NEW script, IsScript(script, v, "down"), NEW d, NEW h, Runs(h, d, script),
         NEW m \in 1 .. Len(script), NEW t, script[m] = DropTable(t)
  PROVE  t \notin h[Len(script)].tables
<1>1. Len(script) \in Nat /\ m \in 0 .. Len(script) /\ m - 1 \in 0 .. Len(script)
  BY DEF IsScript
<1>2. h[m] = Effect(h[m - 1], DropTable(t)) /\ Shape(h[m - 1])
  BY <1>1 DEF Runs, Sane
<1>3. DropTable(t).do = "drop table" /\ DropTable(t).table = t
  BY DEF DropTable
<1>4. h[m].tables = h[m - 1].tables \ {t}
  <2>1. PICK s : s = DropTable(t)
    OBVIOUS
  <2>2. s.do = "drop table" /\ s.table = t
    BY <1>3, <2>1
  <2>3. Effect(h[m - 1], s).tables = h[m - 1].tables \ {s.table}
    BY <1>2, <2>2, DropTableEffect
  <2> QED
    BY <1>2, <2>1, <2>3, <2>2
<1>5. h[Len(script)].tables \subseteq h[m].tables
  BY <1>1, DownRun
<1> QED
  BY <1>4, <1>5

(***************************************************************************)
(* Fresh databases.                                                        *)
(***************************************************************************)

(* The steps of a command from one revision to another, by number.         *)
LEMMA StepsAre ==
  ASSUME NEW v \in 0 .. LastRevision, NEW w \in 0 .. LastRevision
  PROVE  /\ v < w => /\ Len(Steps(v, w)) = w - v
                     /\ \A n \in 1 .. w - v : Steps(v, w)[n] = Ups[v + n]
         /\ v >= w => /\ Len(Steps(v, w)) = v - w
                      /\ \A n \in 1 .. v - w : Steps(v, w)[n] = Downs[v - n + 1]
  BY DEF Steps, LastRevision

(* The steps of alembic upgrade on an empty database.                      *)
LEMMA UpSteps ==
  ASSUME NEW v \in 0 .. LastRevision
  PROVE  Len(Steps(0, v)) = v /\ \A n \in 1 .. v : Steps(0, v)[n] = Ups[n]
<1>1. 0 \in 0 .. LastRevision /\ v \in Nat
  BY DEF LastRevision
<1>2. CASE v = 0
  <2>1. Len(Steps(0, v)) = 0 - v
    BY <1>1, <1>2, StepsAre
  <2> QED
    BY <1>2, <2>1
<1>3. CASE v > 0
  <2>1. /\ Len(Steps(0, v)) = v - 0
        /\ \A n \in 1 .. v - 0 : Steps(0, v)[n] = Ups[0 + n]
    BY <1>1, <1>3, StepsAre
  <2> QED
    BY <1>1, <2>1
<1> QED
  BY <1>1, <1>2, <1>3

(* A fresh database at a revision is the one before it, upgraded.          *)
LEMMA FreshIs ==
  /\ Fresh[0] = Empty
  /\ \A v \in 1 .. LastRevision : Fresh[v] = ExecuteAll(Fresh[v - 1], Ups[v])
<1>1. LastRevision = 5
  BY DEF LastRevision
<1>2. \A v \in 0 .. LastRevision : Fresh[v] = ExecuteSteps(Empty, Steps(0, v))
  BY <1>1 DEF Fresh
<1>3. Fresh[0] = Empty
  <2>1. Len(Steps(0, 0)) = 0
    BY <1>1, UpSteps
  <2>2. PICK h : h[0] = Empty /\ ExecuteSteps(Empty, Steps(0, 0)) = h[Len(Steps(0, 0))]
    BY <2>1, StepsHistory
  <2> QED
    BY <1>1, <1>2, <2>1, <2>2
<1>4. ASSUME NEW v \in 1 .. LastRevision
      PROVE  Fresh[v] = ExecuteAll(Fresh[v - 1], Ups[v])
  <2> DEFINE a == Steps(0, v - 1)
             b == Steps(0, v)
  <2>0. v \in Nat /\ v > 0 /\ v - 1 \in Nat /\ v - 1 \in 0 .. LastRevision
    BY <1>1
  <2>1. Len(b) = v /\ \A n \in 1 .. v : b[n] = Ups[n]
    BY <2>0, UpSteps
  <2>2. Len(a) = v - 1 /\ \A n \in 1 .. v - 1 : a[n] = Ups[n]
    BY <2>0, UpSteps
  <2>3. Fresh[v] = ExecuteSteps(Empty, b) /\ Fresh[v - 1] = ExecuteSteps(Empty, a)
    BY <1>1, <1>2, <2>0
  <2> HIDE DEF a, b
  <2>4. PICK g : /\ g[0] = Empty
                 /\ \A n \in 1 .. Len(a) : g[n] = ExecuteAll(g[n - 1], a[n])
                 /\ ExecuteSteps(Empty, a) = g[Len(a)]
    <3>1. Len(a) \in Nat
      BY <2>0, <2>2
    <3> QED
      BY <3>1, StepsHistory, ZenonT(40)
  <2>5. PICK h : /\ h[0] = Empty
                 /\ \A n \in 1 .. Len(b) : h[n] = ExecuteAll(h[n - 1], b[n])
                 /\ ExecuteSteps(Empty, b) = h[Len(b)]
    <3>1. Len(b) \in Nat
      BY <2>0, <2>1
    <3> QED
      BY <3>1, StepsHistory, ZenonT(40)
  <2> DEFINE S == {n \in 0 .. v - 1 : g[n] = h[n]}
  <2>6. 0 \in S
    BY <2>0, <2>4, <2>5
  <2>7. ASSUME NEW n \in 0 + 1 .. v - 1, n - 1 \in S PROVE n \in S
    <3>1. n \in 1 .. v /\ n \in 1 .. v - 1 /\ n \in 0 .. v - 1
      BY <2>0
    <3>2. g[n] = ExecuteAll(g[n - 1], Ups[n])
      BY <2>2, <2>4, <3>1
    <3>3. h[n] = ExecuteAll(h[n - 1], Ups[n])
      BY <2>1, <2>5, <3>1
    <3> QED
      BY <2>7, <3>1, <3>2, <3>3
  <2> HIDE DEF S
  <2>8. 0 .. v - 1 \subseteq S
    BY <2>0, <2>6, <2>7, CountUp
  <2>9. g[v - 1] = h[v - 1]
    BY <2>0, <2>8 DEF S
  <2> QED
    BY <2>0, <2>1, <2>2, <2>3, <2>4, <2>5, <2>9
<1> QED
  BY <1>3, <1>4

(* The empty database has nothing in it.                                   *)
LEMMA EmptyIs ==
  /\ Sane(Empty) /\ Empty.ok /\ Empty.rows = {} /\ Empty.tables = {} /\ Empty.secured = {}
  /\ Empty.grants = {} /\ Empty.policies = {} /\ Empty.triggers = {} /\ Empty.keys = {}
  /\ Empty.functions = {}
<1>1. /\ Shape(Empty) /\ Empty.ok /\ Empty.rows = {} /\ Empty.tables = {}
      /\ Empty.secured = {} /\ Empty.grants = {} /\ Empty.policies = {}
      /\ Empty.triggers = {} /\ Empty.keys = {} /\ Empty.functions = {}
      /\ Empty.defaults = {}
  BY DEF Shape, Fields, Empty
<1> QED
  BY <1>1 DEF Sane, Hangs

(* A script leaves a database without rows without rows.                   *)
LEMMA EmptyRun ==
  ASSUME NEW d, Sane(d), d.rows = {}, NEW script, SoundScript(script)
  PROVE  ExecuteAll(d, script).rows = {}
<1> DEFINE L == Len(script)
<1>1. PICK h : /\ h[0] = d
               /\ \A n \in 1 .. L : h[n] = Execute(h[n - 1], script[n])
               /\ \A n \in 0 .. L : Sane(h[n])
               /\ ExecuteAll(d, script) = h[L]
  BY SaneHistory
<1>2. L \in Nat /\ \A n \in 1 .. L : script[n].do \in Kinds
  BY DEF SoundScript, Sound
<1> HIDE DEF L
<1> DEFINE S == {n \in 0 .. L : h[n].rows = {}}
<1>3. 0 \in S
  BY <1>1, <1>2
<1>4. ASSUME NEW n \in 0 + 1 .. L, n - 1 \in S PROVE n \in S
  <2>1. n \in 1 .. L /\ n - 1 \in 0 .. L /\ n \in 0 .. L
    BY <1>2
  <2>2. /\ Shape(h[n - 1]) /\ h[n - 1].rows = {} /\ script[n].do \in Kinds
        /\ h[n] = Execute(h[n - 1], script[n])
    BY <1>1, <1>2, <1>4, <2>1 DEF Sane
  <2>3. h[n].ok => h[n] = Effect(h[n - 1], script[n])
    BY <2>2, ExecuteCases
  <2>4. ~h[n].ok => h[n].rows = h[n - 1].rows
    <3>1. ~h[n].ok => Others(h[n - 1], h[n], {"ok"})
      BY <2>2, ExecuteCases
    <3> QED
      BY <3>1 DEF Others, Fields
  <2>5. Effect(h[n - 1], script[n]).rows = {}
    BY <2>2, EmptyStays
  <2> QED
    BY <2>1, <2>2, <2>3, <2>4, <2>5
<1> HIDE DEF S
<1>5. 0 .. L \subseteq S
  BY <1>2, <1>3, <1>4, CountUp
<1> QED
  BY <1>1, <1>2, <1>5 DEF S, L

(* Fresh databases are sane and have no rows.                              *)
LEMMA FreshSane ==
  \A v \in 0 .. LastRevision : Sane(Fresh[v]) /\ Fresh[v].rows = {}
<1> DEFINE S == {v \in 0 .. LastRevision : Sane(Fresh[v]) /\ Fresh[v].rows = {}}
<1>1. LastRevision = 5
  BY DEF LastRevision
<1>2. 0 \in S
  BY <1>1, FreshIs, EmptyIs
<1>3. ASSUME NEW v \in 0 + 1 .. LastRevision, v - 1 \in S PROVE v \in S
  <2>1. v \in 1 .. LastRevision /\ v \in 0 .. LastRevision
    BY <1>1
  <2>2. Fresh[v] = ExecuteAll(Fresh[v - 1], Ups[v]) /\ SoundScript(Ups[v])
    BY <2>1, FreshIs, AllParts
  <2>3. Sane(Fresh[v - 1]) /\ Fresh[v - 1].rows = {}
    BY <1>3
  <2>4. Sane(Fresh[v])
    BY <2>2, <2>3, ScriptKeeps
  <2>5. Fresh[v].rows = {}
    BY <2>2, <2>3, EmptyRun
  <2> QED
    BY <2>1, <2>4, <2>5
<1> HIDE DEF S
<1>4. 0 .. LastRevision \subseteq S
  BY <1>1, <1>2, <1>3, CountUp
<1> QED
  BY <1>4 DEF S

(* An upgrade step of a database that was only ever upgraded goes from one *)
(* fresh database to the next.                                             *)
LEMMA FreshRun ==
  ASSUME NEW v \in 1 .. LastRevision, Fresh[v].ok
  PROVE  /\ Fresh[v - 1].ok
         /\ \E h : Runs(h, Fresh[v - 1], Ups[v]) /\ Fresh[v] = h[Len(Ups[v])]
<1>1. /\ Fresh[v] = ExecuteAll(Fresh[v - 1], Ups[v]) /\ SoundScript(Ups[v])
      /\ Sane(Fresh[v - 1])
  BY FreshIs, FreshSane, AllParts DEF LastRevision
<1>2. Fresh[v - 1].ok
  BY <1>1, ScriptKeeps
<1>3. \E h : Runs(h, Fresh[v - 1], Ups[v]) /\
             ExecuteAll(Fresh[v - 1], Ups[v]) = h[Len(Ups[v])]
  BY <1>1, GoodHistory
<1> QED
  BY <1>1, <1>2, <1>3

(* Functions are an affair of 0004 alone.                                  *)
LEMMA FunctionsStep ==
  ASSUME NEW d, Shape(d), NEW v, v # 4, NEW way, NEW s, Part(s, v, way)
  PROVE  Effect(d, s).functions = d.functions
<1>1. s.do \in Kinds /\ s.do \notin {"create functions", "drop functions"}
  BY DEF Part, Sound
<1> QED
  BY <1>1, EffectFrame

(* No other script adds or removes functions.                              *)
LEMMA FunctionsRun ==
  ASSUME NEW v, v # 4, NEW way, NEW script, IsScript(script, v, way),
         NEW d, NEW h, Runs(h, d, script)
  PROVE  h[Len(script)].functions = d.functions
<1> DEFINE L == Len(script)
           S == {n \in 0 .. L : h[n].functions = d.functions}
<1>1. /\ L \in Nat /\ h[0] = d
      /\ \A n \in 1 .. L : Part(script[n], v, way) /\ h[n] = Effect(h[n - 1], script[n])
      /\ \A n \in 0 .. L : Shape(h[n])
  BY DEF IsScript, Runs, Sane
<1> HIDE DEF L
<1>2. 0 \in S
  BY <1>1
<1>3. ASSUME NEW n \in 0 + 1 .. L, n - 1 \in S PROVE n \in S
  <2>1. n \in 1 .. L /\ n - 1 \in 0 .. L /\ n \in 0 .. L
    BY <1>1
  <2>2. Shape(h[n - 1]) /\ Part(script[n], v, way) /\ h[n] = Effect(h[n - 1], script[n])
    BY <1>1, <2>1
  <2>3. h[n].functions = h[n - 1].functions
    BY <2>2, FunctionsStep
  <2> QED
    BY <1>3, <2>1, <2>3
<1> HIDE DEF S
<1>4. 0 .. L \subseteq S
  BY <1>1, <1>2, <1>3, CountUp
<1> QED
  BY <1>1, <1>4 DEF S, L

(* 0001 secures nothing, and the grants it leaves are those of the default *)
(* privileges that were left over.                                         *)
LEMMA Step1 ==
  ASSUME NEW d, Shape(d), Narrow(d), d.defaults \subseteq Defaults2,
         NEW s, Part(s, 1, "up")
  PROVE  LET e == Effect(d, s)
         IN  /\ e.secured = d.secured /\ e.policies = d.policies /\ e.triggers = d.triggers
             /\ Narrow(e)
<1> DEFINE e == Effect(d, s)
<1>1. s.do = "create table" /\ s.do \in Kinds
  BY DEF Part, Drops, Kinds
<1>2. e.tables = d.tables \cup {s.table} /\ e.grants = d.grants \cup GrantsOf(d, s.table)
  BY <1>1, CreateTableEffect
<1>3. e.secured = d.secured /\ e.policies = d.policies /\ e.triggers = d.triggers
  BY <1>1, EffectFrame
<1> HIDE DEF e
<1>4. Narrow(e)
  BY <1>2 DEF Narrow, GrantsOf
<1> QED
  BY <1>3, <1>4 DEF e

(* So much for the whole of upgrade() in 0001.                             *)
LEMMA Run1 ==
  ASSUME NEW d, Narrow(d), NEW h, Runs(h, d, Up1)
  PROVE  LET e == h[Len(Up1)]
         IN  /\ e.secured = d.secured /\ e.policies = d.policies /\ e.triggers = d.triggers
             /\ Narrow(e)
<1> DEFINE L == Len(Up1)
           S == {n \in 0 .. L : /\ h[n].secured = d.secured /\ h[n].policies = d.policies
                                /\ h[n].triggers = d.triggers /\ Narrow(h[n])}
<1>1. /\ L \in Nat /\ h[0] = d
      /\ \A n \in 1 .. L : Part(Up1[n], 1, "up") /\ h[n] = Effect(h[n - 1], Up1[n])
      /\ \A n \in 0 .. L : Shape(h[n]) /\ h[n].defaults \subseteq Defaults2
  BY Parts1 DEF IsScript, Runs, Sane
<1> HIDE DEF L
<1>2. 0 \in S
  BY <1>1
<1>3. ASSUME NEW n \in 0 + 1 .. L, n - 1 \in S PROVE n \in S
  <2>1. n \in 1 .. L /\ n - 1 \in 0 .. L /\ n \in 0 .. L
    BY <1>1
  <2>2. /\ Shape(h[n - 1]) /\ Part(Up1[n], 1, "up") /\ h[n] = Effect(h[n - 1], Up1[n])
        /\ h[n - 1].defaults \subseteq Defaults2 /\ Narrow(h[n - 1])
    BY <1>1, <1>3, <2>1
  <2>3. /\ h[n].secured = h[n - 1].secured /\ h[n].policies = h[n - 1].policies
        /\ h[n].triggers = h[n - 1].triggers /\ Narrow(h[n])
    BY <2>2, Step1
  <2> QED
    BY <1>3, <2>1, <2>3
<1> HIDE DEF S
<1>4. 0 .. L \subseteq S
  BY <1>1, <1>2, <1>3, CountUp
<1>5. L \in S
  BY <1>1, <1>4
<1> QED
  BY <1>5 DEF S, L

(* 0002 brings and takes no table and no key, and triggers of its own      *)
(* only.                                                                   *)
LEMMA Step2 ==
  ASSUME NEW d, Shape(d), NEW way, NEW s, Part(s, 2, way)
  PROVE  LET e == Effect(d, s)
         IN  /\ e.tables = d.tables /\ e.keys = d.keys
             /\ d.triggers \subseteq Triggers2 => e.triggers \subseteq Triggers2
<1> DEFINE e == Effect(d, s)
<1>1. /\ s.do \in Kinds
      /\ s.do \notin {"create table", "drop table", "add key", "drop key"}
      /\ s.do = "create triggers" => s.triggers \subseteq Triggers2
  BY DEF Part, Sound
<1>2. /\ e.tables = d.tables /\ e.keys = d.keys
      /\ s.do \notin {"create triggers", "drop triggers"} => e.triggers = d.triggers
  BY <1>1, EffectFrame
<1>3. s.do = "create triggers" => e.triggers = d.triggers \cup s.triggers
  BY CreateTriggersEffect
<1>4. s.do = "drop triggers" => e.triggers = d.triggers \ s.triggers
  BY DropTriggersEffect
<1> HIDE DEF e
<1>5. d.triggers \subseteq Triggers2 => e.triggers \subseteq Triggers2
  BY <1>1, <1>2, <1>3, <1>4
<1> QED
  BY <1>2, <1>5 DEF e

(* So much for the whole of 0002, up or down.                              *)
LEMMA Run2 ==
  ASSUME NEW way, NEW script, IsScript(script, 2, way), NEW d, NEW h, Runs(h, d, script),
         NEW m \in 0 .. Len(script)
  PROVE  /\ h[m].tables = d.tables /\ h[m].keys = d.keys
         /\ d.triggers \subseteq Triggers2 => h[m].triggers \subseteq Triggers2
<1> DEFINE L == Len(script)
           S == {n \in 0 .. L :
                   /\ h[n].tables = d.tables /\ h[n].keys = d.keys
                   /\ d.triggers \subseteq Triggers2 => h[n].triggers \subseteq Triggers2}
<1>1. /\ L \in Nat /\ h[0] = d
      /\ \A n \in 1 .. L : Part(script[n], 2, way) /\ h[n] = Effect(h[n - 1], script[n])
      /\ \A n \in 0 .. L : Shape(h[n])
  BY DEF IsScript, Runs, Sane
<1> HIDE DEF L
<1>2. 0 \in S
  BY <1>1
<1>3. ASSUME NEW n \in 0 + 1 .. L, n - 1 \in S PROVE n \in S
  <2>1. n \in 1 .. L /\ n - 1 \in 0 .. L /\ n \in 0 .. L
    BY <1>1
  <2>2. Shape(h[n - 1]) /\ Part(script[n], 2, way) /\ h[n] = Effect(h[n - 1], script[n])
    BY <1>1, <2>1
  <2>3. /\ h[n].tables = h[n - 1].tables /\ h[n].keys = h[n - 1].keys
        /\ h[n - 1].triggers \subseteq Triggers2 => h[n].triggers \subseteq Triggers2
    BY <2>2, Step2
  <2> QED
    BY <1>3, <2>1, <2>3
<1> HIDE DEF S
<1>4. 0 .. L \subseteq S
  BY <1>1, <1>2, <1>3, CountUp
<1> QED
  BY <1>4 DEF S, L

(* The grants of 0002, whatever was left of them before.                   *)
Grants2Of(tables) ==
  (((Api \X Spine \X Crud) \cup ((Worker \cup Readonly) \X tables \X {"select"}))
     \ (Worker \X Identity \X Commands))
  \cup (Readonly \X tables \X {"select"})

(* The grants that the statements of 0002 leave.                           *)
LEMMA GrantDoes ==
  ASSUME NEW d, Shape(d), NEW s, NEW roles, NEW tables, NEW cmds,
         s = Grant(roles, tables, cmds)
  PROVE  /\ Effect(d, s).grants = d.grants \cup (roles \X tables \X cmds)
         /\ Possible(d, s) => tables \subseteq d.tables
         /\ Effect(d, s).tables = d.tables
<1>1. s.do = "grant" /\ s.grants = roles \X tables \X cmds /\ s.tables = tables
  BY DEF Grant
<1>2. Effect(d, s).grants = d.grants \cup s.grants
  BY <1>1, GrantEffect
<1>3. Possible(d, s) => s.tables \subseteq d.tables
  BY <1>1, PossibleCases
<1>4. Effect(d, s).tables = d.tables
  <2>1. s.do \in Kinds
    BY <1>1 DEF Kinds
  <2> QED
    BY <1>1, <2>1, EffectFrame
<1> QED
  BY <1>1, <1>2, <1>3, <1>4

(* A revoke on some tables.                                                *)
LEMMA RevokeDoes ==
  ASSUME NEW d, Shape(d), NEW s, NEW roles, NEW tables, NEW cmds,
         s = Revoke(roles, tables, cmds)
  PROVE  Effect(d, s).grants = d.grants \ (roles \X tables \X cmds)
<1>1. s.do = "revoke" /\ s.grants = roles \X tables \X cmds
  BY DEF Revoke
<1>2. Effect(d, s).grants = d.grants \ s.grants
  BY <1>1, RevokeEffect
<1> QED
  BY <1>1, <1>2

(* A grant on all tables.                                                  *)
LEMMA GrantOnAllDoes ==
  ASSUME NEW d, Shape(d), NEW s, NEW roles, s = GrantSelectOnAll(roles)
  PROVE  Effect(d, s).grants = d.grants \cup (roles \X d.tables \X {"select"})
<1>1. s.do = "grant on all" /\ s.roles = roles
  BY DEF GrantSelectOnAll
<1>2. Effect(d, s).grants = d.grants \cup (s.roles \X d.tables \X {"select"})
  BY <1>1, GrantOnAllEffect
<1> QED
  BY <1>1, <1>2

(* A default privilege.                                                    *)
LEMMA DefaultDoes ==
  ASSUME NEW d, Shape(d), NEW s, NEW roles, NEW cmds, s = DefaultGrant(roles, cmds)
  PROVE  Effect(d, s).defaults = d.defaults \cup (roles \X cmds)
<1>1. s.do = "default" /\ s.defaults = roles \X cmds
  BY DEF DefaultGrant
<1>2. Effect(d, s).defaults = d.defaults \cup s.defaults
  BY <1>1, DefaultEffect
<1> QED
  BY <1>1, <1>2

(* A default privilege grants nothing yet.                                 *)
LEMMA DefaultFrame ==
  ASSUME NEW d, Shape(d), NEW s, NEW roles, NEW cmds, s = DefaultGrant(roles, cmds)
  PROVE  Effect(d, s).grants = d.grants
<1>1. s.do = "default"
  BY DEF DefaultGrant
<1>2. s.do \in Kinds
  BY <1>1 DEF Kinds
<1> QED
  BY <1>1, <1>2, EffectFrame

(* Row security, policies and triggers touch neither grants nor default    *)
(* privileges.                                                             *)
LEMMA SecurityFrame ==
  ASSUME NEW d, Shape(d), NEW s, NEW x,
         s = Secure(x) \/ s = CreatePolicies(x) \/ s = CreateTriggers(x)
  PROVE  Effect(d, s).grants = d.grants /\ Effect(d, s).defaults = d.defaults
<1>1. s.do = "secure" \/ s.do = "create policies" \/ s.do = "create triggers"
  <2>1. CASE s = Secure(x)
    BY <2>1 DEF Secure
  <2>2. CASE s = CreatePolicies(x)
    BY <2>2 DEF CreatePolicies
  <2>3. CASE s = CreateTriggers(x)
    BY <2>3 DEF CreateTriggers
  <2> QED
    BY <2>1, <2>2, <2>3
<1>2. s.do \in Kinds
  BY <1>1 DEF Kinds
<1> QED
  BY <1>1, <1>2, EffectFrame

(* Whatever grants and default privileges an earlier life of the database  *)
(* left over, upgrade() of 0002 ends with the same ones.                   *)
LEMMA Grants2Run ==
  ASSUME NEW d, Narrow(d), d.tables \subseteq Spine, NEW h, Runs(h, d, Up2)
  PROVE  LET e == h[Len(Up2)]
         IN  e.grants = Grants2Of(d.tables) /\ e.defaults = Defaults2 /\ d.tables = Spine
<1>1. /\ h[0] = d /\ Len(Up2) = 9
      /\ h[1] = Effect(h[0], Up2[1]) /\ h[2] = Effect(h[1], Up2[2])
      /\ h[3] = Effect(h[2], Up2[3]) /\ h[4] = Effect(h[3], Up2[4])
      /\ h[5] = Effect(h[4], Up2[5]) /\ h[6] = Effect(h[5], Up2[6])
      /\ h[7] = Effect(h[6], Up2[7]) /\ h[8] = Effect(h[7], Up2[8])
      /\ h[9] = Effect(h[8], Up2[9]) /\ Possible(h[0], Up2[1])
  BY Script2 DEF Runs
<1>2. \A n \in 0 .. 9 : Shape(h[n]) /\ h[n].defaults \subseteq Defaults2
  BY Script2 DEF Runs, Sane
<1>3. \A n \in 0 .. 9 : h[n].tables = d.tables
  BY Script2, Parts2, Run2
<1>4. h[1].grants = d.grants \cup (Api \X Spine \X Crud) /\ Spine \subseteq d.tables
  <2>1. Shape(h[0])
    BY <1>2
  <2> QED
    BY <1>1, <2>1, Script2, GrantDoes
<1>5. h[2].grants = h[1].grants \cup ((Worker \cup Readonly) \X d.tables \X {"select"})
  <2>1. Shape(h[1]) /\ h[1].tables = d.tables
    BY <1>2, <1>3
  <2> QED
    BY <1>1, <2>1, Script2, GrantOnAllDoes
<1>6. h[3].grants = h[2].grants \ (Worker \X Identity \X Commands)
  <2>1. Shape(h[2])
    BY <1>2
  <2> QED
    BY <1>1, <2>1, Script2, RevokeDoes
<1>7. h[4].grants = h[3].grants \cup (Readonly \X d.tables \X {"select"})
  <2>1. Shape(h[3]) /\ h[3].tables = d.tables
    BY <1>2, <1>3
  <2> QED
    BY <1>1, <2>1, Script2, GrantOnAllDoes
<1>8. /\ h[5].grants = h[4].grants /\ h[6].grants = h[5].grants /\ h[7].grants = h[6].grants
      /\ h[8].grants = h[7].grants /\ h[9].grants = h[8].grants
  <2>1. Shape(h[4]) /\ Shape(h[5]) /\ Shape(h[6]) /\ Shape(h[7]) /\ Shape(h[8])
    BY <1>2
  <2> QED
    BY <1>1, <2>1, Script2, DefaultFrame, SecurityFrame
<1>9. h[5].defaults = h[4].defaults \cup (Api \X Crud)
  <2>1. Shape(h[4])
    BY <1>2
  <2> QED
    BY <1>1, <2>1, Script2, DefaultDoes
<1>10. h[6].defaults = h[5].defaults \cup ((Worker \cup Readonly) \X {"select"})
  <2>1. Shape(h[5])
    BY <1>2
  <2> QED
    BY <1>1, <2>1, Script2, DefaultDoes
<1>11. /\ h[7].defaults = h[6].defaults /\ h[8].defaults = h[7].defaults
       /\ h[9].defaults = h[8].defaults
  <2>1. Shape(h[6]) /\ Shape(h[7]) /\ Shape(h[8])
    BY <1>2
  <2> QED
    BY <1>1, <2>1, Script2, DefaultFrame, SecurityFrame
<1>12. h[9].defaults = Defaults2
  <2>1. h[4].defaults \subseteq Defaults2
    BY <1>2
  <2> QED
    BY <1>9, <1>10, <1>11, <2>1 DEF Defaults2
<1>13. d.grants \subseteq
         (Api \X Spine \X Crud) \cup ((Worker \cup Readonly) \X d.tables \X {"select"})
  BY DEF Narrow, Defaults2
<1>14. h[9].grants = Grants2Of(d.tables)
  BY <1>4, <1>5, <1>6, <1>7, <1>8, <1>13 DEF Grants2Of
<1> QED
  BY <1>1, <1>4, <1>12, <1>14

(* An upgrade of a fresh database changes its own tables only.             *)
LEMMA FreshOutside ==
  ASSUME NEW v \in 1 .. LastRevision, v # 2, Fresh[v].ok
  PROVE  SameOutside(Fresh[v - 1], Fresh[v], New[v])
<1>1. PICK h : Runs(h, Fresh[v - 1], Ups[v]) /\ Fresh[v] = h[Len(Ups[v])]
  BY FreshRun
<1>2. IsScript(Ups[v], v, "up")
  BY AllParts
<1> QED
  BY <1>1, <1>2, OutsideRun

(* The revisions by number.                                                *)
LEMMA RevisionsAre ==
  /\ LastRevision = 5
  /\ Ups[1] = Up1 /\ Ups[2] = Up2 /\ Ups[3] = Up3 /\ Ups[4] = Up4 /\ Ups[5] = Up5
  /\ Downs[1] = Down1 /\ Downs[2] = Down2 /\ Downs[3] = Down3 /\ Downs[4] = Down4
  /\ Downs[5] = Down5
  BY DEF LastRevision, Ups, Downs

(* After 0001 the spine is there, without row security.                    *)
LEMMA Fresh1 ==
  ASSUME Fresh[1].ok
  PROVE  /\ Fresh[1].tables \subseteq Spine
         /\ Fresh[1].secured = {} /\ Fresh[1].policies = {} /\ Fresh[1].triggers = {}
         /\ Fresh[1].functions = {} /\ Narrow(Fresh[1])
<1>1. PICK h : Runs(h, Fresh[0], Up1) /\ Fresh[1] = h[Len(Up1)]
  <2>1. 1 \in 1 .. LastRevision /\ Ups[1] = Up1 /\ 1 - 1 = 0
    BY RevisionsAre
  <2>2. \E h : Runs(h, Fresh[1 - 1], Ups[1]) /\ Fresh[1] = h[Len(Ups[1])]
    BY <2>1, FreshRun
  <2> QED
    BY <2>1, <2>2
<1>2. /\ Fresh[0].tables = {} /\ Fresh[0].secured = {} /\ Fresh[0].policies = {}
      /\ Fresh[0].triggers = {} /\ Fresh[0].functions = {} /\ Narrow(Fresh[0])
  BY FreshIs, EmptyIs DEF Narrow
<1>3. /\ Fresh[1].secured = {} /\ Fresh[1].policies = {} /\ Fresh[1].triggers = {}
      /\ Narrow(Fresh[1])
  BY <1>1, <1>2, Run1
<1>4. Fresh[1].functions = {}
  <2>1. h[Len(Up1)].functions = Fresh[0].functions
    BY <1>1, Parts1, FunctionsRun
  <2> QED
    BY <1>1, <1>2, <2>1
<1>5. Fresh[1].tables \ Spine = Fresh[0].tables \ Spine
  <2>1. SameOutside(Fresh[0], h[Len(Up1)], New[1])
    BY <1>1, Parts1, OutsideRun
  <2> QED
    BY <1>1, <2>1, NewAre DEF SameOutside
<1> QED
  BY <1>2, <1>3, <1>4, <1>5

(* After 0002 the spine has its grants, and no more than it may have.      *)
LEMMA Fresh2 ==
  ASSUME Fresh[2].ok
  PROVE  /\ Fresh[1].ok
         /\ Fresh[2].tables = Spine /\ Fresh[2].keys = Fresh[1].keys
         /\ Fresh[2].triggers \subseteq Triggers2 /\ Fresh[2].functions = {}
         /\ Fresh[2].grants = Grants2Of(Spine) /\ Fresh[2].defaults = Defaults2
         /\ Fresh[1].tables = Spine
<1>1. /\ Fresh[1].ok
      /\ \E h : Runs(h, Fresh[1], Up2) /\ Fresh[2] = h[Len(Up2)]
  <2>1. 2 \in 1 .. LastRevision /\ Ups[2] = Up2 /\ 2 - 1 = 1
    BY RevisionsAre
  <2>2. Fresh[2 - 1].ok /\ \E h : Runs(h, Fresh[2 - 1], Ups[2]) /\ Fresh[2] = h[Len(Ups[2])]
    BY <2>1, FreshRun
  <2> QED
    BY <2>1, <2>2
<1>2. PICK h : Runs(h, Fresh[1], Up2) /\ Fresh[2] = h[Len(Up2)]
  BY <1>1
<1>3. /\ Fresh[1].tables \subseteq Spine /\ Fresh[1].triggers = {}
      /\ Fresh[1].functions = {} /\ Narrow(Fresh[1])
  BY <1>1, Fresh1
<1>4. /\ Fresh[2].grants = Grants2Of(Fresh[1].tables) /\ Fresh[2].defaults = Defaults2
      /\ Fresh[1].tables = Spine
  BY <1>2, <1>3, Grants2Run
<1>5. /\ Fresh[2].tables = Fresh[1].tables /\ Fresh[2].keys = Fresh[1].keys
      /\ Fresh[2].triggers \subseteq Triggers2
  <2>1. Len(Up2) \in 0 .. Len(Up2) /\ IsScript(Up2, 2, "up")
    BY Script2, Parts2
  <2> QED
    BY <1>2, <1>3, <2>1, Run2
<1>6. Fresh[2].functions = {}
  <2>1. h[Len(Up2)].functions = Fresh[1].functions
    BY <1>2, Parts2, FunctionsRun
  <2> QED
    BY <1>2, <1>3, <2>1
<1> QED
  BY <1>1, <1>4, <1>5, <1>6

(* A fresh database has the tables of the revisions it has passed.         *)
LEMMA FreshTables ==
  ASSUME NEW v \in 1 .. LastRevision, Fresh[v].ok
  PROVE  /\ Fresh[v].tables \subseteq UNION {New[w] : w \in 1 .. v}
         /\ v >= 2 => Spine \subseteq Fresh[v].tables
<1> DEFINE Built(n) == UNION {New[w] : w \in 1 .. n}
           S == {n \in 1 .. v :
                   /\ Fresh[n].ok => Fresh[n].tables \subseteq Built(n)
                   /\ Fresh[n].ok /\ n >= 2 => Spine \subseteq Fresh[n].tables}
<1>0. LastRevision = 5 /\ v \in 1 .. 5
  BY RevisionsAre
<1>1. 1 \in S
  BY <1>0, Fresh1, NewAre
<1>2. ASSUME NEW n \in 1 + 1 .. v, n - 1 \in S PROVE n \in S
  <2>1. n \in 1 .. LastRevision /\ n - 1 \in 1 .. v /\ n \in 1 .. v /\ n >= 2
    BY <1>0
  <2>2. Built(n) = Built(n - 1) \cup New[n]
    <3>1. 1 .. n = (1 .. n - 1) \cup {n}
      BY <2>1
    <3> QED
      BY <3>1
  <2>3. CASE n = 2
    BY <2>1, <2>3, Fresh2, NewAre
  <2>4. CASE n # 2 /\ Fresh[n].ok
    <3>1. SameOutside(Fresh[n - 1], Fresh[n], New[n])
      BY <2>1, <2>4, FreshOutside
    <3>2. Fresh[n].tables \ New[n] = Fresh[n - 1].tables \ New[n]
      BY <3>1 DEF SameOutside
    <3>3. Fresh[n - 1].ok
      BY <2>1, <2>4, FreshRun
    <3>4. Spine \cap New[n] = {}
      <4>1. n = 3 \/ n = 4 \/ n = 5
        BY <1>0, <2>1, <2>4
      <4> QED
        BY <4>1, NewAre DEF Spine
    <3>5. n - 1 >= 2
      BY <2>1, <2>4
    <3>6. Fresh[n - 1].tables \subseteq Built(n - 1) /\ Spine \subseteq Fresh[n - 1].tables
      BY <1>2, <3>3, <3>5
    <3> HIDE DEF Built
    <3> QED
      BY <2>1, <2>2, <3>2, <3>4, <3>6
  <2> QED
    BY <2>1, <2>3, <2>4
<1> HIDE DEF S
<1>3. 1 .. v \subseteq S
  BY <1>0, <1>1, <1>2, CountUp
<1> QED
  BY <1>0, <1>3 DEF S

(* What a later revision brings was not there before.                      *)
LEMMA FreshNew ==
  ASSUME NEW v \in {3, 4, 5}, Fresh[v].ok
  PROVE  /\ Fresh[v - 1].ok /\ Fresh[v - 1].tables \cap New[v] = {}
         /\ v = 3 => Fresh[v - 1].functions = {}
         /\ v = 4 => Fresh[v - 1].functions = {}
         /\ v = 5 => Fresh[v - 1].functions = Fresh[v].functions
         /\ v = 3 => Fresh[v].functions = {}
<1>0. v \in 1 .. LastRevision /\ v - 1 \in 1 .. LastRevision
  BY RevisionsAre
<1>1. Fresh[v - 1].ok
  BY <1>0, FreshRun
<1>2. Fresh[v - 1].tables \subseteq UNION {New[w] : w \in 1 .. v - 1}
  BY <1>0, <1>1, FreshTables
<1>3. (UNION {New[w] : w \in 1 .. v - 1}) \cap New[v] = {}
  <2>1. CASE v = 3
    <3>1. 1 .. 3 - 1 = {1, 2}
      OBVIOUS
    <3> QED
      BY <2>1, <3>1, NewAre DEF Spine
  <2>2. CASE v = 4
    <3>1. 1 .. 4 - 1 = {1, 2, 3}
      OBVIOUS
    <3> QED
      BY <2>2, <3>1, NewAre DEF Spine
  <2>3. CASE v = 5
    <3>1. 1 .. 5 - 1 = {1, 2, 3, 4}
      OBVIOUS
    <3> QED
      BY <2>3, <3>1, NewAre DEF Spine
  <2> QED
    BY <2>1, <2>2, <2>3
<1>4. \A w \in {3, 5} : Fresh[w].ok => Fresh[w - 1].functions = Fresh[w].functions
  <2> TAKE w \in {3, 5}
  <2>1. SUFFICES ASSUME Fresh[w].ok PROVE Fresh[w - 1].functions = Fresh[w].functions
    OBVIOUS
  <2>2. w \in 1 .. LastRevision /\ w # 4
    BY RevisionsAre
  <2>3. PICK h : Runs(h, Fresh[w - 1], Ups[w]) /\ Fresh[w] = h[Len(Ups[w])]
    BY <2>1, <2>2, FreshRun
  <2>4. IsScript(Ups[w], w, "up")
    BY <2>2, AllParts
  <2> QED
    BY <2>2, <2>3, <2>4, FunctionsRun
<1>5. Fresh[3].ok => Fresh[2].functions = {} /\ Fresh[3].functions = {}
  <2>1. SUFFICES ASSUME Fresh[3].ok PROVE Fresh[2].functions = {} /\ Fresh[3].functions = {}
    OBVIOUS
  <2>2. 3 \in 1 .. LastRevision /\ 3 - 1 = 2
    BY RevisionsAre
  <2>3. Fresh[2].ok
    BY <2>1, <2>2, FreshRun
  <2> QED
    BY <1>4, <2>1, <2>2, <2>3, Fresh2
<1>6. 3 - 1 = 2 /\ 4 - 1 = 3 /\ 5 - 1 = 4
  OBVIOUS
<1>7. /\ v = 3 => Fresh[v - 1].functions = {}
      /\ v = 4 => Fresh[v - 1].functions = {}
      /\ v = 5 => Fresh[v - 1].functions = Fresh[v].functions
      /\ v = 3 => Fresh[v].functions = {}
  BY <1>1, <1>4, <1>5, <1>6
<1> QED
  BY <1>1, <1>2, <1>3, <1>7

(***************************************************************************)
(* One revision up or down.                                                *)
(***************************************************************************)

(* Being alike is symmetric.                                               *)
LEMMA OthersTwoWays ==
  ASSUME NEW d, NEW e, NEW X, Others(d, e, X)
  PROVE  Others(e, d, X)
  BY DEF Others

(* A database that is like a fresh one, field by field.                    *)
LEMMA LikeFresh ==
  ASSUME NEW v \in 0 .. LastRevision, NEW d, Like(v, d)
  PROVE  /\ Fresh[v].ok /\ Sane(Fresh[v]) /\ Fresh[v].rows = {}
         /\ Others(Fresh[v], d, {"ok", "rows", "grants", "defaults"})
         /\ v >= 2 => Others(Fresh[v], d, {"ok", "rows"})
         /\ v < 2 => Narrow(d)
         /\ d.tables = Fresh[v].tables /\ d.secured = Fresh[v].secured
         /\ d.policies = Fresh[v].policies /\ d.triggers = Fresh[v].triggers
         /\ d.keys = Fresh[v].keys /\ d.functions = Fresh[v].functions
         /\ v >= 2 => d.grants = Fresh[v].grants /\ d.defaults = Fresh[v].defaults
<1>1. /\ Fresh[v].ok /\ Others(d, Fresh[v], {"ok", "rows", "grants", "defaults"})
      /\ v >= 2 => Others(d, Fresh[v], {"ok", "rows"})
      /\ v < 2 => Narrow(d)
  BY DEF Like
<1>2. Sane(Fresh[v]) /\ Fresh[v].rows = {}
  BY FreshSane
<1>3. /\ d.tables = Fresh[v].tables /\ d.secured = Fresh[v].secured
      /\ d.policies = Fresh[v].policies /\ d.triggers = Fresh[v].triggers
      /\ d.keys = Fresh[v].keys /\ d.functions = Fresh[v].functions
  BY <1>1 DEF Others, Fields
<1>4. v >= 2 => d.grants = Fresh[v].grants /\ d.defaults = Fresh[v].defaults
  BY <1>1 DEF Others, Fields
<1> QED
  BY <1>1, <1>2, <1>3, <1>4, OthersTwoWays

(* Field by field, a database is like a fresh one.                         *)
LEMMA LikeByFields ==
  ASSUME NEW v \in 0 .. LastRevision, NEW d, Fresh[v].ok,
         d.tables = Fresh[v].tables, d.secured = Fresh[v].secured,
         d.policies = Fresh[v].policies, d.triggers = Fresh[v].triggers,
         d.keys = Fresh[v].keys, d.functions = Fresh[v].functions,
         v >= 2 => d.grants = Fresh[v].grants /\ d.defaults = Fresh[v].defaults,
         v < 2 => Narrow(d)
  PROVE  Like(v, d)
<1>1. Others(d, Fresh[v], {"ok", "rows", "grants", "defaults"})
  BY DEF Others, Fields
<1>2. v >= 2 => Others(d, Fresh[v], {"ok", "rows"})
  BY DEF Others, Fields
<1> QED
  BY <1>1, <1>2 DEF Like

(* One revision up: what succeeds on a database succeeds on the fresh one  *)
(* as well, and they are alike at the end; 0002 makes alike what differed  *)
(* in its grants.                                                          *)
LEMMA UpRevision ==
  ASSUME NEW v \in 1 .. LastRevision, NEW d, Sane(d), Like(v - 1, d),
         ExecuteAll(d, Ups[v]).ok
  PROVE  LET e == ExecuteAll(d, Ups[v])
         IN  Sane(e) /\ Like(v, e) /\ e.rows = d.rows
<1> DEFINE c == Fresh[v - 1]
           e == ExecuteAll(d, Ups[v])
           X == IF v - 1 >= 2 THEN {"ok", "rows"} ELSE {"ok", "rows", "grants", "defaults"}
<1>0. /\ LastRevision = 5 /\ v - 1 \in 0 .. LastRevision
      /\ IsScript(Ups[v], v, "up") /\ SoundScript(Ups[v]) /\ Fresh[v] = ExecuteAll(c, Ups[v])
  BY RevisionsAre, AllParts, FreshIs
<1>1. c.ok /\ Sane(c) /\ c.rows = {} /\ Others(c, d, X) /\ X \in Loose
  BY <1>0, LikeFresh DEF Loose
<1>2. Sane(e) /\ e.ok
  BY <1>0, ScriptKeeps
<1>3. PICK h : Runs(h, d, Ups[v]) /\ e = h[Len(Ups[v])]
  BY <1>0, GoodHistory
<1> HIDE DEF X
<1>4. Fresh[v].ok /\ Others(Fresh[v], e, X)
  BY <1>0, <1>1, AlikeRun
<1>5. e.rows = d.rows
  <2>1. 0 \in 0 .. Len(Ups[v]) /\ h[0] = d
    BY <1>0, <1>3 DEF IsScript, Runs
  <2> QED
    BY <1>0, <1>3, <2>1, UpRun
<1> HIDE DEF e, c
<1>6. /\ e.tables = Fresh[v].tables /\ e.secured = Fresh[v].secured
      /\ e.policies = Fresh[v].policies /\ e.triggers = Fresh[v].triggers
      /\ e.keys = Fresh[v].keys /\ e.functions = Fresh[v].functions
      /\ v - 1 >= 2 => e.grants = Fresh[v].grants /\ e.defaults = Fresh[v].defaults
  BY <1>4 DEF Others, Fields, X
<1>7. CASE v = 1
  <2>1. Narrow(d) /\ Ups[v] = Up1
    BY <1>0, <1>7, LikeFresh, RevisionsAre
  <2>2. Narrow(e)
    BY <1>3, <2>1, Run1
  <2> QED
    BY <1>2, <1>4, <1>5, <1>6, <1>7, <2>2, LikeByFields DEF e
<1>8. CASE v = 2
  <2>1. Narrow(d) /\ Ups[v] = Up2 /\ d.tables = Fresh[1].tables
    BY <1>0, <1>8, LikeFresh, RevisionsAre
  <2>2. /\ Fresh[1].ok /\ Fresh[2].grants = Grants2Of(Spine) /\ Fresh[2].defaults = Defaults2
        /\ Fresh[1].tables = Spine
    BY <1>4, <1>8, Fresh2
  <2>3. e.grants = Grants2Of(d.tables) /\ e.defaults = Defaults2
    BY <1>3, <2>1, <2>2, Grants2Run
  <2> QED
    BY <1>2, <1>4, <1>5, <1>6, <1>8, <2>1, <2>2, <2>3, LikeByFields DEF e
<1>9. CASE v > 2
  BY <1>0, <1>2, <1>4, <1>5, <1>6, <1>9, LikeByFields DEF e
<1> QED
  BY <1>0, <1>7, <1>8, <1>9

(* Without the tables of the revision that goes, what is the same outside  *)
(* of them is the same.                                                    *)
LEMMA OutsideIsAll ==
  ASSUME NEW d, Hangs(d), NEW e, Hangs(e), NEW N, SameOutside(d, e, N),
         d.tables \cap N = {}, e.tables \cap N = {}
  PROVE  /\ d.tables = e.tables /\ d.secured = e.secured /\ d.keys = e.keys
         /\ d.grants = e.grants /\ d.policies = e.policies /\ d.triggers = e.triggers
         /\ d.defaults = e.defaults
<1>1. ASSUME NEW x, Hangs(x), x.tables \cap N = {}
      PROVE  /\ x.tables \ N = x.tables /\ x.secured \ N = x.secured
             /\ KeysOutside(x, N) = x.keys /\ GrantsOutside(x, N) = x.grants
             /\ PoliciesOutside(x, N) = x.policies /\ TriggersOutside(x, N) = x.triggers
  <2>1. x.tables \ N = x.tables /\ x.secured \ N = x.secured
    BY <1>1 DEF Hangs
  <2>2. KeysOutside(x, N) = x.keys
    BY <1>1 DEF Hangs, KeysOutside
  <2>3. GrantsOutside(x, N) = x.grants
    BY <1>1 DEF Hangs, GrantsOutside
  <2>4. PoliciesOutside(x, N) = x.policies
    BY <1>1 DEF Hangs, PoliciesOutside
  <2>5. TriggersOutside(x, N) = x.triggers
    BY <1>1 DEF Hangs, TriggersOutside
  <2> QED
    BY <2>1, <2>2, <2>3, <2>4, <2>5
<1> QED
  BY <1>1 DEF SameOutside

(* A downgrade leaves no table of its revision.                            *)
LEMMA DownTables ==
  ASSUME NEW v \in {1, 3, 4, 5}, NEW d, NEW h, Runs(h, d, Downs[v])
  PROVE  h[Len(Downs[v])].tables \cap New[v] = {}
<1> DEFINE e == h[Len(Downs[v])]
<1>0. /\ v \in 1 .. LastRevision /\ IsScript(Downs[v], v, "down")
      /\ Downs[1] = Down1 /\ Downs[3] = Down3 /\ Downs[4] = Down4 /\ Downs[5] = Down5
  BY RevisionsAre, AllParts
<1>1. ASSUME NEW m \in 1 .. Len(Downs[v]), NEW t, Downs[v][m] = DropTable(t)
      PROVE  t \notin e.tables
  BY <1>0, <1>1, DroppedTable
<1> HIDE DEF e
<1>2. CASE v = 1
  <2>1. /\ 1 \in 1 .. Len(Downs[v]) /\ 2 \in 1 .. Len(Downs[v]) /\ 3 \in 1 .. Len(Downs[v])
        /\ 4 \in 1 .. Len(Downs[v]) /\ 5 \in 1 .. Len(Downs[v])
        /\ Downs[v][1] = DropTable("tenant_credential")
        /\ Downs[v][2] = DropTable("membership_location")
        /\ Downs[v][3] = DropTable("membership")
        /\ Downs[v][4] = DropTable("user_profile") /\ Downs[v][5] = DropTable("tenant")
    <3>1. Downs[v] = Down1
      BY <1>0, <1>2
    <3> QED
      BY <3>1, Script1
  <2>2. /\ "tenant_credential" \notin e.tables /\ "membership_location" \notin e.tables
        /\ "membership" \notin e.tables /\ "user_profile" \notin e.tables
        /\ "tenant" \notin e.tables
    BY <1>1, <2>1
  <2> QED
    BY <1>2, <2>2, NewAre DEF Spine, e
<1>3. CASE v = 3
  <2>1. /\ 4 \in 1 .. Len(Downs[v]) /\ 5 \in 1 .. Len(Downs[v])
        /\ Downs[v][4] = DropTable("location_alias") /\ Downs[v][5] = DropTable("location")
    <3>1. Downs[v] = Down3
      BY <1>0, <1>3
    <3> QED
      BY <3>1, Script3
  <2>2. "location_alias" \notin e.tables /\ "location" \notin e.tables
    BY <1>1, <2>1
  <2> QED
    BY <1>3, <2>2, NewAre DEF e
<1>4. CASE v = 4
  <2>1. /\ 4 \in 1 .. Len(Downs[v]) /\ 5 \in 1 .. Len(Downs[v]) /\ 6 \in 1 .. Len(Downs[v])
        /\ Downs[v][4] = DropTable("cost_budget") /\ Downs[v][5] = DropTable("cost_ledger")
        /\ Downs[v][6] = DropTable("audit_card")
    <3>1. Downs[v] = Down4
      BY <1>0, <1>4
    <3> QED
      BY <3>1, Script4
  <2>2. /\ "cost_budget" \notin e.tables /\ "cost_ledger" \notin e.tables
        /\ "audit_card" \notin e.tables
    BY <1>1, <2>1
  <2> QED
    BY <1>4, <2>2, NewAre DEF e
<1>5. CASE v = 5
  <2>1. /\ 4 \in 1 .. Len(Downs[v]) /\ 5 \in 1 .. Len(Downs[v])
        /\ Downs[v][4] = DropTable("approval") /\ Downs[v][5] = DropTable("cost_preview")
    <3>1. Downs[v] = Down5
      BY <1>0, <1>5
    <3> QED
      BY <3>1, Script5
  <2>2. "approval" \notin e.tables /\ "cost_preview" \notin e.tables
    BY <1>1, <2>1
  <2> QED
    BY <1>5, <2>2, NewAre DEF e
<1> QED
  BY <1>2, <1>3, <1>4, <1>5 DEF e

(* What the statements of the downgrade of 0002 leave: triggers,           *)
LEMMA DropTriggersDoes ==
  ASSUME NEW d, Shape(d), NEW s, NEW x, s = DropTriggers(x)
  PROVE  Effect(d, s).triggers = d.triggers \ x /\ Effect(d, s).grants = d.grants
<1>1. s.do = "drop triggers" /\ s.triggers = x
  BY DEF DropTriggers
<1>2. s.do \in Kinds
  BY <1>1 DEF Kinds
<1>3. Effect(d, s).triggers = d.triggers \ s.triggers
  BY <1>1, DropTriggersEffect
<1> QED
  BY <1>1, <1>2, <1>3, EffectFrame

(* policies,                                                               *)
LEMMA DropPoliciesDoes ==
  ASSUME NEW d, Shape(d), NEW s, NEW x, s = DropPolicies(x)
  PROVE  /\ \A p \in Effect(d, s).policies : p.table \notin x
         /\ Effect(d, s).grants = d.grants
<1>1. s.do = "drop policies"
  BY DEF DropPolicies
<1>2. s.tables = x
  BY DEF DropPolicies
<1>3. s.do \in Kinds
  BY <1>1 DEF Kinds
<1> DEFINE e == Effect(d, s)
<1>4. \A p \in e.policies : p.table \notin s.tables
  <2>1. e.policies = PoliciesOutside(d, s.tables)
    BY <1>1, DropPoliciesEffect
  <2> QED
    BY <2>1 DEF PoliciesOutside
<1>5. e.grants = d.grants
  BY <1>1, <1>3, EffectFrame
<1> QED
  BY <1>2, <1>4, <1>5

(* row security,                                                           *)
LEMMA UnsecureDoes ==
  ASSUME NEW d, Shape(d), NEW s, NEW x, s = Unsecure(x)
  PROVE  Effect(d, s).secured = d.secured \ x /\ Effect(d, s).grants = d.grants
<1>1. s.do = "unsecure" /\ s.tables = x
  BY DEF Unsecure
<1>2. s.do \in Kinds
  BY <1>1 DEF Kinds
<1>3. Effect(d, s).secured = d.secured \ s.tables
  BY <1>1, UnsecureEffect
<1> QED
  BY <1>1, <1>2, <1>3, EffectFrame

(* and, of the downgrade of 0004, functions.                               *)
LEMMA DropFunctionsDoes ==
  ASSUME NEW d, Shape(d), NEW s, NEW x, s = DropFunctions(x)
  PROVE  \A f \in Effect(d, s).functions : f \in d.functions /\ f[1] \notin x
<1>1. s.do = "drop functions"
  BY DEF DropFunctions
<1>2. s.names = x
  BY DEF DropFunctions
<1> DEFINE e == Effect(d, s)
<1>3. \A f \in e.functions : f \in d.functions /\ f[1] \notin s.names
  <2>1. e.functions = FunctionsBut(d, s.names)
    BY <1>1, DropFunctionsEffect
  <2> QED
    BY <2>1 DEF FunctionsBut
<1> QED
  BY <1>2, <1>3

(* The downgrade of 0004 drops all of its functions.                       *)
LEMMA DownFunctions ==
  ASSUME NEW d, d.functions \subseteq Functions4, NEW h, Runs(h, d, Down4)
  PROVE  h[Len(Down4)].functions = {}
<1> DEFINE names == {f[1] : f \in Functions4}
<1>1. /\ 1 \in 0 .. Len(Down4) /\ h[0] = d /\ h[1] = Effect(h[0], Down4[1]) /\ Shape(h[0])
      /\ Down4[1] = DropFunctions(names)
  BY Script4 DEF Runs, Sane
<1>2. \A f \in h[1].functions : f \in d.functions /\ f[1] \notin names
  BY <1>1, DropFunctionsDoes
<1>3. h[1].functions = {}
  BY <1>2
<1>4. h[Len(Down4)].functions \subseteq h[1].functions
  BY <1>1, Parts4, DownRun
<1> QED
  BY <1>3, <1>4

(* 0002 is taken back with its policies and triggers; its grants stay, for *)
(* its downgrade() does not revoke.                                        *)
LEMMA DownOf2 ==
  ASSUME NEW d, NEW h, Runs(h, d, Down2), d.tables = Spine, d.triggers \subseteq Triggers2
  PROVE  LET e == h[Len(Down2)]
         IN  e.secured = {} /\ e.policies = {} /\ e.triggers = {} /\ e.grants = d.grants
<1>1. /\ h[0] = d /\ Len(Down2) = 3
      /\ h[1] = Effect(h[0], Down2[1]) /\ h[2] = Effect(h[1], Down2[2])
      /\ h[3] = Effect(h[2], Down2[3]) /\ Shape(h[0]) /\ Shape(h[1]) /\ Shape(h[2])
  BY Script2 DEF Runs, Sane
<1>2. h[1].triggers = h[0].triggers \ Triggers2 /\ h[1].grants = h[0].grants
  BY <1>1, Script2, DropTriggersDoes
<1>3. /\ \A p \in h[2].policies : p.table \notin Spine
      /\ h[2].grants = h[1].grants
  BY <1>1, Script2, DropPoliciesDoes
<1>4. h[3].secured = h[2].secured \ Spine /\ h[3].grants = h[2].grants
  BY <1>1, Script2, UnsecureDoes
<1>5. /\ h[1].tables = Spine /\ h[2].tables = Spine
      /\ 1 \in 0 .. Len(Down2) /\ 2 \in 0 .. Len(Down2)
  <2>1. 1 \in 0 .. Len(Down2) /\ 2 \in 0 .. Len(Down2)
    BY <1>1
  <2> QED
    BY <2>1, Parts2, Run2
<1>6. Hangs(h[1]) /\ Hangs(h[2])
  BY <1>5 DEF Runs, Sane
<1>7. /\ h[3].policies \subseteq h[2].policies /\ h[3].triggers \subseteq h[1].triggers
  <2>1. /\ h[Len(Down2)].policies \subseteq h[2].policies
        /\ h[Len(Down2)].triggers \subseteq h[1].triggers
    BY <1>5, Parts2, DownRun
  <2> QED
    BY <1>1, <2>1
<1> QED
  BY <1>1, <1>2, <1>3, <1>4, <1>5, <1>6, <1>7 DEF Hangs

(* What 0002 grants is no more than its default privileges give.           *)
LEMMA Grants2Narrow ==
  Grants2Of(Spine) \subseteq {<<x[1], t, x[2]>> : x \in Defaults2, t \in Spine}
<1> SUFFICES ASSUME NEW g \in Grants2Of(Spine)
             PROVE  \E x \in Defaults2, t \in Spine : g = <<x[1], t, x[2]>>
  OBVIOUS
<1>1. CASE g \in Api \X Spine \X Crud
  <2>1. PICK r \in Api, t \in Spine, c \in Crud : g = <<r, t, c>>
    BY <1>1
  <2>2. <<r, c>> \in Defaults2
    BY DEF Defaults2
  <2> QED
    BY <2>1, <2>2
<1>2. CASE g \in (Worker \cup Readonly) \X Spine \X {"select"}
  <2>1. PICK r \in Worker \cup Readonly, t \in Spine : g = <<r, t, "select">>
    BY <1>2
  <2>2. <<r, "select">> \in Defaults2
    BY DEF Defaults2
  <2> QED
    BY <2>1, <2>2
<1> QED
  BY <1>1, <1>2 DEF Grants2Of

(* One revision down: nothing of its own tables is left and nothing else   *)
(* has changed, so that the database is like a fresh one of the revision   *)
(* before.  Rows go with their tables only.                                *)
LEMMA DownRevision ==
  ASSUME NEW v \in 1 .. LastRevision, NEW d, Sane(d), Like(v, d),
         ExecuteAll(d, Downs[v]).ok
  PROVE  LET e == ExecuteAll(d, Downs[v])
         IN  /\ Sane(e) /\ Like(v - 1, e) /\ e.tables \subseteq d.tables
             /\ \A r \in d.rows : r.table \in e.tables => r \in e.rows
<1> DEFINE c == Fresh[v - 1]
           e == ExecuteAll(d, Downs[v])
<1>0. /\ LastRevision = 5 /\ v - 1 \in 0 .. LastRevision /\ v \in 0 .. LastRevision
      /\ IsScript(Downs[v], v, "down") /\ SoundScript(Downs[v])
  BY RevisionsAre, AllParts
<1>1. Sane(e) /\ e.ok /\ d.ok
  BY <1>0, ScriptKeeps
<1>2. PICK h : Runs(h, d, Downs[v]) /\ e = h[Len(Downs[v])]
  BY <1>0, GoodHistory
<1>3. /\ e.tables \subseteq d.tables /\ e.functions \subseteq d.functions
      /\ \A r \in d.rows : r.table \in e.tables => r \in e.rows
  <2>1. 0 \in 0 .. Len(Downs[v]) /\ h[0] = d
    BY <1>0, <1>2 DEF IsScript, Runs
  <2> QED
    BY <1>0, <1>2, <2>1, DownRun
<1>4. Fresh[v].ok /\ c.ok /\ Sane(c)
  BY <1>0, LikeFresh, FreshRun, FreshSane
<1> HIDE DEF e
<1>5. /\ d.tables = Fresh[v].tables /\ d.secured = Fresh[v].secured
      /\ d.policies = Fresh[v].policies /\ d.triggers = Fresh[v].triggers
      /\ d.keys = Fresh[v].keys /\ d.functions = Fresh[v].functions
      /\ v >= 2 => d.grants = Fresh[v].grants /\ d.defaults = Fresh[v].defaults
  BY <1>0, LikeFresh
<1>6. Like(v - 1, e)
  <2>1. CASE v = 1
    <3>1. Fresh[1].tables \subseteq Spine
      BY <1>4, <2>1, Fresh1
    <3>2. e.tables \cap Spine = {}
      BY <1>2, <2>1, DownTables, NewAre
    <3>3. e.tables = {}
      BY <1>3, <1>5, <2>1, <3>1, <3>2
    <3>4. Hangs(e)
      BY <1>1 DEF Sane
    <3>5. e.secured = {} /\ e.policies = {} /\ e.triggers = {} /\ e.keys = {} /\ e.grants = {}
      BY <3>3, <3>4 DEF Hangs
    <3>6. e.functions = {}
      BY <1>3, <1>4, <1>5, <2>1, Fresh1
    <3>7. Narrow(e)
      BY <3>5 DEF Narrow
    <3>8. v - 1 = 0 /\ Fresh[0] = Empty /\ 0 \in 0 .. LastRevision
      BY <1>0, <2>1, FreshIs
    <3>9. /\ Fresh[0].ok /\ Fresh[0].tables = {} /\ Fresh[0].secured = {}
          /\ Fresh[0].policies = {} /\ Fresh[0].triggers = {} /\ Fresh[0].keys = {}
          /\ Fresh[0].functions = {}
      BY <3>8, EmptyIs
    <3>10. Like(0, e)
      <4>1. /\ e.tables = Fresh[0].tables /\ e.secured = Fresh[0].secured
            /\ e.policies = Fresh[0].policies /\ e.triggers = Fresh[0].triggers
            /\ e.keys = Fresh[0].keys /\ e.functions = Fresh[0].functions
        BY <3>3, <3>5, <3>6, <3>9
      <4>2. ~(0 >= 2)
        OBVIOUS
      <4> QED
        BY <3>7, <3>8, <3>9, <4>1, <4>2, LikeByFields
    <3> QED
      BY <3>8, <3>10
  <2>2. CASE v = 2
    <3>1. Downs[v] = Down2 /\ c = Fresh[1] /\ v - 1 = 1
      BY <2>2, RevisionsAre
    <3>2. /\ Fresh[1].ok /\ Fresh[2].tables = Spine /\ Fresh[2].keys = Fresh[1].keys
          /\ Fresh[2].triggers \subseteq Triggers2 /\ Fresh[2].functions = {}
          /\ Fresh[2].grants = Grants2Of(Spine) /\ Fresh[1].tables = Spine
      BY <1>4, <2>2, Fresh2
    <3>3. e.secured = {} /\ e.policies = {} /\ e.triggers = {} /\ e.grants = d.grants
      BY <1>2, <1>5, <2>2, <3>1, <3>2, DownOf2
    <3>4. e.tables = d.tables /\ e.keys = d.keys
      <4>1. Len(Down2) \in 0 .. Len(Down2)
        BY Script2
      <4> QED
        BY <1>2, <3>1, <4>1, Parts2, Run2
    <3>5. e.grants = Grants2Of(Spine) /\ e.tables = Spine
      BY <1>5, <2>2, <3>2, <3>3, <3>4
    <3>6. Narrow(e)
      BY <3>5, Grants2Narrow DEF Narrow
    <3>7. e.functions = {}
      BY <1>3, <1>5, <2>2, <3>2
    <3>8. /\ Fresh[1].secured = {} /\ Fresh[1].policies = {} /\ Fresh[1].triggers = {}
          /\ Fresh[1].functions = {}
      BY <3>2, Fresh1
    <3>9. 1 \in 0 .. LastRevision /\ ~(1 >= 2)
      BY <1>0
    <3>10. Like(1, e)
      BY <1>5, <2>2, <3>2, <3>3, <3>4, <3>6, <3>7, <3>8, <3>9, LikeByFields
    <3> QED
      BY <3>1, <3>10
  <2>3. CASE v \in {3, 4, 5}
    <3>1. c.tables \cap New[v] = {} /\ e.tables \cap New[v] = {}
      BY <1>2, <1>4, <2>3, FreshNew, DownTables
    <3>2. SameOutside(d, e, New[v])
      BY <1>0, <1>2, <2>3, OutsideRun
    <3>3. SameOutside(c, Fresh[v], New[v])
      BY <1>4, <2>3, FreshOutside
    <3>4. SameOutside(c, e, New[v])
      BY <1>5, <2>3, <3>2, <3>3
         DEF SameOutside, KeysOutside, GrantsOutside, PoliciesOutside, TriggersOutside
    <3>5. Hangs(c) /\ Hangs(e)
      BY <1>1, <1>4 DEF Sane
    <3> HIDE DEF c
    <3>6. /\ c.tables = e.tables /\ c.secured = e.secured /\ c.keys = e.keys
          /\ c.grants = e.grants /\ c.policies = e.policies /\ c.triggers = e.triggers
          /\ c.defaults = e.defaults
      BY <3>1, <3>4, <3>5, OutsideIsAll
    <3>7. e.functions = c.functions
      <4>1. CASE v = 3
        BY <1>3, <1>4, <1>5, <2>3, <4>1, FreshNew DEF c
      <4>2. CASE v = 4
        <5>1. Downs[v] = Down4 /\ d.functions \subseteq Functions4
          BY <1>1, <4>2, RevisionsAre DEF Sane
        <5>2. e.functions = {}
          BY <1>2, <5>1, DownFunctions
        <5> QED
          BY <1>4, <2>3, <4>2, <5>2, FreshNew DEF c
      <4>3. CASE v = 5
        <5>1. e.functions = d.functions
          BY <1>0, <1>2, <4>3, FunctionsRun
        <5> QED
          BY <1>4, <1>5, <2>3, <4>3, <5>1, FreshNew DEF c
      <4> QED
        BY <2>3, <4>1, <4>2, <4>3
    <3> QED
      BY <1>0, <1>4, <2>3, <3>6, <3>7, LikeByFields DEF c
  <2> QED
    BY <1>0, <2>1, <2>2, <2>3
<1> QED
  BY <1>1, <1>3, <1>6 DEF e

(***************************************************************************)
(* Commands.                                                               *)
(***************************************************************************)

(* A whole alembic upgrade, by induction over its steps.                   *)
LEMMA UpCommand ==
  ASSUME NEW v \in 0 .. LastRevision, NEW w \in 0 .. LastRevision, v < w,
         NEW d, Sane(d), Like(v, d), ExecuteSteps(d, Steps(v, w)).ok
  PROVE  LET e == ExecuteSteps(d, Steps(v, w))
         IN  Sane(e) /\ Like(w, e) /\ e.rows = d.rows
<1> DEFINE steps == Steps(v, w)
           L == w - v
<1>0. LastRevision = 5
  BY RevisionsAre
<1>1. /\ L \in Nat /\ Len(steps) = L /\ v + L = w
      /\ \A n \in 1 .. L : steps[n] = Ups[v + n]
  <2>1. Len(steps) = L /\ \A n \in 1 .. L : steps[n] = Ups[v + n]
    BY StepsAre
  <2>2. L \in Nat /\ v + L = w
    BY <1>0
  <2> QED
    BY <2>1, <2>2
<1> HIDE DEF steps
<1>2. PICK h : /\ h[0] = d /\ \A n \in 1 .. L : h[n] = ExecuteAll(h[n - 1], steps[n])
               /\ ExecuteSteps(d, steps) = h[L]
  <2>1. Len(steps) = L /\ Len(steps) \in Nat
    BY <1>1
  <2> HIDE DEF L
  <2>2. \E h : /\ h[0] = d
               /\ \A n \in 1 .. Len(steps) : h[n] = ExecuteAll(h[n - 1], steps[n])
               /\ ExecuteSteps(d, steps) = h[Len(steps)]
    BY <2>1, StepsHistory
  <2> QED
    BY <2>1, <2>2
<1>3. \A n \in 1 .. L : v + n \in 1 .. LastRevision /\ (v + n) - 1 = v + (n - 1)
  BY <1>0
<1> HIDE DEF L
<1> DEFINE S == {n \in 0 .. L :
                   Sane(h[n]) /\ (h[n].ok => Like(v + n, h[n]) /\ h[n].rows = d.rows)}
<1>4. 0 \in S
  <2>1. v + 0 = v
    BY <1>0
  <2> QED
    BY <1>1, <1>2, <2>1
<1>5. ASSUME NEW n \in 0 + 1 .. L, n - 1 \in S PROVE n \in S
  <2>1. n \in 1 .. L /\ n \in 0 .. L
    BY <1>1
  <2>2. /\ v + n \in 1 .. LastRevision /\ (v + n) - 1 = v + (n - 1)
        /\ h[n] = ExecuteAll(h[n - 1], Ups[v + n]) /\ Sane(h[n - 1])
        /\ SoundScript(Ups[v + n])
    BY <1>1, <1>2, <1>3, <1>5, <2>1, AllParts
  <2>3. Sane(h[n]) /\ (h[n].ok => h[n - 1].ok)
    BY <2>2, ScriptKeeps
  <2>4. ASSUME h[n].ok PROVE Like(v + n, h[n]) /\ h[n].rows = d.rows
    <3>1. Like((v + n) - 1, h[n - 1]) /\ h[n - 1].rows = d.rows
      BY <1>5, <2>2, <2>3, <2>4
    <3> QED
      BY <2>2, <2>4, <3>1, UpRevision
  <2> QED
    BY <2>1, <2>3, <2>4
<1> HIDE DEF S
<1>6. 0 .. L \subseteq S
  BY <1>1, <1>4, <1>5, CountUp
<1>7. L \in S
  BY <1>1, <1>6
<1> QED
  BY <1>1, <1>2, <1>7 DEF S, steps

(* A whole alembic downgrade, by induction over its steps.                 *)
LEMMA DownCommand ==
  ASSUME NEW v \in 0 .. LastRevision, NEW w \in 0 .. LastRevision, w <= v,
         NEW d, Sane(d), Like(v, d), ExecuteSteps(d, Steps(v, w)).ok
  PROVE  LET e == ExecuteSteps(d, Steps(v, w))
         IN  /\ Sane(e) /\ Like(w, e)
             /\ \A r \in d.rows : r.table \in e.tables => r \in e.rows
<1> DEFINE steps == Steps(v, w)
           L == v - w
           Kept(e) == /\ e.tables \subseteq d.tables
                      /\ \A r \in d.rows : r.table \in e.tables => r \in e.rows
<1>0. LastRevision = 5
  BY RevisionsAre
<1>1. /\ L \in Nat /\ Len(steps) = L /\ v - L = w
      /\ \A n \in 1 .. L : steps[n] = Downs[v - n + 1]
  <2>1. v >= w
    BY <1>0
  <2>2. Len(steps) = L /\ \A n \in 1 .. L : steps[n] = Downs[v - n + 1]
    BY <2>1, StepsAre
  <2>3. L \in Nat /\ v - L = w
    BY <1>0
  <2> QED
    BY <2>2, <2>3
<1> HIDE DEF steps
<1>2. PICK h : /\ h[0] = d /\ \A n \in 1 .. L : h[n] = ExecuteAll(h[n - 1], steps[n])
               /\ ExecuteSteps(d, steps) = h[L]
  <2>1. Len(steps) = L /\ Len(steps) \in Nat
    BY <1>1
  <2> HIDE DEF L
  <2>2. \E h : /\ h[0] = d
               /\ \A n \in 1 .. Len(steps) : h[n] = ExecuteAll(h[n - 1], steps[n])
               /\ ExecuteSteps(d, steps) = h[Len(steps)]
    BY <2>1, StepsHistory
  <2> QED
    BY <2>1, <2>2
<1>3. \A n \in 1 .. L : /\ v - n + 1 \in 1 .. LastRevision
                        /\ (v - n + 1) - 1 = v - n /\ v - n + 1 = v - (n - 1)
  BY <1>0
<1> HIDE DEF L
<1> DEFINE S == {n \in 0 .. L :
                   Sane(h[n]) /\ (h[n].ok => Like(v - n, h[n]) /\ Kept(h[n]))}
<1>4. 0 \in S
  <2>1. v - 0 = v
    BY <1>0
  <2> QED
    BY <1>1, <1>2, <2>1
<1>5. ASSUME NEW n \in 0 + 1 .. L, n - 1 \in S PROVE n \in S
  <2>1. n \in 1 .. L /\ n \in 0 .. L
    BY <1>1
  <2>2. /\ v - n + 1 \in 1 .. LastRevision
        /\ (v - n + 1) - 1 = v - n /\ v - n + 1 = v - (n - 1)
        /\ h[n] = ExecuteAll(h[n - 1], Downs[v - n + 1]) /\ Sane(h[n - 1])
        /\ SoundScript(Downs[v - n + 1])
    BY <1>1, <1>2, <1>3, <1>5, <2>1, AllParts
  <2>3. Sane(h[n]) /\ (h[n].ok => h[n - 1].ok)
    BY <2>2, ScriptKeeps
  <2>4. ASSUME h[n].ok PROVE Like(v - n, h[n]) /\ Kept(h[n])
    <3>1. Like(v - n + 1, h[n - 1]) /\ Kept(h[n - 1])
      BY <1>5, <2>2, <2>3, <2>4
    <3>2. /\ Like((v - n + 1) - 1, h[n]) /\ h[n].tables \subseteq h[n - 1].tables
          /\ \A r \in h[n - 1].rows : r.table \in h[n].tables => r \in h[n].rows
      BY <2>2, <2>4, <3>1, DownRevision
    <3> QED
      BY <2>2, <3>1, <3>2
  <2> QED
    BY <2>1, <2>3, <2>4
<1> HIDE DEF S
<1>6. 0 .. L \subseteq S
  BY <1>1, <1>4, <1>5, CountUp
<1>7. L \in S
  BY <1>1, <1>6
<1> QED
  BY <1>1, <1>2, <1>7 DEF S, steps

(***************************************************************************)
(* Rows.                                                                   *)
(***************************************************************************)

Kept(d, e) == Sane(e) /\ e.ok /\ Others(d, e, {"rows"})

(* A statement of a role changes rows only; the database stays sane when   *)
(* every row has its table, a key of its own and what it refers to.        *)
LEMMA RowsKeep ==
  ASSUME NEW d, Sane(d), d.ok, NEW rows,
         rows \subseteq SeedRows \cup Pool,
         \A r \in rows : r.table \in d.tables,
         \A a, b \in rows : a.table = b.table /\ a.id = b.id => a = b,
         \A k \in d.keys, row \in rows : Resolves(row, k, rows)
  PROVE  LET e == [d EXCEPT !.rows = rows] IN Kept(d, e)
<1> DEFINE e == [d EXCEPT !.rows = rows]
<1>1. Shape(d)
  BY DEF Sane
<1>2. Shape(e) /\ e.rows = rows /\ Others(d, e, {"rows"})
  BY <1>1 DEF Shape, Others, Fields
<1> HIDE DEF e
<1>3. /\ e.ok = d.ok /\ e.tables = d.tables /\ e.secured = d.secured /\ e.grants = d.grants
      /\ e.policies = d.policies /\ e.triggers = d.triggers /\ e.keys = d.keys
      /\ e.defaults = d.defaults /\ e.functions = d.functions
  BY <1>2 DEF Others, Fields
<1>4. Hangs(e)
  BY <1>3 DEF Sane, Hangs
<1>5. Sane(e) /\ e.ok
  BY <1>2, <1>3, <1>4 DEF Sane
<1> QED
  BY <1>2, <1>5 DEF e, Kept

(* Being like a fresh database is about the catalog.                       *)
LEMMA KeptLike ==
  ASSUME NEW d, NEW e, Kept(d, e), NEW v \in 0 .. LastRevision, Like(v, d)
  PROVE  Like(v, e)
<1>1. /\ Others(d, e, {"rows"}) /\ Fresh[v].ok
      /\ Others(d, Fresh[v], {"ok", "rows", "grants", "defaults"})
      /\ v >= 2 => Others(d, Fresh[v], {"ok", "rows"})
      /\ v < 2 => Narrow(d)
  BY DEF Kept, Like
<1>2. Others(e, Fresh[v], {"ok", "rows", "grants", "defaults"})
  BY <1>1 DEF Others, Fields
<1>3. v >= 2 => Others(e, Fresh[v], {"ok", "rows"})
  BY <1>1 DEF Others, Fields
<1>4. e.grants = d.grants /\ e.tables = d.tables
  BY <1>1 DEF Others, Fields
<1>5. v < 2 => Narrow(e)
  BY <1>1, <1>4 DEF Narrow
<1> QED
  BY <1>1, <1>2, <1>3, <1>5 DEF Like

(* A reference goes on resolving when no row of the table it names leaves. *)
LEMMA Grows ==
  ASSUME NEW row, NEW k, NEW old, NEW new, Resolves(row, k, old),
         \A t \in old : \E u \in new : u.table = t.table /\ u.id = t.id
  PROVE  Resolves(row, k, new)
  BY DEF Resolves, RefersTo

(* An insert, whoever makes it.                                            *)
LEMMA InsertKeeps ==
  ASSUME Sane(db), db.ok, NEW row \in Pool, KeysResolve(db, row), KeyFree(db, row)
  PROVE  LET e == [db EXCEPT !.rows = db.rows \cup {row}]
         IN  Kept(db, e)
<1> DEFINE rows == db.rows \cup {row}
<1>1. rows \subseteq SeedRows \cup Pool /\ \A r \in rows : r.table \in db.tables
  BY DEF Sane, KeysResolve
<1>2. \A a, b \in rows : a.table = b.table /\ a.id = b.id => a = b
  BY DEF Sane, KeyFree
<1>3. \A k \in db.keys, r \in rows : Resolves(r, k, db.rows)
  BY DEF Sane, KeysResolve
<1>4. \A k \in db.keys, r \in rows : Resolves(r, k, rows)
  BY <1>3, Grows
<1> HIDE DEF rows
<1>5. LET e == [db EXCEPT !.rows = rows] IN Kept(db, e)
  BY <1>1, <1>2, <1>4, RowsKeep
<1> QED
  BY <1>5 DEF rows

(* The seed file (ON CONFLICT DO NOTHING): what is there stays, what is    *)
(* new has keys of its own, and the references are checked.                *)
LEMMA SeedKeeps ==
  ASSUME Sane(db), db.ok, Seed
  PROVE  Kept(db, db')
<1> DEFINE after == db.rows \cup {r \in SeedRows : KeyFree(db, r)}
<1>1. after \subseteq SeedRows \cup Pool /\ \A r \in after : r.table \in db.tables
  BY DEF Sane, Seed
<1>2. \A a, b \in after : a.table = b.table /\ a.id = b.id => a = b
  BY SeedAssumption DEF Sane, KeyFree
<1>3. \A k \in db.keys, r \in db.rows : Resolves(r, k, after)
  <2>1. \A k \in db.keys, r \in db.rows : Resolves(r, k, db.rows)
    BY DEF Sane
  <2> QED
    BY <2>1, Grows
<1>4. \A k \in db.keys, r \in after : Resolves(r, k, after)
  BY <1>3 DEF Seed
<1>5. db' = [db EXCEPT !.rows = after]
  BY DEF Seed, Stores
<1> HIDE DEF after
<1> QED
  BY <1>1, <1>2, <1>4, <1>5, RowsKeep

(* An update keeps the key of its row, so that what referred to the old    *)
(* row refers to the new one.                                              *)
LEMMA UpdateKeeps ==
  ASSUME Sane(db), db.ok, NEW old \in db.rows, NEW new \in Pool,
         NEW role, NEW s, MayUpdate(db, role, s, old, new)
  PROVE  LET e == [db EXCEPT !.rows = (db.rows \ {old}) \cup {new}]
         IN  Kept(db, e)
<1> DEFINE rows == (db.rows \ {old}) \cup {new}
<1>0. old.table = new.table /\ old.id = new.id /\ KeysResolve(db, new)
  BY DEF MayUpdate
<1>1. rows \subseteq SeedRows \cup Pool /\ \A r \in rows : r.table \in db.tables
  BY <1>0 DEF Sane, KeysResolve
<1>2. \A a, b \in rows : a.table = b.table /\ a.id = b.id => a = b
  BY <1>0 DEF Sane
<1>3. \A k \in db.keys, r \in rows : Resolves(r, k, db.rows)
  BY <1>0 DEF Sane, KeysResolve
<1>4. \A t \in db.rows : \E u \in rows : u.table = t.table /\ u.id = t.id
  BY <1>0
<1>5. \A k \in db.keys, r \in rows : Resolves(r, k, rows)
  BY <1>3, <1>4, Grows
<1> HIDE DEF rows
<1>6. LET e == [db EXCEPT !.rows = rows] IN Kept(db, e)
  BY <1>1, <1>2, <1>5, RowsKeep
<1> QED
  BY <1>6 DEF rows

(* A delete takes the rows that cascade, which nobody refers to, and is    *)
(* refused when others refer to its row: what is left still resolves.      *)
LEMMA DeleteKeeps ==
  ASSUME Sane(db), db.ok, NEW row \in db.rows,
         NEW role, NEW s, MayDelete(db, role, s, row)
  PROVE  LET e == [db EXCEPT !.rows = db.rows \ ({row} \cup TakenAlong(db, row))]
         IN  Kept(db, e)
<1> DEFINE rows == db.rows \ ({row} \cup TakenAlong(db, row))
<1>1. rows \subseteq SeedRows \cup Pool /\ \A r \in rows : r.table \in db.tables
  BY DEF Sane
<1>2. \A a, b \in rows : a.table = b.table /\ a.id = b.id => a = b
  BY DEF Sane
<1>3. ASSUME NEW k \in db.keys, NEW r \in rows, Uses(r, k)
      PROVE  \E t \in rows : RefersTo(r, k, t)
  <2>1. PICK t \in db.rows : RefersTo(r, k, t)
    BY <1>3 DEF Sane, Resolves
  <2>2. t # row
    <3>1. RefersTo(r, k, row) => k.cascade
      BY DEF MayDelete
    <3>2. RefersTo(r, k, row) /\ k.cascade => r \in TakenAlong(db, row)
      BY DEF TakenAlong
    <3> QED
      BY <2>1, <3>1, <3>2
  <2>3. t \notin TakenAlong(db, row)
    <3>1. SUFFICES ASSUME t \in TakenAlong(db, row) PROVE FALSE
      OBVIOUS
    <3>2. PICK l \in db.keys : l.cascade /\ RefersTo(t, l, row)
      BY <3>1 DEF TakenAlong
    <3>3. t.table = l.from /\ t.table = k.to
      BY <2>1, <3>2 DEF RefersTo, Uses
    <3> QED
      BY <3>2, <3>3 DEF Sane, KeyOk
  <2> QED
    BY <2>1, <2>2, <2>3
<1>4. \A k \in db.keys, r \in rows : Resolves(r, k, rows)
  BY <1>3 DEF Resolves
<1> HIDE DEF rows
<1>5. LET e == [db EXCEPT !.rows = rows] IN Kept(db, e)
  BY <1>1, <1>2, <1>4, RowsKeep
<1> QED
  BY <1>5 DEF rows

(* TRUNCATE ... CASCADE empties its table and, with a table, every table   *)
(* that refers to it.  The definition is a recursive function: that there  *)
(* is one is shown with the least set of tables that is so closed.         *)
LEMMA EmptiedAre ==
  ASSUME NEW d, Hangs(d), NEW table \in d.tables
  PROVE  /\ table \in EmptiedWith(d, table)
         /\ \A k \in d.keys :
              k.to \in EmptiedWith(d, table) => k.from \in EmptiedWith(d, table)
<1> DEFINE Closed(C) == \A k \in d.keys : k.to \in C => k.from \in C
           least == {t \in d.tables :
                       \A C \in SUBSET d.tables : table \in C /\ Closed(C) => t \in C}
           Is(f) == f = [t \in d.tables |-> \/ t = table
                                            \/ \E k \in d.keys : k.from = t /\ f[k.to]]
           refers == CHOOSE f : Is(f)
<1>1. \A k \in d.keys : k.from \in d.tables /\ k.to \in d.tables
  BY DEF Hangs
<1>2. table \in least
  OBVIOUS
<1>3. Closed(least)
  BY <1>1
<1>4. ASSUME NEW t \in least, t # table
      PROVE  \E k \in d.keys : k.from = t /\ k.to \in least
  <2>1. SUFFICES ASSUME \A k \in d.keys : k.from = t => k.to \notin least
                 PROVE  FALSE
    OBVIOUS
  <2>2. Closed(least \ {t})
    BY <1>3, <2>1
  <2>3. least \ {t} \in SUBSET d.tables /\ table \in least \ {t}
    BY <1>2, <1>4
  <2> QED
    BY <1>4, <2>2, <2>3
<1> HIDE DEF least
<1>5. Is([t \in d.tables |-> t \in least])
  <2> DEFINE f == [t \in d.tables |-> t \in least]
             Refers(t) == t = table \/ \E k \in d.keys : k.from = t /\ f[k.to]
  <2>1. ASSUME NEW t \in d.tables PROVE (t \in least) = Refers(t)
    <3>1. \A k \in d.keys : f[k.to] <=> k.to \in least
      BY <1>1
    <3> HIDE DEF f
    <3>2. t \in least <=> Refers(t)
      BY <1>2, <1>3, <1>4, <3>1
    <3>3. Refers(t) \in BOOLEAN
      BY Zenon
    <3> HIDE DEF Refers
    <3> QED
      BY <3>2, <3>3
  <2>2. f = [t \in d.tables |-> Refers(t)]
    <3> HIDE DEF Refers
    <3> QED
      BY <2>1, Zenon
  <2> HIDE DEF f
  <2>3. Is(f)
    BY <2>2
  <2> QED
    BY <2>3 DEF f
<1>6. Is(refers)
  BY <1>5, Zenon
<1>7. \A t \in d.tables :
        refers[t] <=> t = table \/ \E k \in d.keys : k.from = t /\ refers[k.to]
  <2> HIDE DEF refers
  <2> QED
    BY <1>6, Zenon
<1>8. EmptiedWith(d, table) = {t \in d.tables : refers[t]}
  BY Zenon DEF EmptiedWith
<1> HIDE DEF refers
<1> QED
  BY <1>1, <1>7, <1>8, Zenon

(* A truncate takes every row of the tables it empties: no row that is     *)
(* left refers to one of them.                                             *)
LEMMA TruncateKeeps ==
  ASSUME Sane(db), db.ok, NEW table \in db.tables
  PROVE  LET e == [db EXCEPT !.rows = {row \in db.rows : row.table \notin EmptiedWith(db, table)}]
         IN  Kept(db, e)
<1> DEFINE emptied == EmptiedWith(db, table)
           rows == {row \in db.rows : row.table \notin emptied}
<1>0. \A k \in db.keys : k.to \in emptied => k.from \in emptied
  BY EmptiedAre DEF Sane
<1> HIDE DEF emptied
<1>1. rows \subseteq SeedRows \cup Pool /\ \A r \in rows : r.table \in db.tables
  BY DEF Sane
<1>2. \A a, b \in rows : a.table = b.table /\ a.id = b.id => a = b
  BY DEF Sane
<1>3. ASSUME NEW k \in db.keys, NEW r \in rows, Uses(r, k)
      PROVE  \E t \in rows : RefersTo(r, k, t)
  <2>1. PICK t \in db.rows : RefersTo(r, k, t)
    BY <1>3 DEF Sane, Resolves
  <2>2. t.table = k.to /\ r.table = k.from
    BY <2>1 DEF RefersTo, Uses
  <2> QED
    BY <1>0, <2>1, <2>2
<1>4. \A k \in db.keys, r \in rows : Resolves(r, k, rows)
  BY <1>3 DEF Resolves
<1> HIDE DEF rows
<1>5. LET e == [db EXCEPT !.rows = rows] IN Kept(db, e)
  BY <1>1, <1>2, <1>4, RowsKeep
<1> QED
  BY <1>5 DEF rows, emptied

(***************************************************************************)
(* The invariant.                                                          *)
(***************************************************************************)

(* The empty database is in order.                                         *)
LEMMA SchemaInit == Init => SchemaInv
<1> SUFFICES ASSUME Init PROVE SchemaInv
  OBVIOUS
<1>1. db = Empty /\ version = 0 /\ 0 \in 0 .. LastRevision
  BY RevisionsAre DEF Init
<1>2. Sane(db) /\ db.ok /\ Shape(db)
  BY <1>1, EmptyIs DEF Sane
<1>3. Like(0, Empty)
  <2>1. Fresh[0].ok /\ Fresh[0] = Empty /\ Narrow(Empty) /\ ~(0 >= 2)
    BY EmptyIs, FreshIs DEF Narrow
  <2> QED
    BY <1>1, <2>1, LikeByFields
<1>4. TypeOK
  BY <1>1, <1>2, CommandAssumption DEF Init, TypeOK, Versions
<1> QED
  BY <1>1, <1>2, <1>3, <1>4 DEF SchemaInv

(* A statement of a role keeps the catalog.                                *)
LEMMA RowsNext ==
  ASSUME SchemaInv, NEW role, NEW s, Statement(role, s)
  PROVE  Kept(db, db') /\ UNCHANGED <<version, command, outcome, started>>
<1>0. Sane(db) /\ db.ok
  BY DEF SchemaInv, TypeOK
<1>1. CASE \E row \in Pool : Insert(role, s, row)
  <2>1. PICK row \in Pool : Insert(role, s, row)
    BY <1>1
  <2> QED
    BY <1>0, <2>1, InsertKeeps DEF Insert, MayInsert, Stores
<1>2. CASE \E row \in Pool : WriteCard(role, s, row)
  <2>1. PICK row \in Pool : WriteCard(role, s, row)
    BY <1>2
  <2> QED
    BY <1>0, <2>1, InsertKeeps DEF WriteCard, MayInsert, Stores
<1>3. CASE \E old \in db.rows : Delete(role, s, old)
  <2>1. PICK old \in db.rows : Delete(role, s, old)
    BY <1>3
  <2> QED
    BY <1>0, <2>1, DeleteKeeps DEF Delete, Stores
<1>4. CASE \E old \in db.rows, new \in Pool : Update(role, s, old, new)
  <2>1. PICK old \in db.rows, new \in Pool : Update(role, s, old, new)
    BY <1>4
  <2> QED
    BY <1>0, <2>1, UpdateKeeps DEF Update, Stores
<1> QED
  BY <1>1, <1>2, <1>3, <1>4 DEF Statement

(* So does a truncate.                                                     *)
LEMMA TruncateNext ==
  ASSUME SchemaInv, NEW role, NEW table \in db.tables, Truncate(role, table)
  PROVE  Kept(db, db') /\ UNCHANGED <<version, command, outcome, started>>
  BY TruncateKeeps DEF SchemaInv, TypeOK, Truncate, Stores

(* What a command does when it succeeds: it leads from like its base to    *)
(* like its goal and takes rows with their tables only.                    *)
LEMMA MigrateDoes ==
  ASSUME SchemaInv, NEW m \in Migrators, Migrate(m)
  PROVE  /\ Sane(db') /\ db'.ok /\ version' \in Versions /\ Like(version', db')
         /\ \A r \in db.rows : r.table \in db'.tables => r \in db'.rows
<1>1. /\ command[m].base \in 0 .. LastRevision /\ command[m].goal \in 0 .. LastRevision
  BY DEF Migrate, SchemaInv, TypeOK, Versions
<1>2. CASE UNCHANGED <<db, version>>
  BY <1>2 DEF SchemaInv, TypeOK
<1>3. CASE /\ version = command[m].base /\ Migrated(m).ok
           /\ db' = Migrated(m) /\ version' = command[m].goal
  <2> DEFINE v == command[m].base
             w == command[m].goal
             e == ExecuteSteps(db, Steps(v, w))
  <2>1. /\ v \in 0 .. LastRevision /\ w \in 0 .. LastRevision /\ Sane(db) /\ Like(v, db)
        /\ e.ok /\ db' = e /\ version' = w
    BY <1>1, <1>3 DEF SchemaInv, Migrated
  <2> HIDE DEF v, w
  <2>2. /\ Sane(e) /\ Like(w, e)
        /\ \A r \in db.rows : r.table \in e.tables => r \in e.rows
    <3>1. CASE v < w
      BY <2>1, <3>1, UpCommand
    <3>2. CASE w <= v
      BY <2>1, <3>2, DownCommand
    <3>3. v < w \/ w <= v
      BY <2>1, RevisionsAre
    <3> QED
      BY <3>1, <3>2, <3>3
  <2> HIDE DEF e
  <2> QED
    BY <2>1, <2>2 DEF Versions
<1> QED
  BY <1>2, <1>3 DEF Migrate

(* Every step of an alembic process keeps the invariant; a failing command *)
(* leaves the database as it was.                                          *)
LEMMA CommandsNext ==
  ASSUME SchemaInv, NEW m \in Migrators, Read(m) \/ Migrate(m) \/ MigrateFails(m)
  PROVE  SchemaInv'
<1>1. CASE Read(m)
  <2>1. PICK goal \in {LastRevision} \cup {x \in Downgrades : x < version} :
          command' = [command EXCEPT ![m] = [base |-> version, goal |-> goal]]
    BY <1>1 DEF Read
  <2>2. goal \in Versions /\ version \in Versions
    BY CommandAssumption DEF Versions, LastRevision, SchemaInv, TypeOK
  <2>3. UNCHANGED <<db, version, outcome>> /\ started' = started + 1 /\ started < MaxCommands
    BY <1>1 DEF Read
  <2>4. Sane(db') /\ Like(version', db')
    BY <2>3 DEF SchemaInv
  <2>5. TypeOK'
    BY <2>1, <2>2, <2>3, CommandAssumption DEF SchemaInv, TypeOK
  <2> QED
    BY <2>4, <2>5 DEF SchemaInv
<1>2. CASE Migrate(m)
  <2>1. Sane(db') /\ db'.ok /\ version' \in Versions /\ Like(version', db')
    BY <1>2, MigrateDoes
  <2>2. Shape(db')
    BY <2>1 DEF Sane
  <2>3. TypeOK'
    BY <1>2, <2>1, <2>2 DEF Migrate, Ends, SchemaInv, TypeOK
  <2> QED
    BY <2>1, <2>3 DEF SchemaInv
<1>3. CASE MigrateFails(m)
  BY <1>3 DEF MigrateFails, Ends, SchemaInv, TypeOK
<1> QED
  BY <1>1, <1>2, <1>3

(* So does every step of the system.                                       *)
LEMMA SchemaNext == SchemaInv /\ [Next]_vars => SchemaInv'
<1> SUFFICES ASSUME SchemaInv, [Next]_vars PROVE SchemaInv'
  OBVIOUS
<1>1. ASSUME Kept(db, db'), UNCHANGED <<version, command, outcome, started>>
      PROVE  SchemaInv'
  <2>1. Sane(db') /\ db'.ok /\ Shape(db')
    BY <1>1 DEF Kept, Sane
  <2>2. Like(version, db')
    BY <1>1, KeptLike DEF SchemaInv, TypeOK, Versions
  <2>3. TypeOK'
    BY <1>1, <2>1 DEF SchemaInv, TypeOK
  <2> QED
    BY <1>1, <2>1, <2>2, <2>3 DEF SchemaInv
<1>2. CASE Seed
  <2>1. Kept(db, db')
    BY <1>2, SeedKeeps DEF SchemaInv, TypeOK
  <2> QED
    BY <1>1, <1>2, <2>1 DEF Seed, Stores
<1>3. CASE \E role \in AppRoles \cup {Migrator}, s \in Settings : Statement(role, s)
  BY <1>1, <1>3, RowsNext
<1>4. CASE \E role \in AppRoles \cup {Migrator}, table \in db.tables : Truncate(role, table)
  BY <1>1, <1>4, TruncateNext
<1>5. CASE UNCHANGED vars
  BY <1>5 DEF vars, SchemaInv, TypeOK
<1> QED
  BY <1>2, <1>3, <1>4, <1>5, CommandsNext DEF Next

(* The inductive invariant of the schema: after any number of upgrades and *)
(* downgrades, overtaking each other, with any writes between them, every  *)
(* object of the catalog belongs to a table that is there, every reference *)
(* resolves, and the catalog is like that of a fresh database at the       *)
(* version.                                                                *)
THEOREM SchemaInvariant == Spec => []SchemaInv
  BY SchemaInit, SchemaNext, PTL DEF Spec

(* Every reference that a key covers names a row, in every state:          *)
(* PostgreSQL checks each write, but only that keys are added with their   *)
(* check, tables dropped without CASCADE and cascades one level deep makes *)
(* it hold across migrations.                                              *)
THEOREM NoDanglingReference == Spec => []ReferencesResolve
<1>1. SchemaInv => ReferencesResolve
  BY DEF SchemaInv, TypeOK, ReferencesResolve, Sane
<1> QED
  BY <1>1, SchemaInvariant, PTL

(* From revision 0002 on the catalog depends on the version alone,         *)
(* although the downgrade of 0002 leaves grants and default privileges     *)
(* behind (0002:319).                                                      *)
THEOREM SameCatalog == Spec => []OneCatalogPerRevision
<1>1. ASSUME SchemaInv PROVE OneCatalogPerRevision
  <2>1. SUFFICES ASSUME version >= 2 PROVE CatalogOf(db) = CatalogOf(Fresh[version])
    BY DEF OneCatalogPerRevision
  <2>2. version \in 0 .. LastRevision
    BY <1>1 DEF SchemaInv, TypeOK, Versions
  <2>3. /\ Others(db, Fresh[version], {"ok", "rows"}) /\ db.ok /\ Fresh[version].ok
        /\ Shape(db) /\ Shape(Fresh[version])
    BY <1>1, <2>1, <2>2, FreshSane DEF SchemaInv, TypeOK, Like, Sane
  <2> DEFINE e == Fresh[version]
  <2>4. Others(db, e, {"ok", "rows"}) /\ db.ok = TRUE /\ e.ok = TRUE /\ Shape(db) /\ Shape(e)
    BY <2>3
  <2> HIDE DEF e
  <2>5. [db EXCEPT !.rows = {}] = [e EXCEPT !.rows = {}]
    BY <2>4 DEF Others, Shape, Fields
  <2> QED
    BY <2>5 DEF CatalogOf, e
<1> QED
  BY <1>1, SchemaInvariant, PTL

(***************************************************************************)
(* Row security and the guard of the cards.                                *)
(***************************************************************************)

(* Row security is on after the statement,                                 *)
LEMMA SecureDoes ==
  ASSUME NEW d, Shape(d), NEW s, NEW x, s = Secure(x)
  PROVE  x \subseteq Effect(d, s).secured
<1>1. s.do = "secure" /\ s.tables = x
  BY DEF Secure
<1>2. Effect(d, s).secured = d.secured \cup s.tables
  BY <1>1, SecureEffect
<1> QED
  BY <1>1, <1>2

(* triggers are there after theirs,                                        *)
LEMMA CreateTriggersDoes ==
  ASSUME NEW d, Shape(d), NEW s, NEW x, s = CreateTriggers(x)
  PROVE  x \subseteq Effect(d, s).triggers
<1>1. s.do = "create triggers" /\ s.triggers = x
  BY DEF CreateTriggers
<1>2. Effect(d, s).triggers = d.triggers \cup s.triggers
  BY <1>1, CreateTriggersEffect
<1> QED
  BY <1>1, <1>2

(* and row security is still on at the end of the upgrade,                 *)
LEMMA SecuredByRun ==
  ASSUME NEW v, NEW script, IsScript(script, v, "up"), NEW d, NEW h, Runs(h, d, script),
         NEW m \in 1 .. Len(script), NEW x, script[m] = Secure(x)
  PROVE  x \subseteq h[Len(script)].secured
<1>1. /\ m \in 0 .. Len(script) /\ m - 1 \in 0 .. Len(script)
      /\ h[m] = Effect(h[m - 1], script[m]) /\ Shape(h[m - 1])
  BY DEF IsScript, Runs, Sane
<1>2. x \subseteq h[m].secured
  BY <1>1, SecureDoes
<1>3. h[m].secured \subseteq h[Len(script)].secured
  BY <1>1, UpRun
<1> QED
  BY <1>2, <1>3

(* as are the triggers.                                                    *)
LEMMA TriggersByRun ==
  ASSUME NEW v, NEW script, IsScript(script, v, "up"), NEW d, NEW h, Runs(h, d, script),
         NEW m \in 1 .. Len(script), NEW x, script[m] = CreateTriggers(x)
  PROVE  x \subseteq h[Len(script)].triggers
<1>1. /\ m \in 0 .. Len(script) /\ m - 1 \in 0 .. Len(script)
      /\ h[m] = Effect(h[m - 1], script[m]) /\ Shape(h[m - 1])
  BY DEF IsScript, Runs, Sane
<1>2. x \subseteq h[m].triggers
  BY <1>1, CreateTriggersDoes
<1>3. h[m].triggers \subseteq h[Len(script)].triggers
  BY <1>1, UpRun
<1> QED
  BY <1>2, <1>3

(* Each revision from 0002 on secures its tables in the transaction that   *)
(* creates them.                                                           *)
LEMMA NewSecured ==
  ASSUME NEW v \in 2 .. LastRevision, Fresh[v].ok
  PROVE  New[v] \subseteq Fresh[v].secured
<1>1. v \in 1 .. LastRevision
  BY RevisionsAre
<1>2. PICK h : Runs(h, Fresh[v - 1], Ups[v]) /\ Fresh[v] = h[Len(Ups[v])]
  BY <1>1, FreshRun
<1>3. IsScript(Ups[v], v, "up")
  BY <1>1, AllParts
<1>4. \E m \in 1 .. Len(Ups[v]) : Ups[v][m] = Secure(New[v])
  <2>1. CASE v = 2
    <3>1. Ups[v] = Up2 /\ New[v] = Spine
      BY <2>1, RevisionsAre, NewAre
    <3>2. 7 \in 1 .. Len(Up2) /\ Up2[7] = Secure(Spine)
      BY Script2
    <3> QED
      BY <3>1, <3>2
  <2>2. CASE v = 3
    <3>1. Ups[v] = Up3 /\ New[v] = Secured3
      BY <2>2, RevisionsAre, NewAre DEF Secured3
    <3>2. 4 \in 1 .. Len(Up3) /\ Up3[4] = Secure(Secured3)
      BY Script3
    <3> QED
      BY <3>1, <3>2
  <2>3. CASE v = 4
    <3>1. Ups[v] = Up4 /\ New[v] = Secured4
      BY <2>3, RevisionsAre, NewAre DEF Secured4, Money
    <3>2. 4 \in 1 .. Len(Up4) /\ Up4[4] = Secure(Secured4)
      BY Script4
    <3> QED
      BY <3>1, <3>2
  <2>4. CASE v = 5
    <3>1. Ups[v] = Up5 /\ New[v] = {"cost_preview", "approval"}
      BY <2>4, RevisionsAre, NewAre
    <3>2. 4 \in 1 .. Len(Up5) /\ Up5[4] = Secure({"cost_preview", "approval"})
      BY Script5
    <3> QED
      BY <3>1, <3>2
  <2> QED
    BY <2>1, <2>2, <2>3, <2>4, RevisionsAre
<1> QED
  BY <1>2, <1>3, <1>4, SecuredByRun

(* From 0002 on every table has row security.                              *)
LEMMA AllSecured ==
  ASSUME NEW v \in 2 .. LastRevision, Fresh[v].ok
  PROVE  Fresh[v].tables \subseteq Fresh[v].secured
<1> DEFINE S == {n \in 2 .. v : Fresh[n].ok => Fresh[n].tables \subseteq Fresh[n].secured}
<1>0. LastRevision = 5 /\ v \in 2 .. 5
  BY RevisionsAre
<1>1. 2 \in S
  <2>1. Fresh[2].ok => Fresh[2].tables = Spine
    BY Fresh2
  <2>2. Fresh[2].ok => New[2] \subseteq Fresh[2].secured
    BY <1>0, NewSecured
  <2> QED
    BY <1>0, <2>1, <2>2, NewAre
<1>2. ASSUME NEW n \in 2 + 1 .. v, n - 1 \in S PROVE n \in S
  <2>1. n \in 2 .. LastRevision /\ n \in 1 .. LastRevision /\ n # 2 /\ n \in 2 .. v
    BY <1>0
  <2>2. ASSUME Fresh[n].ok PROVE Fresh[n].tables \subseteq Fresh[n].secured
    <3>1. Fresh[n - 1].ok
      BY <2>1, <2>2, FreshRun
    <3>2. SameOutside(Fresh[n - 1], Fresh[n], New[n])
      BY <2>1, <2>2, FreshOutside
    <3>3. New[n] \subseteq Fresh[n].secured
      BY <2>1, <2>2, NewSecured
    <3> QED
      BY <1>2, <3>1, <3>2, <3>3 DEF SameOutside
  <2> QED
    BY <2>1, <2>2
<1> HIDE DEF S
<1>3. 2 .. v \subseteq S
  BY <1>0, <1>1, <1>2, CountUp
<1> QED
  BY <1>0, <1>3 DEF S

(* Wherever there are cards there is the trigger that forbids to change    *)
(* them.                                                                   *)
LEMMA CardsGuarded ==
  ASSUME NEW v \in 0 .. LastRevision, Fresh[v].ok, "audit_card" \in Fresh[v].tables
  PROVE  <<"audit_card", "immutable">> \in Fresh[v].triggers
<1>0. LastRevision = 5 /\ v \in 0 .. 5
  BY RevisionsAre
<1>1. v \in {4, 5}
  <2>1. v # 0
    BY FreshIs, EmptyIs
  <2>2. v \in 1 .. LastRevision
    BY <1>0, <2>1
  <2>3. PICK w \in 1 .. v : "audit_card" \in New[w]
    BY <2>2, FreshTables
  <2>4. w # 1 /\ w # 2 /\ w # 3
    BY <2>3, NewAre DEF Spine
  <2> QED
    BY <1>0, <2>3, <2>4
<1>2. Fresh[4].ok => <<"audit_card", "immutable">> \in Fresh[4].triggers
  <2>1. SUFFICES ASSUME Fresh[4].ok PROVE <<"audit_card", "immutable">> \in Fresh[4].triggers
    OBVIOUS
  <2>2. 4 \in 1 .. LastRevision /\ Ups[4] = Up4
    BY <1>0, RevisionsAre
  <2>3. \E h : Runs(h, Fresh[4 - 1], Ups[4]) /\ Fresh[4] = h[Len(Ups[4])]
    BY <2>1, <2>2, FreshRun
  <2>4. PICK h : Runs(h, Fresh[4 - 1], Up4) /\ Fresh[4] = h[Len(Up4)]
    BY <2>2, <2>3
  <2>5. 6 \in 1 .. Len(Up4) /\ Up4[6] = CreateTriggers(Triggers4)
    BY Script4
  <2>6. Triggers4 \subseteq h[Len(Up4)].triggers
    BY <2>4, <2>5, Parts4, TriggersByRun
  <2>7. <<"audit_card", "immutable">> \in Triggers4
    BY DEF Triggers4
  <2> QED
    BY <2>4, <2>6, <2>7
<1>3. Fresh[5].ok => <<"audit_card", "immutable">> \in Fresh[5].triggers
  <2>1. SUFFICES ASSUME Fresh[5].ok PROVE <<"audit_card", "immutable">> \in Fresh[5].triggers
    OBVIOUS
  <2>2. 5 \in 1 .. LastRevision /\ 5 - 1 = 4
    BY <1>0
  <2>3. Fresh[4].ok
    BY <2>1, <2>2, FreshRun
  <2>4. SameOutside(Fresh[5 - 1], Fresh[5], New[5])
    BY <2>1, <2>2, FreshOutside
  <2>5. <<"audit_card", "immutable">> \in TriggersOutside(Fresh[4], New[5])
    BY <1>2, <2>3, NewAre DEF TriggersOutside
  <2>6. <<"audit_card", "immutable">> \in TriggersOutside(Fresh[5], New[5])
    BY <2>2, <2>4, <2>5 DEF SameOutside
  <2> QED
    BY <2>6 DEF TriggersOutside
<1> QED
  BY <1>1, <1>2, <1>3

(* No statement touches a card: updates and deletes meet the trigger, and  *)
(* no cascade reaches a card, which is no leaf of one.                     *)
LEMMA StatementSparesCards ==
  ASSUME SchemaInv, NEW role, NEW s, Statement(role, s),
         NEW card \in db.rows, card.table = "audit_card"
  PROVE  card \in db'.rows
<1>1. <<"audit_card", "immutable">> \in db.triggers
  <2>1. version \in 0 .. LastRevision /\ Like(version, db) /\ "audit_card" \in db.tables
    BY DEF SchemaInv, TypeOK, Versions, Sane
  <2>2. Fresh[version].ok /\ db.tables = Fresh[version].tables
        /\ db.triggers = Fresh[version].triggers
    BY <2>1, LikeFresh
  <2> QED
    BY <2>1, <2>2, CardsGuarded
<1>2. Shape(db) /\ \A k \in db.keys : KeyOk(k)
  BY DEF SchemaInv, TypeOK, Sane
<1>3. ASSUME NEW rows, Stores(rows) PROVE db'.rows = rows
  BY <1>2, <1>3 DEF Stores, Shape, Fields
<1>4. CASE \E row \in Pool : Insert(role, s, row) \/ WriteCard(role, s, row)
  BY <1>3, <1>4 DEF Insert, WriteCard
<1>5. ASSUME NEW old \in db.rows, Delete(role, s, old) PROVE card \in db'.rows
  <2>1. card # old
    BY <1>1, <1>5 DEF Delete, MayDelete, Mutable
  <2>2. card \notin TakenAlong(db, old)
    BY <1>2 DEF TakenAlong, RefersTo, Uses, KeyOk, Cascaded
  <2>3. db'.rows = db.rows \ ({old} \cup TakenAlong(db, old))
    BY <1>3, <1>5 DEF Delete
  <2> QED
    BY <2>1, <2>2, <2>3
<1>6. ASSUME NEW old \in db.rows, NEW new \in Pool, Update(role, s, old, new)
      PROVE  card \in db'.rows
  <2>1. card # old
    BY <1>1, <1>6 DEF Update, MayUpdate, Mutable
  <2>2. db'.rows = (db.rows \ {old}) \cup {new}
    BY <1>3, <1>6 DEF Update
  <2> QED
    BY <2>1, <2>2
<1> QED
  BY <1>4, <1>5, <1>6 DEF Statement

(* Nobody, the superuser included, changes a card or takes some of the     *)
(* cards away (audit.tg_forbid_mutation(), 0004:300): a card goes only     *)
(* with its table, by a downgrade, or by a truncate of the superuser,      *)
(* which takes every card, as no trigger of rows sees it.                  *)
THEOREM CardsGoTogether == Spec => CardsAreAppendOnly
<1>1. ASSUME SchemaInv, [Next]_vars
      PROVE  \A card \in db.rows :
               card.table = "audit_card" /\ "audit_card" \in db'.tables =>
                 card \in db'.rows \/ \E table \in db.tables : Truncate(Migrator, table)
  <2>1. SUFFICES ASSUME NEW card \in db.rows, card.table = "audit_card",
                        "audit_card" \in db'.tables
                 PROVE  \/ card \in db'.rows
                        \/ \E table \in db.tables : Truncate(Migrator, table)
    OBVIOUS
  <2>2. ASSUME NEW m \in Migrators, Read(m) \/ Migrate(m) \/ MigrateFails(m)
        PROVE  card \in db'.rows
    <3>1. CASE Read(m) \/ MigrateFails(m)
      BY <2>1, <3>1 DEF Read, MigrateFails
    <3>2. CASE Migrate(m)
      BY <1>1, <2>1, <3>2, MigrateDoes
    <3> QED
      BY <2>2, <3>1, <3>2
  <2>3. CASE Seed
    <3>1. Shape(db)
      BY <1>1 DEF SchemaInv, TypeOK
    <3>2. db'.rows = db.rows \cup {r \in SeedRows : KeyFree(db, r)}
      BY <2>3, <3>1 DEF Seed, Stores, Shape, Fields
    <3> QED
      BY <2>1, <3>2
  <2>4. ASSUME NEW role, NEW s, Statement(role, s) PROVE card \in db'.rows
    BY <1>1, <2>1, <2>4, StatementSparesCards
  <2>5. ASSUME NEW role, NEW table \in db.tables, Truncate(role, table)
        PROVE  Truncate(Migrator, table)
    BY <2>5 DEF Truncate, MayTruncate
  <2>6. CASE UNCHANGED vars
    BY <2>1, <2>6 DEF vars
  <2> QED
    BY <1>1, <2>2, <2>3, <2>4, <2>5, <2>6 DEF Next
<1> QED
  BY <1>1, SchemaInvariant, PTL DEF Spec, CardsAreAppendOnly

(***************************************************************************)
(* The surface of the roles.                                               *)
(***************************************************************************)

Barred == Identity \cup {"cost_budget", "approval"}
Surface(d) ==
  \A g \in d.grants : GrantOk(g) /\ (g[1] = "app_worker" => g[2] \notin Barred)
GrantsOk(d) == d.defaults = Defaults2 /\ \A g \in d.grants : GrantOk(g)

(* No statement after 0002 gives the worker or the read-only role more     *)
(* than they may have.                                                     *)
LEMMA GrantsOkStep ==
  ASSUME NEW d, Shape(d), GrantsOk(d), NEW v \in 3 .. 5, NEW s, Part(s, v, "up")
  PROVE  GrantsOk(Effect(d, s))
<1> DEFINE e == Effect(d, s)
<1>0. /\ s.do \in Kinds /\ s.do \notin Drops /\ s.do # "grant on all" /\ s.do # "default"
      /\ s.do = "grant" => \A g \in s.grants : GrantOk(g)
  <2>1. /\ Sound(s) /\ s.do \notin Drops
        /\ s.do \in {"grant on all", "default"} => v = 2
        /\ v > 2 /\ s.do = "grant" => \A g \in s.grants : GrantOk(g)
    BY DEF Part
  <2>2. s.do \in Kinds
    BY <2>1 DEF Sound
  <2>3. v # 2 /\ v > 2
    OBVIOUS
  <2>4. s.do # "grant on all" /\ s.do # "default"
    BY <2>1, <2>3
  <2> QED
    BY <2>1, <2>2, <2>3, <2>4
<1>1. e.defaults = Defaults2
  BY <1>0, EffectFrame DEF GrantsOk
<1>2. ASSUME s.do = "create table" PROVE GrantsOk(e)
  <2>1. e.grants = d.grants \cup GrantsOf(d, s.table)
    BY <1>2, CreateTableEffect
  <2>2. \A g \in GrantsOf(d, s.table) : GrantOk(g)
    <3>1. SUFFICES ASSUME NEW x \in Defaults2 PROVE GrantOk(<<x[1], s.table, x[2]>>)
      BY DEF GrantsOf, GrantsOk
    <3>2. /\ x[1] = "app_worker" \/ x[1] = "app_readonly" => x[2] = "select"
          /\ x[2] # "truncate"
      BY DEF Defaults2, Api, Worker, Readonly, Crud
    <3> QED
      BY <3>2 DEF GrantOk
  <2> HIDE DEF e
  <2> QED
    BY <1>1, <2>1, <2>2 DEF GrantsOk
<1>3. ASSUME s.do = "grant" PROVE GrantsOk(e)
  <2>1. e.grants = d.grants \cup s.grants
    BY <1>3, GrantEffect
  <2> HIDE DEF e
  <2> QED
    BY <1>0, <1>1, <1>3, <2>1 DEF GrantsOk
<1>4. ASSUME s.do = "revoke" PROVE GrantsOk(e)
  <2>1. e.grants = d.grants \ s.grants
    BY <1>4, RevokeEffect
  <2> HIDE DEF e
  <2> QED
    BY <1>1, <2>1 DEF GrantsOk
<1>5. ASSUME s.do \notin {"create table", "grant", "revoke"} PROVE GrantsOk(e)
  <2>1. e.grants = d.grants
    BY <1>0, <1>5, EffectFrame DEF Drops
  <2> HIDE DEF e
  <2> QED
    BY <1>1, <2>1 DEF GrantsOk
<1> QED
  BY <1>2, <1>3, <1>4, <1>5

(* Nor does a whole upgrade.                                               *)
LEMMA GrantsOkRun ==
  ASSUME NEW v \in 3 .. 5, NEW script, IsScript(script, v, "up"), NEW d, GrantsOk(d),
         NEW h, Runs(h, d, script)
  PROVE  \A n \in 0 .. Len(script) : GrantsOk(h[n])
<1> DEFINE L == Len(script)
           S == {n \in 0 .. L : GrantsOk(h[n])}
<1>1. /\ L \in Nat /\ h[0] = d
      /\ \A n \in 1 .. L : Part(script[n], v, "up") /\ h[n] = Effect(h[n - 1], script[n])
      /\ \A n \in 0 .. L : Shape(h[n])
  BY DEF IsScript, Runs, Sane
<1> HIDE DEF L
<1>2. 0 \in S
  BY <1>1
<1>3. ASSUME NEW n \in 0 + 1 .. L, n - 1 \in S PROVE n \in S
  <2>1. n \in 1 .. L /\ n - 1 \in 0 .. L /\ n \in 0 .. L
    BY <1>1
  <2>2. /\ Shape(h[n - 1]) /\ Part(script[n], v, "up") /\ h[n] = Effect(h[n - 1], script[n])
        /\ GrantsOk(h[n - 1])
    BY <1>1, <1>3, <2>1
  <2> QED
    BY <2>1, <2>2, GrantsOkStep
<1> HIDE DEF S
<1>4. 0 .. L \subseteq S
  BY <1>1, <1>2, <1>3, CountUp
<1> QED
  BY <1>4 DEF S, L

(* After 0002 the worker reads no identity table.                          *)
LEMMA Surface2 ==
  ASSUME Fresh[2].ok
  PROVE  GrantsOk(Fresh[2]) /\ Surface(Fresh[2])
<1>1. Fresh[2].grants = Grants2Of(Spine) /\ Fresh[2].defaults = Defaults2
  BY Fresh2
<1>2. ASSUME NEW g \in Grants2Of(Spine)
      PROVE  GrantOk(g) /\ (g[1] = "app_worker" => g[2] \notin Barred)
  <2>1. CASE g \in Api \X Spine \X Crud
    <3>1. PICK t \in Spine, c \in Crud : g = <<"app_api", t, c>>
      BY <2>1 DEF Api
    <3> QED
      BY <3>1 DEF GrantOk, Crud
  <2>2. CASE g \in Readonly \X Spine \X {"select"}
    <3>1. PICK t \in Spine : g = <<"app_readonly", t, "select">>
      BY <2>2 DEF Readonly
    <3> QED
      BY <3>1 DEF GrantOk
  <2>3. CASE g \in (Worker \X Spine \X {"select"}) \ (Worker \X Identity \X Commands)
    <3>1. PICK t \in Spine : g = <<"app_worker", t, "select">>
      BY <2>3 DEF Worker
    <3>2. t \notin Identity
      BY <2>3, <3>1 DEF Worker, Commands
    <3>3. t \notin {"cost_budget", "approval"}
      BY DEF Spine
    <3> QED
      BY <3>1, <3>2, <3>3 DEF GrantOk, Barred
  <2> QED
    BY <1>2, <2>1, <2>2, <2>3 DEF Grants2Of
<1> QED
  BY <1>1, <1>2 DEF GrantsOk, Surface

(* The grants of an upgrade on the tables that were there stay as they     *)
(* were; those on the new tables are all it adds.                          *)
LEMMA SurfaceUp ==
  ASSUME NEW v \in 3 .. 5, Fresh[v].ok, GrantsOk(Fresh[v - 1]), Surface(Fresh[v - 1]),
         \A g \in Fresh[v].grants : GrantOk(g) /\ g[2] \in New[v] /\ g[1] = "app_worker"
                                      => g[2] \notin Barred
  PROVE  GrantsOk(Fresh[v]) /\ Surface(Fresh[v])
<1>0. v \in 1 .. LastRevision /\ v # 2
  BY RevisionsAre
<1>1. PICK h : Runs(h, Fresh[v - 1], Ups[v]) /\ Fresh[v] = h[Len(Ups[v])]
  BY <1>0, FreshRun
<1>2. IsScript(Ups[v], v, "up") /\ Len(Ups[v]) \in 0 .. Len(Ups[v])
  BY <1>0, AllParts DEF IsScript
<1>3. GrantsOk(Fresh[v])
  BY <1>1, <1>2, GrantsOkRun
<1>4. GrantsOutside(Fresh[v - 1], New[v]) = GrantsOutside(Fresh[v], New[v])
  BY <1>0, FreshOutside DEF SameOutside
<1>5. ASSUME NEW g \in Fresh[v].grants, g[1] = "app_worker" PROVE g[2] \notin Barred
  <2>1. CASE g[2] \in New[v]
    BY <1>3, <1>5, <2>1 DEF GrantsOk
  <2>2. CASE g[2] \notin New[v]
    BY <1>4, <1>5, <2>2 DEF GrantsOutside, Surface
  <2> QED
    BY <2>1, <2>2
<1> QED
  BY <1>3, <1>5 DEF GrantsOk, Surface

(* 0003 has no table the worker may not read.                              *)
LEMMA Surface3 ==
  ASSUME Fresh[3].ok
  PROVE  GrantsOk(Fresh[3]) /\ Surface(Fresh[3])
<1>1. 3 \in 1 .. LastRevision /\ 3 - 1 = 2 /\ 3 \in 3 .. 5
  BY RevisionsAre
<1>2. Fresh[2].ok
  BY <1>1, FreshRun
<1>3. New[3] \cap Barred = {}
  BY NewAre DEF Barred, Identity, Spine
<1> QED
  BY <1>1, <1>2, <1>3, Surface2, SurfaceUp

(* Functions come without grants on tables.                                *)
LEMMA FunctionsFrame ==
  ASSUME NEW d, Shape(d), NEW s, NEW x, s = CreateFunctions(x)
  PROVE  Effect(d, s).grants = d.grants
<1>1. s.do = "create functions"
  BY DEF CreateFunctions
<1>2. s.do \in Kinds
  BY <1>1 DEF Kinds
<1> QED
  BY <1>1, <1>2, EffectFrame

(* A grant that was revoked is gone.                                       *)
LEMMA Revoked ==
  ASSUME NEW d, NEW t, NEW g \in d.grants \ (Worker \X {t} \X Commands),
         GrantOk(g), g[1] = "app_worker"
  PROVE  g[2] # t
  BY DEF GrantOk, Worker, Commands

(* 0004 takes the budgets from the worker, after the default privileges    *)
(* gave them.                                                              *)
LEMMA Surface4 ==
  ASSUME Fresh[4].ok
  PROVE  GrantsOk(Fresh[4]) /\ Surface(Fresh[4])
<1>1. 4 \in 1 .. LastRevision /\ 4 - 1 = 3 /\ 4 \in 3 .. 5 /\ Ups[4] = Up4
  BY RevisionsAre
<1>2. Fresh[3].ok /\ \E h : Runs(h, Fresh[3], Up4) /\ Fresh[4] = h[Len(Up4)]
  <2>1. Fresh[4 - 1].ok /\ \E h : Runs(h, Fresh[4 - 1], Ups[4]) /\ Fresh[4] = h[Len(Ups[4])]
    BY <1>1, FreshRun
  <2> QED
    BY <1>1, <2>1
<1>3. PICK h : Runs(h, Fresh[3], Up4) /\ Fresh[4] = h[Len(Up4)]
  BY <1>2
<1>4. /\ Fresh[4] = h[10] /\ h[9] = Effect(h[8], Up4[9]) /\ h[10] = Effect(h[9], Up4[10])
      /\ Shape(h[8]) /\ Shape(h[9])
  BY <1>3, Script4 DEF Runs, Sane
<1>5. h[9].grants = h[8].grants \ (Worker \X {"cost_budget"} \X Commands)
  BY <1>4, Script4, RevokeDoes
<1>6. h[10].grants = h[9].grants
  BY <1>4, Script4, FunctionsFrame
<1>7. ASSUME NEW g \in Fresh[4].grants, GrantOk(g), g[2] \in New[4], g[1] = "app_worker"
      PROVE  g[2] \notin Barred
  <2>1. g[2] # "cost_budget"
    BY <1>4, <1>5, <1>6, <1>7, Revoked
  <2> QED
    BY <1>7, <2>1, NewAre DEF Barred, Identity, Spine
<1> QED
  BY <1>1, <1>2, <1>7, Surface3, SurfaceUp

(* 0005 takes the approvals from the worker.                               *)
LEMMA Surface5 ==
  ASSUME Fresh[5].ok
  PROVE  GrantsOk(Fresh[5]) /\ Surface(Fresh[5])
<1>1. 5 \in 1 .. LastRevision /\ 5 - 1 = 4 /\ 5 \in 3 .. 5 /\ Ups[5] = Up5
  BY RevisionsAre
<1>2. Fresh[4].ok /\ \E h : Runs(h, Fresh[4], Up5) /\ Fresh[5] = h[Len(Up5)]
  <2>1. Fresh[5 - 1].ok /\ \E h : Runs(h, Fresh[5 - 1], Ups[5]) /\ Fresh[5] = h[Len(Ups[5])]
    BY <1>1, FreshRun
  <2> QED
    BY <1>1, <2>1
<1>3. PICK h : Runs(h, Fresh[4], Up5) /\ Fresh[5] = h[Len(Up5)]
  BY <1>2
<1>4. Fresh[5] = h[7] /\ h[7] = Effect(h[6], Up5[7]) /\ Shape(h[6])
  BY <1>3, Script5 DEF Runs, Sane
<1>5. h[7].grants = h[6].grants \ (Worker \X {"approval"} \X Commands)
  BY <1>4, Script5, RevokeDoes
<1>6. ASSUME NEW g \in Fresh[5].grants, GrantOk(g), g[2] \in New[5], g[1] = "app_worker"
      PROVE  g[2] \notin Barred
  <2>1. g[2] # "approval"
    BY <1>4, <1>5, <1>6, Revoked
  <2> QED
    BY <1>6, <2>1, NewAre DEF Barred, Identity, Spine
<1> QED
  BY <1>1, <1>2, <1>6, Surface4, SurfaceUp

(* The worker reads no identity, budget or approval and inserts cards and  *)
(* ledger entries only; the read-only role reads; none of the three may    *)
(* truncate.  So say the grants at every version from 0002 on, whatever    *)
(* the default privileges (0002:60) gave in between and whatever an        *)
(* earlier downgrade left.                                                 *)
THEOREM NarrowRoles == Spec => []RolesKeepTheirSurface
<1>1. ASSUME SchemaInv PROVE RolesKeepTheirSurface
  <2>1. SUFFICES ASSUME version >= 2, NEW g \in db.grants
                 PROVE  /\ g[1] = "app_worker" =>
                             /\ g[2] \notin Identity \cup {"cost_budget", "approval"}
                             /\ \/ g[3] = "select"
                                \/ g \in Worker \X {"audit_card", "cost_ledger"} \X {"insert"}
                        /\ g[1] = "app_readonly" => g[3] = "select"
                        /\ g[3] # "truncate"
    BY DEF RolesKeepTheirSurface
  <2>2. version \in 0 .. LastRevision /\ Like(version, db)
    BY <1>1 DEF SchemaInv, TypeOK, Versions
  <2>3. Fresh[version].ok /\ db.grants = Fresh[version].grants
    BY <2>1, <2>2, LikeFresh
  <2>4. version \in {2, 3, 4, 5}
    BY <2>1, <2>2, RevisionsAre
  <2>5. Surface(Fresh[version])
    BY <2>3, <2>4, Surface2, Surface3, Surface4, Surface5
  <2> QED
    BY <2>3, <2>5 DEF Surface, GrantOk, Barred
<1> QED
  BY <1>1, SchemaInvariant, PTL

(***************************************************************************)
(* One tenant.                                                             *)
(***************************************************************************)

(* Reads and writes of one tenant.  What a policy says of a row with the   *)
(* memberships of a database that has no two rows with one key.            *)
OneMembership(d) ==
  \A a, b \in d.rows : a.table = b.table /\ a.id = b.id => a = b

(* A scope row belongs to the tenant of its membership, of which there is  *)
(* one.                                                                    *)
LEMMA TenantOfMember ==
  ASSUME OneMembership(db), NEW row, row.table = "membership_location",
         NEW m \in db.rows, m.table = "membership", m.id = row.refs["membership_id"]
  PROVE  TenantOf(row) = TenantId(m)
<1> DEFINE c == CHOOSE x \in db.rows : x.table = "membership" /\ x.id = row.refs["membership_id"]
<1>1. c \in db.rows /\ c.table = "membership" /\ c.id = row.refs["membership_id"]
  OBVIOUS
<1>2. c = m
  BY <1>1 DEF OneMembership
<1>3. TenantOf(row) = TenantId(c)
  BY DEF TenantOf
<1> QED
  BY <1>2, <1>3

(* A role of the application works under row security from 0002 on: what   *)
(* it may do, a policy of the table says.                                  *)
LEMMA PolicyNeeded ==
  ASSUME SchemaInv, version >= 2, NEW d, Others(db, d, {"rows"}), NEW role \in AppRoles,
         NEW s, NEW cmd, NEW row, row.table \in db.tables, Permits(d, role, s, cmd, row)
  PROVE  \E p \in db.policies : /\ p.table = row.table /\ p.cmd = cmd
                                /\ Holds(d, p.rule, s, row) /\ PolicyOk(p)
<1>1. version \in 0 .. LastRevision /\ Like(version, db) /\ \A p \in db.policies : PolicyOk(p)
  BY DEF SchemaInv, TypeOK, Versions, Sane
<1>2. /\ Fresh[version].ok /\ db.tables = Fresh[version].tables
      /\ db.secured = Fresh[version].secured
  BY <1>1, LikeFresh
<1>3. version \in 2 .. LastRevision
  BY <1>1, RevisionsAre
<1>4. row.table \in db.secured
  BY <1>2, <1>3, AllSecured
<1>5. d.secured = db.secured /\ d.policies = db.policies
  BY DEF Others, Fields
<1>6. role # Migrator
  BY DEF AppRoles, Migrator
<1> QED
  BY <1>1, <1>4, <1>5, <1>6 DEF Permits

(* What the policy of the tenants says of a row it admits,                 *)
LEMMA TenantPolicySays ==
  ASSUME NEW d, NEW p, PolicyOk(p), NEW s, NEW row, p.table = row.table,
         Holds(d, p.rule, s, row), row.table = "tenant"
  PROVE  row.id = s.tenant /\ p.cmd = "select"
  BY DEF PolicyOk, Holds

(* that of the profiles,                                                   *)
LEMMA ProfilePolicySays ==
  ASSUME NEW d, NEW p, PolicyOk(p), NEW s, NEW row, p.table = row.table,
         Holds(d, p.rule, s, row), row.table = "user_profile"
  PROVE  row.id = s.actor /\ p.cmd = "select"
  BY DEF PolicyOk, Holds

MemberOf(m, row, s) ==
  /\ m.table = "membership" /\ m.id = row.refs["membership_id"]
  /\ s.tenant # None /\ TenantId(m) = s.tenant

(* that of the scope rows,                                                 *)
LEMMA MembershipPolicySays ==
  ASSUME NEW d, NEW p, PolicyOk(p), NEW s, NEW row, p.table = row.table,
         Holds(d, p.rule, s, row), row.table = "membership_location"
  PROVE  \E m \in d.rows : MemberOf(m, row, s)
<1>1. p.rule = "membership"
  BY DEF PolicyOk
<1> QED
  BY <1>1 DEF Holds, MemberOf

(* and those of all other tables.                                          *)
LEMMA OtherPolicySays ==
  ASSUME NEW d, NEW p, PolicyOk(p), NEW s, NEW row, p.table = row.table,
         Holds(d, p.rule, s, row), 
         row.table \notin {"tenant", "user_profile", "membership_location"}
  PROVE  s.tenant # None /\ TenantId(row) = s.tenant
<1>1. p.rule \in {"tenant", "location scope"}
  BY DEF PolicyOk
<1> QED
  BY <1>1 DEF Holds

(* The tenant of a row, where no membership has to be looked up.           *)
LEMMA PlainTenantOf ==
  ASSUME NEW row
  PROVE  /\ row.table = "tenant" => TenantOf(row) = row.id
         /\ row.table \notin {"tenant", "membership_location"} => TenantOf(row) = TenantId(row)
  BY DEF TenantOf

(* Whatever tenant, actor and role are bound, or none, a role of the       *)
(* application sees rows of the bound tenant only, and of the profiles its *)
(* own: every table has row security, and every policy a migration creates *)
(* names the tenant.                                                       *)
THEOREM ReadsOwnTenant == Spec => []SeesOwnTenant
<1>1. ASSUME SchemaInv PROVE SeesOwnTenant
  <2>1. SUFFICES ASSUME version >= 2, NEW role \in AppRoles, NEW s \in Settings,
                        NEW row \in SeenBy(db, role, s)
                 PROVE  IF row.table = "user_profile" THEN row.id = s.actor
                        ELSE s.tenant # None /\ TenantOf(row) = s.tenant
    BY DEF SeesOwnTenant
  <2>2. /\ row \in db.rows /\ Permits(db, role, s, "select", row)
        /\ row.table \in db.tables /\ OneMembership(db) /\ row.id # None
    BY <1>1, SeedAssumption DEF SeenBy, SchemaInv, TypeOK, Sane, OneMembership
  <2>3. Others(db, db, {"rows"})
    BY DEF Others
  <2>4. PICK p \in db.policies : /\ p.table = row.table /\ p.cmd = "select"
                                 /\ Holds(db, p.rule, s, row) /\ PolicyOk(p)
    BY <1>1, <2>1, <2>2, <2>3, PolicyNeeded
  <2>5. CASE row.table = "tenant"
    <3>1. row.id = s.tenant
      BY <2>4, <2>5, TenantPolicySays
    <3> QED
      BY <2>2, <2>5, <3>1, PlainTenantOf
  <2>6. CASE row.table = "user_profile"
    BY <2>4, <2>6, ProfilePolicySays
  <2>7. CASE row.table = "membership_location"
    <3>1. PICK m \in db.rows : MemberOf(m, row, s)
      BY <2>4, <2>7, MembershipPolicySays
    <3>2. TenantOf(row) = TenantId(m)
      BY <2>2, <2>7, <3>1, TenantOfMember DEF MemberOf
    <3> QED
      BY <2>7, <3>1, <3>2 DEF MemberOf
  <2>8. CASE row.table \notin {"tenant", "user_profile", "membership_location"}
    <3>1. s.tenant # None /\ TenantId(row) = s.tenant
      BY <2>4, <2>8, OtherPolicySays
    <3> QED
      BY <2>8, <3>1, PlainTenantOf
  <2> QED
    BY <2>5, <2>6, <2>7, <2>8
<1> QED
  BY <1>1, SchemaInvariant, PTL

(* A write is judged by a policy as well, in the database before or after  *)
(* it: the memberships are the same in both.                               *)
LEMMA WritesOwn ==
  ASSUME SchemaInv, version >= 2, NEW d, Others(db, d, {"rows"}),
         NEW role \in AppRoles, NEW s, NEW cmd, cmd # "select", NEW row,
         row.table \in db.tables, Permits(d, role, s, cmd, row),
         row.table = "membership_location" =>
           \A m \in d.rows : m.table = "membership" => m \in db.rows
  PROVE  TenantOf(row) = s.tenant
<1>1. PICK p \in db.policies : /\ p.table = row.table /\ p.cmd = cmd
                               /\ Holds(d, p.rule, s, row) /\ PolicyOk(p)
  <2>1. \E p \in db.policies : /\ p.table = row.table /\ p.cmd = cmd
                                /\ Holds(d, p.rule, s, row) /\ PolicyOk(p)
    BY PolicyNeeded
  <2> QED
    BY <2>1
<1>2. row.table # "tenant" /\ row.table # "user_profile"
  BY <1>1, TenantPolicySays, ProfilePolicySays
<1>3. CASE row.table = "membership_location"
  <2>1. PICK m \in d.rows : MemberOf(m, row, s)
    BY <1>1, <1>3, MembershipPolicySays
  <2>2. m \in db.rows
    BY <1>3, <2>1 DEF MemberOf
  <2>3. OneMembership(db)
    BY DEF SchemaInv, TypeOK, Sane, OneMembership
  <2> QED
    BY <1>3, <2>1, <2>2, <2>3, TenantOfMember DEF MemberOf
<1>4. CASE row.table # "membership_location"
  <2>1. TenantId(row) = s.tenant
    BY <1>1, <1>2, <1>4, OtherPolicySays
  <2> QED
    BY <1>2, <1>4, <2>1, PlainTenantOf
<1> QED
  BY <1>3, <1>4

(* A role of the application inserts, updates and deletes rows of the      *)
(* bound tenant only, and no update moves a row to another: the policies   *)
(* of the old and the new row say so, scope rows by their membership.      *)
THEOREM WritesOwnTenant == Spec => []WritesStayInTenant
<1>1. ASSUME SchemaInv PROVE WritesStayInTenant
  <2>1. SUFFICES ASSUME version >= 2, NEW role \in AppRoles, NEW s \in Settings
                 PROVE  /\ \A new \in Pool :
                             MayInsert(db, role, s, new) => TenantOf(new) = s.tenant
                        /\ \A old \in db.rows :
                             /\ MayDelete(db, role, s, old) => TenantOf(old) = s.tenant
                             /\ \A new \in Pool :
                                  MayUpdate(db, role, s, old, new) =>
                                    TenantOf(old) = s.tenant /\ TenantOf(new) = s.tenant
    BY DEF WritesStayInTenant
  <2>2. Others(db, db, {"rows"}) /\ Shape(db) /\ \A r \in db.rows : r.table \in db.tables
    BY <1>1 DEF Others, SchemaInv, TypeOK, Sane
  <2>3. ASSUME NEW new, MayInsert(db, role, s, new) PROVE TenantOf(new) = s.tenant
    <3>1. Permits(db, role, s, "insert", new) /\ new.table \in db.tables
      BY <2>3 DEF MayInsert, KeysResolve
    <3> QED
      BY <1>1, <2>1, <2>2, <3>1, WritesOwn
  <2>4. ASSUME NEW old \in db.rows, MayDelete(db, role, s, old) PROVE TenantOf(old) = s.tenant
    <3>1. Permits(db, role, s, "delete", old) /\ old.table \in db.tables
      BY <2>2, <2>4 DEF MayDelete
    <3> QED
      BY <1>1, <2>1, <2>2, <3>1, WritesOwn
  <2>5. ASSUME NEW old \in db.rows, NEW new, MayUpdate(db, role, s, old, new)
        PROVE  TenantOf(old) = s.tenant /\ TenantOf(new) = s.tenant
    <3> DEFINE rows == (db.rows \ {old}) \cup {new}
               after == [db EXCEPT !.rows = rows]
    <3>1. /\ Permits(db, role, s, "update", old) /\ Permits(after, role, s, "update", new)
          /\ old.table \in db.tables /\ new.table \in db.tables
      BY <2>2, <2>5 DEF MayUpdate, KeysResolve
    <3>2. Others(db, after, {"rows"}) /\ after.rows = rows
      <4> HIDE DEF rows
      <4> QED
        BY <2>2 DEF Others, Shape, Fields
    <3>3. new.table = "membership_location" =>
            \A m \in after.rows : m.table = "membership" => m \in db.rows
      BY <3>2
    <3> HIDE DEF after
    <3>4. TenantOf(old) = s.tenant
      BY <1>1, <2>1, <2>2, <3>1, WritesOwn
    <3>5. TenantOf(new) = s.tenant
      BY <1>1, <2>1, <3>1, <3>2, <3>3, WritesOwn
    <3> QED
      BY <3>4, <3>5
  <2> QED
    BY <2>3, <2>4, <2>5
<1> QED
  BY <1>1, SchemaInvariant, PTL

(***************************************************************************)
(* Commands succeed.                                                       *)
(***************************************************************************)

(* The tables in the order the migrations create them.                     *)
Built == << "tenant", "user_profile", "membership", "membership_location", "tenant_credential",
            "location", "location_alias", "audit_card", "cost_ledger", "cost_budget",
            "cost_preview", "approval" >>
First(n) == {Built[i] : i \in 1 .. n}

(* But for the two that come later than their table, a key refers to a     *)
(* table that was there before its own.                                    *)
Backward(k) == \E i, j \in 1 .. 12 : j < i /\ k.from = Built[i] /\ k.to = Built[j]
Stage(d, n) ==
  /\ Sane(d) /\ d.ok /\ d.tables = First(n)
  /\ \A k \in d.keys : k \in {ScopeKey, CardKey} \/ Backward(k)

(* No table has two places.                                                *)
LEMMA BuiltOnce == \A i, j \in 1 .. 12 : Built[i] = Built[j] => i = j
  BY SMTT(60) DEF Built

(* Of the first n tables there are those up to the nth,                    *)
LEMMA InFirst ==
  ASSUME NEW n \in 0 .. 12, NEW i \in 1 .. 12
  PROVE  Built[i] \in First(n) <=> i <= n
<1>1. ASSUME Built[i] \in First(n) PROVE i <= n
  <2>1. PICK j \in 1 .. n : Built[i] = Built[j]
    BY <1>1 DEF First
  <2>2. j \in 1 .. 12
    OBVIOUS
  <2>3. i = j
    BY <2>1, <2>2, BuiltOnce
  <2> QED
    BY <2>3
<1>2. ASSUME i <= n PROVE Built[i] \in First(n)
  BY <1>2 DEF First
<1> QED
  BY <1>1, <1>2

(* and the next one makes them one more.                                   *)
LEMMA FirstNext ==
  ASSUME NEW n \in 0 .. 11
  PROVE  First(n + 1) = First(n) \cup {Built[n + 1]} /\ Built[n + 1] \notin First(n)
<1>1. First(n + 1) = First(n) \cup {Built[n + 1]}
  <2>1. \A x : x \in First(n + 1) => x \in First(n) \cup {Built[n + 1]}
    BY DEF First
  <2>2. \A x : x \in First(n) \cup {Built[n + 1]} => x \in First(n + 1)
    BY DEF First
  <2> QED
    BY <2>1, <2>2
<1>2. Built[n + 1] \notin First(n)
  <2>1. n \in 0 .. 12 /\ n + 1 \in 1 .. 12 /\ ~(n + 1 <= n)
    OBVIOUS
  <2> QED
    BY <2>1, InFirst
<1> QED
  BY <1>1, <1>2

(* A sound statement that is possible succeeds.                            *)
LEMMA Succeeds ==
  ASSUME NEW d, Sane(d), d.ok, NEW s, Sound(s), Possible(d, s)
  PROVE  LET e == Execute(d, s)
         IN  /\ e = Effect(d, s) /\ e.ok /\ Sane(e)
             /\ s.do # "drop table" => e.rows = d.rows
<1>1. s.do \in Kinds /\ Shape(d)
  BY DEF Sound, Sane
<1>2. Execute(d, s) = Effect(d, s)
  BY DEF Execute
<1>3. Sane(Execute(d, s))
  BY StatementKeeps
<1>4. Effect(d, s).ok = d.ok /\ (s.do # "drop table" => Effect(d, s).rows = d.rows)
  BY <1>1, EffectFrame
<1> QED
  BY <1>2, <1>3, <1>4

(* The next table is created when its keys refer to tables that are there. *)
LEMMA CreateStage ==
  ASSUME NEW n \in 0 .. 11, NEW d, Stage(d, n), NEW keys,
         NEW s, s = CreateTable(Built[n + 1], keys), Sound(s),
         \A k \in keys : k.from = Built[n + 1] /\ k.to \in First(n)
  PROVE  LET e == Execute(d, s)
         IN  /\ Stage(e, n + 1) /\ e.rows = d.rows /\ e.keys = d.keys \cup keys
             /\ e.policies = d.policies /\ e.triggers = d.triggers
<1> DEFINE e == Execute(d, s)
<1>0. /\ Sane(d) /\ d.ok /\ Shape(d) /\ d.tables = First(n)
      /\ s.do = "create table" /\ s.table = Built[n + 1] /\ s.keys = keys
  BY DEF Stage, Sane, CreateTable
<1>1. First(n + 1) = First(n) \cup {Built[n + 1]} /\ Built[n + 1] \notin First(n)
  BY FirstNext
<1>2. Possible(d, s)
  BY <1>0, <1>1 DEF Possible
<1>3. e = Effect(d, s) /\ e.ok /\ Sane(e) /\ e.rows = d.rows
  BY <1>0, <1>2, Succeeds
<1>4. /\ Others(d, e, {"tables", "keys", "grants"})
      /\ e.tables = d.tables \cup {s.table} /\ e.keys = d.keys \cup s.keys
  <2>1. /\ Others(d, Effect(d, s), {"tables", "keys", "grants"})
        /\ Effect(d, s).tables = d.tables \cup {s.table}
        /\ Effect(d, s).keys = d.keys \cup s.keys
    <3>1. Shape(d) /\ s.do = "create table"
      BY <1>0
    <3> QED
      BY ONLY <3>1, CreateTableEffect
  <2> QED
    BY <1>3, <2>1
<1> HIDE DEF e
<1>5. e.policies = d.policies /\ e.triggers = d.triggers
  BY <1>4 DEF Others, Fields
<1>6. ASSUME NEW k \in keys PROVE Backward(k)
  <2>1. PICK j \in 1 .. n : k.to = Built[j]
    BY DEF First
  <2>2. j \in 1 .. 12 /\ n + 1 \in 1 .. 12 /\ j < n + 1
    OBVIOUS
  <2> QED
    BY <2>1, <2>2 DEF Backward
<1>7. \A k \in e.keys : k \in {ScopeKey, CardKey} \/ Backward(k)
  BY <1>0, <1>4, <1>6 DEF Stage
<1> QED
  BY <1>0, <1>1, <1>3, <1>4, <1>5, <1>7 DEF Stage, e

(* The last table goes when no late key is left that refers to it.         *)
LEMMA DropStage ==
  ASSUME NEW n \in 1 .. 12, NEW d, Stage(d, n), NEW s, s = DropTable(Built[n]), Sound(s),
         n = 6 => ScopeKey \notin d.keys, n = 12 => CardKey \notin d.keys
  PROVE  LET e == Execute(d, s) IN Stage(e, n - 1) /\ e.keys \subseteq d.keys
<1> DEFINE e == Execute(d, s)
<1>0. /\ Sane(d) /\ d.ok /\ Shape(d) /\ Hangs(d) /\ d.tables = First(n)
      /\ s.do = "drop table" /\ s.table = Built[n]
  BY DEF Stage, Sane, DropTable
<1>1. First(n) = First(n - 1) \cup {Built[n]} /\ Built[n] \notin First(n - 1)
  <2>1. n - 1 \in 0 .. 11 /\ (n - 1) + 1 = n
    OBVIOUS
  <2> QED
    BY <2>1, FirstNext
<1>2. ASSUME NEW k \in d.keys, k.to = Built[n] PROVE FALSE
  <2>1. k \notin {ScopeKey, CardKey}
    <3>1. /\ ScopeKey.to = Built[6] /\ 6 \in 1 .. 12
          /\ CardKey.to = Built[12] /\ 12 \in 1 .. 12
      <4>1. ScopeKey.to = "location" /\ CardKey.to = "approval"
        BY DEF ScopeKey, CardKey, CascadeKey, Key
      <4>2. Built[6] = "location" /\ Built[12] = "approval"
        BY DEF Built
      <4> QED
        BY <4>1, <4>2
    <3>2. ScopeKey.to = Built[n] => n = 6
      BY <3>1, BuiltOnce
    <3>3. CardKey.to = Built[n] => n = 12
      BY <3>1, BuiltOnce
    <3> QED
      BY <1>2, <3>2, <3>3
  <2>2. PICK i \in 1 .. 12, j \in 1 .. 12 : j < i /\ k.from = Built[i] /\ k.to = Built[j]
    BY <2>1 DEF Stage, Backward
  <2>3. j = n
    BY <1>2, <2>2, BuiltOnce
  <2>4. Built[i] \in First(n)
    BY <1>0, <2>2 DEF Hangs
  <2>5. i <= n
    BY <2>4, InFirst
  <2> QED
    BY <2>2, <2>3, <2>5
<1>3. Possible(d, s)
  BY <1>0, <1>1, <1>2 DEF Possible
<1>4. e = Effect(d, s) /\ e.ok /\ Sane(e)
  BY <1>0, <1>3, Succeeds
<1>5. e.tables = d.tables \ {s.table} /\ e.keys = KeysBut(d, s.table)
  <2>1. /\ Effect(d, s).tables = d.tables \ {s.table}
        /\ Effect(d, s).keys = KeysBut(d, s.table)
    <3>1. Shape(d) /\ s.do = "drop table"
      BY <1>0
    <3> QED
      BY ONLY <3>1, DropTableEffect
  <2> QED
    BY <1>4, <2>1
<1> HIDE DEF e
<1>6. e.tables = First(n - 1)
  <2> DEFINE a == First(n)
             b == First(n - 1)
             t == Built[n]
  <2>1. e.tables = a \ {t}
    BY <1>0, <1>5
  <2>2. a = b \cup {t} /\ t \notin b
    BY <1>1
  <2> HIDE DEF a, b, t
  <2>3. a \ {t} = b
    BY <2>2
  <2> QED
    BY <2>1, <2>3 DEF b
<1>7. e.keys \subseteq d.keys
  BY <1>5 DEF KeysBut
<1> QED
  BY <1>4, <1>6, <1>7 DEF Stage, e

(* A late key is added when every row there resolves it.                   *)
LEMMA AddStage ==
  ASSUME NEW n \in 0 .. 12, NEW d, Stage(d, n), NEW k \in {ScopeKey, CardKey},
         NEW s, s = AddKey(k), Sound(s), k \notin d.keys,
         k.from \in First(n), k.to \in First(n),
         \A row \in d.rows : Resolves(row, k, d.rows)
  PROVE  LET e == Execute(d, s)
         IN  /\ Stage(e, n) /\ e.rows = d.rows /\ e.keys = d.keys \cup {k}
             /\ e.policies = d.policies /\ e.triggers = d.triggers
<1> DEFINE e == Execute(d, s)
<1>0. /\ Sane(d) /\ d.ok /\ Shape(d) /\ d.tables = First(n)
      /\ s.do = "add key" /\ s.key = k
  BY DEF Stage, Sane, AddKey
<1>1. Possible(d, s)
  BY <1>0 DEF Possible
<1>2. e = Effect(d, s) /\ e.ok /\ Sane(e) /\ e.rows = d.rows
  BY <1>0, <1>1, Succeeds
<1>3. Others(d, e, {"keys"}) /\ e.keys = d.keys \cup {k}
  BY <1>0, <1>2, AddKeyEffect
<1> HIDE DEF e
<1>4. e.policies = d.policies /\ e.triggers = d.triggers /\ e.tables = d.tables
  BY <1>3 DEF Others, Fields
<1>5. \A x \in e.keys : x \in {ScopeKey, CardKey} \/ Backward(x)
  BY <1>3 DEF Stage
<1> QED
  BY <1>0, <1>2, <1>3, <1>4, <1>5 DEF Stage, e

(* Statements that bring or take no table or late key, no key at all, no   *)
(* policy, no trigger.                                                     *)
NoTable(s)   == s.do \notin {"create table", "drop table", "add key"}
NoKey(s)     == s.do \notin {"create table", "drop table", "add key", "drop key"}
NoPolicy(s)  == s.do \notin {"drop table", "create policies", "drop policies"}
NoTrigger(s) == s.do \notin {"drop table", "create triggers", "drop triggers"}

(* All other statements leave the tables as they are.                      *)
LEMMA OtherStage ==
  ASSUME NEW n \in 0 .. 12, NEW d, Stage(d, n), NEW s, Sound(s), Possible(d, s), NoTable(s)
  PROVE  LET e == Execute(d, s)
         IN  /\ Stage(e, n) /\ e.rows = d.rows
             /\ NoKey(s) => e.keys = d.keys
             /\ s.do = "drop key" => e.keys = d.keys \ {s.key}
             /\ NoPolicy(s) => e.policies = d.policies
             /\ NoTrigger(s) => e.triggers = d.triggers
<1> DEFINE e == Execute(d, s)
<1>0. /\ Sane(d) /\ d.ok /\ Shape(d) /\ d.tables = First(n) /\ s.do \in Kinds
      /\ s.do # "drop table" /\ s.do # "create table"
  BY DEF Stage, Sane, Sound, NoTable
<1>1. e = Effect(d, s) /\ e.ok /\ Sane(e) /\ e.rows = d.rows
  BY <1>0, Succeeds
<1>2. /\ e.tables = d.tables
      /\ NoKey(s) => e.keys = d.keys
      /\ NoPolicy(s) => e.policies = d.policies
      /\ NoTrigger(s) => e.triggers = d.triggers
  <2> DEFINE f == Effect(d, s)
  <2>1. /\ f.tables = d.tables
        /\ NoKey(s) => f.keys = d.keys
        /\ NoPolicy(s) => f.policies = d.policies
        /\ NoTrigger(s) => f.triggers = d.triggers
    BY <1>0, EffectFrame DEF NoKey, NoPolicy, NoTrigger
  <2> HIDE DEF f
  <2>2. e = f
    BY <1>1 DEF f
  <2> QED
    BY <2>1, <2>2
<1>3. s.do = "drop key" => e.keys = d.keys \ {s.key}
  <2>1. s.do = "drop key" => Effect(d, s).keys = d.keys \ {s.key}
    BY <1>0, DropKeyEffect
  <2> QED
    BY <1>1, <2>1
<1>4. s.do = "drop key" \/ NoKey(s)
  BY DEF NoTable, NoKey
<1> HIDE DEF e
<1>5. \A x \in e.keys : x \in {ScopeKey, CardKey} \/ Backward(x)
  BY <1>2, <1>3, <1>4 DEF Stage
<1> QED
  BY <1>0, <1>1, <1>2, <1>3, <1>5 DEF Stage, e

(* The names of the tables by their place,                                 *)
LEMMA Places ==
  /\ Built[1] = "tenant" /\ Built[2] = "user_profile" /\ Built[3] = "membership"
  /\ Built[4] = "membership_location" /\ Built[5] = "tenant_credential"
  /\ Built[6] = "location" /\ Built[7] = "location_alias" /\ Built[8] = "audit_card"
  /\ Built[9] = "cost_ledger" /\ Built[10] = "cost_budget"
  /\ Built[11] = "cost_preview" /\ Built[12] = "approval"
  BY DEF Built

(* and which of them there are, by how many.                               *)
LEMMA FirstHas ==
  ASSUME NEW n \in 0 .. 12
  PROVE  /\ n >= 1 <=> "tenant" \in First(n)
         /\ n >= 2 <=> "user_profile" \in First(n)
         /\ n >= 3 <=> "membership" \in First(n)
         /\ n >= 4 <=> "membership_location" \in First(n)
         /\ n >= 5 <=> "tenant_credential" \in First(n)
         /\ n >= 6 <=> "location" \in First(n)
         /\ n >= 7 <=> "location_alias" \in First(n)
         /\ n >= 8 <=> "audit_card" \in First(n)
         /\ n >= 9 <=> "cost_ledger" \in First(n)
         /\ n >= 10 <=> "cost_budget" \in First(n)
         /\ n >= 11 <=> "cost_preview" \in First(n)
         /\ n >= 12 <=> "approval" \in First(n)
<1>1. \A i \in 1 .. 12 : Built[i] \in First(n) <=> i <= n
  BY InFirst
<1>2. /\ Built[1] \in First(n) <=> 1 <= n
      /\ Built[2] \in First(n) <=> 2 <= n
      /\ Built[3] \in First(n) <=> 3 <= n
      /\ Built[4] \in First(n) <=> 4 <= n
      /\ Built[5] \in First(n) <=> 5 <= n
      /\ Built[6] \in First(n) <=> 6 <= n
      /\ Built[7] \in First(n) <=> 7 <= n
      /\ Built[8] \in First(n) <=> 8 <= n
      /\ Built[9] \in First(n) <=> 9 <= n
      /\ Built[10] \in First(n) <=> 10 <= n
      /\ Built[11] \in First(n) <=> 11 <= n
      /\ Built[12] \in First(n) <=> 12 <= n
  BY <1>1
<1> QED
  BY <1>2, Places

(* What a revision needs is there, and what it brings is not.              *)
LEMMA NewPlaces ==
  /\ \A n \in 5 .. 12 : Spine \subseteq First(n)
  /\ \A n \in 7 .. 12 : New[3] \subseteq First(n)
  /\ \A n \in 10 .. 12 : New[4] \subseteq First(n)
  /\ New[5] \subseteq First(12)
  /\ First(5) \cap New[3] = {} /\ First(7) \cap New[4] = {} /\ First(10) \cap New[5] = {}
<1>1. ASSUME NEW n \in 5 .. 12 PROVE Spine \subseteq First(n)
  BY FirstHas DEF Spine
<1>2. ASSUME NEW n \in 7 .. 12 PROVE New[3] \subseteq First(n)
  BY FirstHas, NewAre
<1>3. ASSUME NEW n \in 10 .. 12 PROVE New[4] \subseteq First(n)
  BY FirstHas, NewAre
<1>4. New[5] \subseteq First(12)
  BY FirstHas, NewAre
<1>5. First(5) \cap New[3] = {}
  BY FirstHas, NewAre
<1>6. First(7) \cap New[4] = {}
  BY FirstHas, NewAre
<1>7. First(10) \cap New[5] = {}
  BY FirstHas, NewAre
<1> QED
  BY <1>1, <1>2, <1>3, <1>4, <1>5, <1>6, <1>7

(* What PostgreSQL refuses only for a table that is not there, or never.   *)
LEMMA SimplyPossible ==
  ASSUME NEW d, NEW s,
         \/ s.do \in {"revoke", "grant on all", "default", "drop policies", "drop triggers",
                      "create functions", "drop functions"}
         \/ s.do \in {"secure", "unsecure", "grant"} /\ s.tables \subseteq d.tables
  PROVE  Possible(d, s)
  BY DEF Possible

NoPolicies(d, N) == \A p \in d.policies : p.table \notin N
NoTriggers(d, N) == \A t \in d.triggers : t[1] \notin N

(* Policies on tables that have none can be created,                       *)
LEMMA PoliciesPossible ==
  ASSUME NEW d, NEW N \in SUBSET d.tables, NoPolicies(d, N), NEW policies,
         \A p \in policies : p.table \in N
  PROVE  Possible(d, CreatePolicies(policies))
  BY DEF Possible, CreatePolicies, NoPolicies

(* and so can triggers.                                                    *)
LEMMA TriggersPossible ==
  ASSUME NEW d, NEW N \in SUBSET d.tables, NoTriggers(d, N), NEW triggers,
         \A t \in triggers : t[1] \in N
  PROVE  Possible(d, CreateTriggers(triggers))
  BY DEF Possible, CreateTriggers, NoTriggers

(* A run of a script, whose statements are all sound.                      *)
Ran(h, d, script) ==
  /\ h[0] = d
  /\ \A n \in 1 .. Len(script) : h[n] = Execute(h[n - 1], script[n]) /\ Sound(script[n])
  /\ ExecuteAll(d, script) = h[Len(script)]

(* Every script of the migrations has one, whether it succeeds or not.     *)
LEMMA RanOnce ==
  ASSUME NEW d, Sane(d), NEW script, SoundScript(script)
  PROVE  \E h : Ran(h, d, script)
  BY SaneHistory DEF SoundScript, Ran

(* 0001 succeeds on a database without tables.                             *)
LEMMA Goes1 ==
  ASSUME NEW d, Stage(d, 0)
  PROVE  LET e == ExecuteAll(d, Up1) IN Stage(e, 5)
<1>0. Sane(d) /\ SoundScript(Up1) /\ Len(Up1) = 5
  <2>1. 1 \in 1 .. LastRevision /\ Ups[1] = Up1
    BY RevisionsAre
  <2> QED
    BY <2>1, AllParts, Script1 DEF Stage
<1>1. PICK h : Ran(h, d, Up1)
  BY <1>0, RanOnce
<1>2. /\ h[0] = d
      /\ \A n \in 1 .. 5 : h[n] = Execute(h[n - 1], Up1[n]) /\ Sound(Up1[n])
      /\ ExecuteAll(d, Up1) = h[5]
  BY <1>0, <1>1 DEF Ran
<1>3. Stage(h[1], 1)
  <2>1. Up1[1] = CreateTable(Built[1], {})
    BY Script1, Places
  <2>2. \A k \in {} : k.from = Built[1] /\ k.to \in First(0)
    BY Places, FirstHas DEF TenantKey, CascadeKey, Key
  <2> QED
    BY <1>2, <2>1, <2>2, CreateStage
<1>4. Stage(h[2], 2)
  <2>1. Up1[2] = CreateTable(Built[2], {})
    BY Script1, Places
  <2>2. \A k \in {} : k.from = Built[2] /\ k.to \in First(1)
    BY Places, FirstHas DEF TenantKey, CascadeKey, Key
  <2> QED
    BY <1>2, <1>3, <2>1, <2>2, CreateStage
<1>5. Stage(h[3], 3)
  <2> DEFINE keys == {TenantKey("membership"),
                      Key("membership", "user_id", "user_profile"),
                      Key("membership", "invited_by", "user_profile")}
  <2>1. Up1[3] = CreateTable(Built[3], keys)
    BY Script1, Places
  <2>2. \A k \in keys : k.from = Built[3] /\ k.to \in First(2)
    BY Places, FirstHas DEF TenantKey, CascadeKey, Key
  <2> QED
    BY <1>2, <1>4, <2>1, <2>2, CreateStage
<1>6. Stage(h[4], 4)
  <2> DEFINE keys == {CascadeKey("membership_location", "membership_id", "membership")}
  <2>1. Up1[4] = CreateTable(Built[4], keys)
    BY Script1, Places
  <2>2. \A k \in keys : k.from = Built[4] /\ k.to \in First(3)
    BY Places, FirstHas DEF TenantKey, CascadeKey, Key
  <2> QED
    BY <1>2, <1>5, <2>1, <2>2, CreateStage
<1>7. Stage(h[5], 5)
  <2> DEFINE keys == {TenantKey("tenant_credential")}
  <2>1. Up1[5] = CreateTable(Built[5], keys)
    BY Script1, Places
  <2>2. \A k \in keys : k.from = Built[5] /\ k.to \in First(4)
    BY Places, FirstHas DEF TenantKey, CascadeKey, Key
  <2> QED
    BY <1>2, <1>6, <2>1, <2>2, CreateStage
<1> QED
  BY <1>2, <1>7

(* A database without policies or triggers on N, and what an upgrade has   *)
(* made of d on its way.                                                   *)
Bare(e, N) == NoPolicies(e, N) /\ NoTriggers(e, N)
Along(d, e, n) == Stage(e, n) /\ e.rows = d.rows /\ d.keys \subseteq e.keys

(* Nothing hangs on tables that are not there yet.                         *)
LEMMA BareBefore ==
  ASSUME NEW n, NEW d, Stage(d, n), NEW N, First(n) \cap N = {}
  PROVE  Bare(d, N)
<1>1. Hangs(d) /\ d.tables = First(n)
  BY DEF Stage, Sane
<1> QED
  BY <1>1 DEF Hangs, Bare, NoPolicies, NoTriggers

(* A key is not there before the tables it is between.                     *)
LEMMA KeyBefore ==
  ASSUME NEW n, NEW d, Stage(d, n), NEW k, k.from \notin First(n) \/ k.to \notin First(n)
  PROVE  k \notin d.keys
<1>1. Hangs(d) /\ d.tables = First(n)
  BY DEF Stage, Sane
<1> QED
  BY <1>1 DEF Hangs

(* An upgrade that has gone well so far goes well with its next table,     *)
LEMMA CreateGoes ==
  ASSUME NEW n \in 0 .. 11, NEW d, NEW c, Along(d, c, n), NEW N, Bare(c, N), NEW keys,
         NEW s, s = CreateTable(Built[n + 1], keys), Sound(s),
         \A k \in keys : k.from = Built[n + 1] /\ k.to \in First(n)
  PROVE  LET e == Execute(c, s)
         IN  /\ Along(d, e, n + 1) /\ Bare(e, N)
             /\ \A k : k \notin c.keys /\ k.from # Built[n + 1] => k \notin e.keys
<1> DEFINE e == Execute(c, s)
<1>1. /\ Stage(e, n + 1) /\ e.rows = c.rows /\ e.keys = c.keys \cup keys
      /\ e.policies = c.policies /\ e.triggers = c.triggers
  BY CreateStage DEF Along
<1> HIDE DEF e
<1>2. Bare(e, N)
  BY <1>1 DEF Bare, NoPolicies, NoTriggers
<1>3. \A k : k \notin c.keys /\ k.from # Built[n + 1] => k \notin e.keys
  BY <1>1
<1> QED
  BY <1>1, <1>2, <1>3 DEF Along, e

(* its late key, if every row resolves that,                               *)
LEMMA AddGoes ==
  ASSUME NEW n \in 0 .. 12, NEW d, NEW c, Along(d, c, n), NEW N, Bare(c, N),
         NEW k \in {ScopeKey, CardKey}, NEW s, s = AddKey(k), Sound(s), k \notin c.keys,
         k.from \in First(n), k.to \in First(n),
         \A row \in d.rows : Resolves(row, k, d.rows)
  PROVE  LET e == Execute(c, s) IN Along(d, e, n) /\ Bare(e, N) /\ k \in e.keys
<1> DEFINE e == Execute(c, s)
<1>1. /\ Stage(e, n) /\ e.rows = c.rows /\ e.keys = c.keys \cup {k}
      /\ e.policies = c.policies /\ e.triggers = c.triggers
  BY AddStage DEF Along
<1> HIDE DEF e
<1>2. Bare(e, N)
  BY <1>1 DEF Bare, NoPolicies, NoTriggers
<1> QED
  BY <1>1, <1>2 DEF Along, e

Plain(s, n) ==
  \/ s.do \in {"revoke", "grant on all", "default", "create functions"}
  \/ s.do \in {"secure", "grant"} /\ s.tables \subseteq First(n)

(* with row security, grants and functions,                                *)
LEMMA PlainGoes ==
  ASSUME NEW n \in 0 .. 12, NEW d, NEW c, Along(d, c, n), NEW s, Sound(s), Plain(s, n)
  PROVE  LET e == Execute(c, s)
         IN  /\ Along(d, e, n) /\ e.keys = c.keys
             /\ \A N : Bare(c, N) => Bare(e, N)
<1> DEFINE e == Execute(c, s)
<1>1. c.tables = First(n)
  BY DEF Along, Stage
<1>2. Possible(c, s)
  BY <1>1, SimplyPossible DEF Plain
<1>3. s.do \notin {"create table", "drop table", "add key", "drop key", "create policies",
                  "drop policies", "create triggers", "drop triggers"}
  BY DEF Plain
<1>4. /\ Stage(e, n) /\ e.rows = c.rows /\ e.keys = c.keys
      /\ e.policies = c.policies /\ e.triggers = c.triggers
  <2>1. Stage(c, n)
    BY DEF Along
  <2>2. NoTable(s) /\ NoKey(s) /\ NoPolicy(s) /\ NoTrigger(s)
    BY <1>3 DEF NoTable, NoKey, NoPolicy, NoTrigger
  <2>3. Stage(e, n) /\ e.rows = c.rows /\ e.keys = c.keys
    BY <1>2, <2>1, <2>2, OtherStage
  <2>4. e.policies = c.policies
    BY <1>2, <2>1, <2>2, OtherStage
  <2>5. e.triggers = c.triggers
    BY <1>2, <2>1, <2>2, OtherStage
  <2> QED
    BY <2>3, <2>4, <2>5
<1> HIDE DEF e
<1>5. \A N : Bare(c, N) => Bare(e, N)
  BY <1>4 DEF Bare, NoPolicies, NoTriggers
<1> QED
  BY <1>4, <1>5 DEF Along, e

(* with policies on tables without any,                                    *)
LEMMA PoliciesGo ==
  ASSUME NEW n \in 0 .. 12, NEW d, NEW c, Along(d, c, n), NEW N \in SUBSET First(n),
         Bare(c, N), NEW policies, \A p \in policies : p.table \in N,
         NEW s, s = CreatePolicies(policies), Sound(s)
  PROVE  LET e == Execute(c, s)
         IN  Along(d, e, n) /\ e.keys = c.keys /\ NoTriggers(e, N)
<1> DEFINE e == Execute(c, s)
<1>1. c.tables = First(n)
  BY DEF Along, Stage
<1>2. Possible(c, s)
  BY <1>1, PoliciesPossible DEF Bare
<1>3. s.do = "create policies"
  BY DEF CreatePolicies
<1>4. /\ Stage(e, n) /\ e.rows = c.rows /\ e.keys = c.keys /\ e.triggers = c.triggers
  <2>1. Stage(c, n)
    BY DEF Along
  <2>2. NoTable(s) /\ NoKey(s) /\ NoTrigger(s)
    BY <1>3 DEF NoTable, NoKey, NoTrigger
  <2> QED
    BY <1>2, <2>1, <2>2, OtherStage
<1> HIDE DEF e
<1> QED
  BY <1>4 DEF Along, e, Bare, NoTriggers

(* and with triggers on tables without any.                                *)
LEMMA TriggersGo ==
  ASSUME NEW n \in 0 .. 12, NEW d, NEW c, Along(d, c, n), NEW N \in SUBSET First(n),
         NoTriggers(c, N), NEW triggers, \A t \in triggers : t[1] \in N,
         NEW s, s = CreateTriggers(triggers), Sound(s)
  PROVE  LET e == Execute(c, s) IN Along(d, e, n) /\ e.keys = c.keys
<1> DEFINE e == Execute(c, s)
<1>1. c.tables = First(n)
  BY DEF Along, Stage
<1>2. Possible(c, s)
  BY <1>1, TriggersPossible
<1>3. s.do = "create triggers"
  BY DEF CreateTriggers
<1>4. Stage(e, n) /\ e.rows = c.rows /\ e.keys = c.keys
  <2>1. Stage(c, n)
    BY DEF Along
  <2>2. NoTable(s) /\ NoKey(s)
    BY <1>3 DEF NoTable, NoKey
  <2> QED
    BY <1>2, <2>1, <2>2, OtherStage
<1> HIDE DEF e
<1> QED
  BY <1>4 DEF Along, e

(* What the plain statements of the scripts are.                           *)
LEMMA PlainAre ==
  /\ \A n, r, c : Plain(GrantSelectOnAll(r), n) /\ Plain(DefaultGrant(r, c), n)
  /\ \A n, r, t, c : Plain(Revoke(r, t, c), n)
  /\ \A n, f : Plain(CreateFunctions(f), n)
  /\ \A n, t : t \subseteq First(n) => Plain(Secure(t), n)
  /\ \A n, r, t, c : t \subseteq First(n) => Plain(Grant(r, t, c), n)
  BY DEF Plain, GrantSelectOnAll, DefaultGrant, Revoke, CreateFunctions, Secure, Grant

(* The two keys that come later than their table.                          *)
LEMMA LateKeys ==
  /\ ScopeKey.from = "membership_location" /\ ScopeKey.to = "location"
  /\ CardKey.from = "audit_card" /\ CardKey.to = "approval"
  BY DEF ScopeKey, CardKey, CascadeKey, Key

(* 0002 succeeds on the spine without policies and triggers,               *)
LEMMA Goes2 ==
  ASSUME NEW d, Stage(d, 5), Bare(d, Spine)
  PROVE  LET e == ExecuteAll(d, Up2) IN Along(d, e, 5)
<1>0. Sane(d) /\ SoundScript(Up2) /\ Len(Up2) = 9
  <2>1. 2 \in 1 .. LastRevision /\ Ups[2] = Up2
    BY RevisionsAre
  <2> QED
    BY <2>1, AllParts, Script2 DEF Stage
<1>1. PICK h : Ran(h, d, Up2)
  BY <1>0, RanOnce
<1>2. /\ h[0] = d
      /\ \A n \in 1 .. 9 : h[n] = Execute(h[n - 1], Up2[n]) /\ Sound(Up2[n])
      /\ ExecuteAll(d, Up2) = h[9]
  BY <1>0, <1>1 DEF Ran
<1>3. Along(d, h[0], 5) /\ Bare(h[0], Spine)
  BY <1>2 DEF Along
<1>4. Along(d, h[1], 5) /\ Bare(h[1], Spine)
  <2>0. h[1] = Execute(h[0], Up2[1]) /\ Sound(Up2[1])
    BY <1>2
  <2>1. Plain(Up2[1], 5)
    <3>1. Spine \subseteq First(5)
      BY NewPlaces
    <3> QED
      BY <3>1, Script2, PlainAre
  <2> QED
    BY <1>3, <2>0, <2>1, PlainGoes
<1>5. Along(d, h[2], 5) /\ Bare(h[2], Spine)
  <2>0. h[2] = Execute(h[1], Up2[2]) /\ Sound(Up2[2])
    BY <1>2
  <2>1. Plain(Up2[2], 5)
    BY Script2, PlainAre
  <2> QED
    BY <1>4, <2>0, <2>1, PlainGoes
<1>6. Along(d, h[3], 5) /\ Bare(h[3], Spine)
  <2>0. h[3] = Execute(h[2], Up2[3]) /\ Sound(Up2[3])
    BY <1>2
  <2>1. Plain(Up2[3], 5)
    BY Script2, PlainAre
  <2> QED
    BY <1>5, <2>0, <2>1, PlainGoes
<1>7. Along(d, h[4], 5) /\ Bare(h[4], Spine)
  <2>0. h[4] = Execute(h[3], Up2[4]) /\ Sound(Up2[4])
    BY <1>2
  <2>1. Plain(Up2[4], 5)
    BY Script2, PlainAre
  <2> QED
    BY <1>6, <2>0, <2>1, PlainGoes
<1>8. Along(d, h[5], 5) /\ Bare(h[5], Spine)
  <2>0. h[5] = Execute(h[4], Up2[5]) /\ Sound(Up2[5])
    BY <1>2
  <2>1. Plain(Up2[5], 5)
    BY Script2, PlainAre
  <2> QED
    BY <1>7, <2>0, <2>1, PlainGoes
<1>9. Along(d, h[6], 5) /\ Bare(h[6], Spine)
  <2>0. h[6] = Execute(h[5], Up2[6]) /\ Sound(Up2[6])
    BY <1>2
  <2>1. Plain(Up2[6], 5)
    BY Script2, PlainAre
  <2> QED
    BY <1>8, <2>0, <2>1, PlainGoes
<1>10. Along(d, h[7], 5) /\ Bare(h[7], Spine)
  <2>0. h[7] = Execute(h[6], Up2[7]) /\ Sound(Up2[7])
    BY <1>2
  <2>1. Plain(Up2[7], 5)
    <3>1. Spine \subseteq First(5)
      BY NewPlaces
    <3> QED
      BY <3>1, Script2, PlainAre
  <2> QED
    BY <1>9, <2>0, <2>1, PlainGoes
<1>11. Along(d, h[8], 5) /\ NoTriggers(h[8], Spine)
  <2>0. h[8] = Execute(h[7], Up2[8]) /\ Sound(Up2[8])
    BY <1>2
  <2>1. Up2[8] = CreatePolicies(Policies2) /\ \A p \in Policies2 : p.table \in Spine
    BY Script2, Policies2Ok
  <2>2. Spine \subseteq First(5)
    BY NewPlaces
  <2> QED
    BY <1>10, <2>0, <2>1, <2>2, PoliciesGo
<1>12. Along(d, h[9], 5)
  <2>0. h[9] = Execute(h[8], Up2[9]) /\ Sound(Up2[9])
    BY <1>2
  <2>1. Up2[9] = CreateTriggers(Triggers2) /\ \A t \in Triggers2 : t[1] \in Spine
    <3>1. Up2[9] = CreateTriggers(Triggers2)
      BY Script2
    <3>2. \A t \in Triggers2 : t[1] \in Spine
      BY TriggersAre DEF Triggers2, Spine
    <3> QED
      BY <3>1, <3>2
  <2>2. Spine \subseteq First(5)
    BY NewPlaces
  <2> QED
    BY <1>11, <2>0, <2>1, <2>2, TriggersGo
<1> QED
  BY <1>2, <1>12 DEF Along

(* 0003 if every scope row names a location,                               *)
LEMMA Goes3 ==
  ASSUME NEW d, Stage(d, 5), \A row \in d.rows : Resolves(row, ScopeKey, d.rows)
  PROVE  LET e == ExecuteAll(d, Up3) IN Along(d, e, 7) /\ ScopeKey \in e.keys
<1>0. Sane(d) /\ SoundScript(Up3) /\ Len(Up3) = 6
  <2>1. 3 \in 1 .. LastRevision /\ Ups[3] = Up3
    BY RevisionsAre
  <2> QED
    BY <2>1, AllParts, Script3 DEF Stage
<1>1. PICK h : Ran(h, d, Up3)
  BY <1>0, RanOnce
<1>2. /\ h[0] = d
      /\ \A n \in 1 .. 6 : h[n] = Execute(h[n - 1], Up3[n]) /\ Sound(Up3[n])
      /\ ExecuteAll(d, Up3) = h[6]
  BY <1>0, <1>1 DEF Ran
<1>3. Along(d, h[0], 5) /\ Bare(h[0], New[3]) /\ ScopeKey \notin h[0].keys
  <2>1. First(5) \cap New[3] = {} /\ ScopeKey.to \notin First(5)
    BY NewPlaces, LateKeys, FirstHas
  <2> QED
    BY <1>2, <2>1, BareBefore, KeyBefore DEF Along
<1>4. Along(d, h[1], 6) /\ Bare(h[1], New[3]) /\ ScopeKey \notin h[1].keys
  <2>0. h[1] = Execute(h[0], Up3[1]) /\ Sound(Up3[1])
    BY <1>2
  <2> DEFINE keys == {TenantKey("location")}
  <2>1. Up3[1] = CreateTable(Built[6], keys)
    BY Script3, Places
  <2>2. \A k \in keys : k.from = Built[6] /\ k.to \in First(5)
    BY Places, FirstHas DEF TenantKey, CascadeKey, Key
  <2>3. ScopeKey.from # Built[6]
    BY LateKeys, Places
  <2> QED
    BY <1>3, <2>0, <2>1, <2>2, <2>3, CreateGoes
<1>5. Along(d, h[2], 7) /\ Bare(h[2], New[3]) /\ ScopeKey \notin h[2].keys
  <2>0. h[2] = Execute(h[1], Up3[2]) /\ Sound(Up3[2])
    BY <1>2
  <2> DEFINE keys == {TenantKey("location_alias"),
                      CascadeKey("location_alias", "location_id", "location"),
                      Key("location_alias", "created_by", "user_profile")}
  <2>1. Up3[2] = CreateTable(Built[7], keys)
    BY Script3, Places
  <2>2. \A k \in keys : k.from = Built[7] /\ k.to \in First(6)
    BY Places, FirstHas DEF TenantKey, CascadeKey, Key
  <2>3. ScopeKey.from # Built[7]
    BY LateKeys, Places
  <2> QED
    BY <1>4, <2>0, <2>1, <2>2, <2>3, CreateGoes
<1>6. Along(d, h[3], 7) /\ Bare(h[3], New[3]) /\ ScopeKey \in h[3].keys
  <2>0. h[3] = Execute(h[2], Up3[3]) /\ Sound(Up3[3])
    BY <1>2
  <2>1. Up3[3] = AddKey(ScopeKey)
    BY Script3
  <2>2. ScopeKey.from \in First(7) /\ ScopeKey.to \in First(7)
    BY LateKeys, FirstHas
  <2> QED
    BY <1>5, <2>0, <2>1, <2>2, AddGoes
<1>7. Along(d, h[4], 7) /\ Bare(h[4], New[3]) /\ ScopeKey \in h[4].keys
  <2>0. h[4] = Execute(h[3], Up3[4]) /\ Sound(Up3[4])
    BY <1>2
  <2>1. Plain(Up3[4], 7)
    <3>1. Secured3 \subseteq First(7)
      BY NewPlaces, NewAre DEF Secured3
    <3> QED
      BY <3>1, Script3, PlainAre
  <2> QED
    BY <1>6, <2>0, <2>1, PlainGoes
<1>8. Along(d, h[5], 7) /\ NoTriggers(h[5], New[3]) /\ ScopeKey \in h[5].keys
  <2>0. h[5] = Execute(h[4], Up3[5]) /\ Sound(Up3[5])
    BY <1>2
  <2>1. Up3[5] = CreatePolicies(Policies3) /\ \A p \in Policies3 : p.table \in New[3]
    BY Script3, Policies3Ok
  <2>2. New[3] \subseteq First(7)
    BY NewPlaces
  <2> QED
    BY <1>7, <2>0, <2>1, <2>2, PoliciesGo
<1>9. Along(d, h[6], 7) /\ ScopeKey \in h[6].keys
  <2>0. h[6] = Execute(h[5], Up3[6]) /\ Sound(Up3[6])
    BY <1>2
  <2>1. Up3[6] = CreateTriggers(Triggers3) /\ \A t \in Triggers3 : t[1] \in New[3]
    <3>1. \A t \in Triggers3 : t[1] \in {"location", "location_alias"}
      BY TriggersAre DEF Triggers3
    <3> QED
      BY <3>1, Script3, NewAre
  <2>2. New[3] \subseteq First(7)
    BY NewPlaces
  <2> QED
    BY <1>8, <2>0, <2>1, <2>2, TriggersGo
<1> QED
  BY <1>2, <1>9 DEF Along

(* 0004 whatever the rows are,                                             *)
LEMMA Goes4 ==
  ASSUME NEW d, Stage(d, 7)
  PROVE  LET e == ExecuteAll(d, Up4) IN Along(d, e, 10)
<1>0. Sane(d) /\ SoundScript(Up4) /\ Len(Up4) = 10
  <2>1. 4 \in 1 .. LastRevision /\ Ups[4] = Up4
    BY RevisionsAre
  <2> QED
    BY <2>1, AllParts, Script4 DEF Stage
<1>1. PICK h : Ran(h, d, Up4)
  BY <1>0, RanOnce
<1>2. /\ h[0] = d
      /\ \A n \in 1 .. 10 : h[n] = Execute(h[n - 1], Up4[n]) /\ Sound(Up4[n])
      /\ ExecuteAll(d, Up4) = h[10]
  BY <1>0, <1>1 DEF Ran
<1>3. Along(d, h[0], 7) /\ Bare(h[0], New[4])
  <2>1. First(7) \cap New[4] = {}
    BY NewPlaces
  <2> QED
    BY <1>2, <2>1, BareBefore DEF Along
<1>4. Along(d, h[1], 8) /\ Bare(h[1], New[4])
  <2>0. h[1] = Execute(h[0], Up4[1]) /\ Sound(Up4[1])
    BY <1>2
  <2> DEFINE keys == {TenantKey("audit_card"),
                      Key("audit_card", "location_id", "location"),
                      Key("audit_card", "actor_id", "user_profile")}
  <2>1. Up4[1] = CreateTable(Built[8], keys)
    BY Script4, Places
  <2>2. \A k \in keys : k.from = Built[8] /\ k.to \in First(7)
    BY Places, FirstHas DEF TenantKey, CascadeKey, Key
  <2> QED
    BY <1>3, <2>0, <2>1, <2>2, CreateGoes
<1>5. Along(d, h[2], 9) /\ Bare(h[2], New[4])
  <2>0. h[2] = Execute(h[1], Up4[2]) /\ Sound(Up4[2])
    BY <1>2
  <2> DEFINE keys == {TenantKey("cost_ledger"),
                      Key("cost_ledger", "location_id", "location")}
  <2>1. Up4[2] = CreateTable(Built[9], keys)
    BY Script4, Places
  <2>2. \A k \in keys : k.from = Built[9] /\ k.to \in First(8)
    BY Places, FirstHas DEF TenantKey, CascadeKey, Key
  <2> QED
    BY <1>4, <2>0, <2>1, <2>2, CreateGoes
<1>6. Along(d, h[3], 10) /\ Bare(h[3], New[4])
  <2>0. h[3] = Execute(h[2], Up4[3]) /\ Sound(Up4[3])
    BY <1>2
  <2> DEFINE keys == {TenantKey("cost_budget")}
  <2>1. Up4[3] = CreateTable(Built[10], keys)
    BY Script4, Places
  <2>2. \A k \in keys : k.from = Built[10] /\ k.to \in First(9)
    BY Places, FirstHas DEF TenantKey, CascadeKey, Key
  <2> QED
    BY <1>5, <2>0, <2>1, <2>2, CreateGoes
<1>7. Along(d, h[4], 10) /\ Bare(h[4], New[4])
  <2>0. h[4] = Execute(h[3], Up4[4]) /\ Sound(Up4[4])
    BY <1>2
  <2>1. Plain(Up4[4], 10)
    <3>1. Secured4 \subseteq First(10)
      BY NewPlaces, NewAre DEF Secured4, Money
    <3> QED
      BY <3>1, Script4, PlainAre
  <2> QED
    BY <1>6, <2>0, <2>1, PlainGoes
<1>8. Along(d, h[5], 10) /\ NoTriggers(h[5], New[4])
  <2>0. h[5] = Execute(h[4], Up4[5]) /\ Sound(Up4[5])
    BY <1>2
  <2>1. Up4[5] = CreatePolicies(Policies4) /\ \A p \in Policies4 : p.table \in New[4]
    BY Script4, Policies4Ok
  <2>2. New[4] \subseteq First(10)
    BY NewPlaces
  <2> QED
    BY <1>7, <2>0, <2>1, <2>2, PoliciesGo
<1>9. Along(d, h[6], 10)
  <2>0. h[6] = Execute(h[5], Up4[6]) /\ Sound(Up4[6])
    BY <1>2
  <2>1. Up4[6] = CreateTriggers(Triggers4) /\ \A t \in Triggers4 : t[1] \in New[4]
    <3>1. \A t \in Triggers4 : t[1] \in {"audit_card", "cost_ledger", "cost_budget"}
      BY TriggersAre DEF Triggers4, Secured4, Money
    <3> QED
      BY <3>1, Script4, NewAre
  <2>2. New[4] \subseteq First(10)
    BY NewPlaces
  <2> QED
    BY <1>8, <2>0, <2>1, <2>2, TriggersGo
<1>10. Along(d, h[7], 10)
  <2>0. h[7] = Execute(h[6], Up4[7]) /\ Sound(Up4[7])
    BY <1>2
  <2>1. Plain(Up4[7], 10)
    BY Script4, PlainAre
  <2> QED
    BY <1>9, <2>0, <2>1, PlainGoes
<1>11. Along(d, h[8], 10)
  <2>0. h[8] = Execute(h[7], Up4[8]) /\ Sound(Up4[8])
    BY <1>2
  <2>1. Plain(Up4[8], 10)
    <3>1. {"audit_card", "cost_ledger"} \subseteq First(10)
      BY NewPlaces, NewAre
    <3> QED
      BY <3>1, Script4, PlainAre
  <2> QED
    BY <1>10, <2>0, <2>1, PlainGoes
<1>12. Along(d, h[9], 10)
  <2>0. h[9] = Execute(h[8], Up4[9]) /\ Sound(Up4[9])
    BY <1>2
  <2>1. Plain(Up4[9], 10)
    BY Script4, PlainAre
  <2> QED
    BY <1>11, <2>0, <2>1, PlainGoes
<1>13. Along(d, h[10], 10)
  <2>0. h[10] = Execute(h[9], Up4[10]) /\ Sound(Up4[10])
    BY <1>2
  <2>1. Plain(Up4[10], 10)
    BY Script4, PlainAre
  <2> QED
    BY <1>12, <2>0, <2>1, PlainGoes
<1> QED
  BY <1>2, <1>13 DEF Along

(* and 0005 if every card that names an approval finds it.                 *)
LEMMA Goes5 ==
  ASSUME NEW d, Stage(d, 10), \A row \in d.rows : Resolves(row, CardKey, d.rows)
  PROVE  LET e == ExecuteAll(d, Up5) IN Along(d, e, 12) /\ CardKey \in e.keys
<1>0. Sane(d) /\ SoundScript(Up5) /\ Len(Up5) = 7
  <2>1. 5 \in 1 .. LastRevision /\ Ups[5] = Up5
    BY RevisionsAre
  <2> QED
    BY <2>1, AllParts, Script5 DEF Stage
<1>1. PICK h : Ran(h, d, Up5)
  BY <1>0, RanOnce
<1>2. /\ h[0] = d
      /\ \A n \in 1 .. 7 : h[n] = Execute(h[n - 1], Up5[n]) /\ Sound(Up5[n])
      /\ ExecuteAll(d, Up5) = h[7]
  BY <1>0, <1>1 DEF Ran
<1>3. Along(d, h[0], 10) /\ Bare(h[0], New[5]) /\ CardKey \notin h[0].keys
  <2>1. First(10) \cap New[5] = {} /\ CardKey.to \notin First(10)
    BY NewPlaces, LateKeys, FirstHas
  <2> QED
    BY <1>2, <2>1, BareBefore, KeyBefore DEF Along
<1>4. Along(d, h[1], 11) /\ Bare(h[1], New[5]) /\ CardKey \notin h[1].keys
  <2>0. h[1] = Execute(h[0], Up5[1]) /\ Sound(Up5[1])
    BY <1>2
  <2> DEFINE keys == {TenantKey("cost_preview"),
                      Key("cost_preview", "location_id", "location"),
                      Key("cost_preview", "requested_by", "user_profile")}
  <2>1. Up5[1] = CreateTable(Built[11], keys)
    BY Script5, Places
  <2>2. \A k \in keys : k.from = Built[11] /\ k.to \in First(10)
    BY Places, FirstHas DEF TenantKey, CascadeKey, Key
  <2>3. CardKey.from # Built[11]
    BY LateKeys, Places
  <2> QED
    BY <1>3, <2>0, <2>1, <2>2, <2>3, CreateGoes
<1>5. Along(d, h[2], 12) /\ Bare(h[2], New[5]) /\ CardKey \notin h[2].keys
  <2>0. h[2] = Execute(h[1], Up5[2]) /\ Sound(Up5[2])
    BY <1>2
  <2> DEFINE keys == {TenantKey("approval"),
                      Key("approval", "location_id", "location"),
                      Key("approval", "cost_preview_id", "cost_preview"),
                      Key("approval", "approved_by", "user_profile")}
  <2>1. Up5[2] = CreateTable(Built[12], keys)
    BY Script5, Places
  <2>2. \A k \in keys : k.from = Built[12] /\ k.to \in First(11)
    BY Places, FirstHas DEF TenantKey, CascadeKey, Key
  <2>3. CardKey.from # Built[12]
    BY LateKeys, Places
  <2> QED
    BY <1>4, <2>0, <2>1, <2>2, <2>3, CreateGoes
<1>6. Along(d, h[3], 12) /\ Bare(h[3], New[5]) /\ CardKey \in h[3].keys
  <2>0. h[3] = Execute(h[2], Up5[3]) /\ Sound(Up5[3])
    BY <1>2
  <2>1. Up5[3] = AddKey(CardKey)
    BY Script5
  <2>2. CardKey.from \in First(12) /\ CardKey.to \in First(12)
    BY LateKeys, FirstHas
  <2> QED
    BY <1>5, <2>0, <2>1, <2>2, AddGoes
<1>7. Along(d, h[4], 12) /\ Bare(h[4], New[5]) /\ CardKey \in h[4].keys
  <2>0. h[4] = Execute(h[3], Up5[4]) /\ Sound(Up5[4])
    BY <1>2
  <2>1. Plain(Up5[4], 12)
    <3>1. {"cost_preview", "approval"} \subseteq First(12)
      BY NewPlaces, NewAre
    <3> QED
      BY <3>1, Script5, PlainAre
  <2> QED
    BY <1>6, <2>0, <2>1, PlainGoes
<1>8. Along(d, h[5], 12) /\ NoTriggers(h[5], New[5]) /\ CardKey \in h[5].keys
  <2>0. h[5] = Execute(h[4], Up5[5]) /\ Sound(Up5[5])
    BY <1>2
  <2>1. Up5[5] = CreatePolicies(Policies5) /\ \A p \in Policies5 : p.table \in New[5]
    BY Script5, Policies5Ok
  <2>2. New[5] \subseteq First(12)
    BY NewPlaces
  <2> QED
    BY <1>7, <2>0, <2>1, <2>2, PoliciesGo
<1>9. Along(d, h[6], 12) /\ CardKey \in h[6].keys
  <2>0. h[6] = Execute(h[5], Up5[6]) /\ Sound(Up5[6])
    BY <1>2
  <2>1. Up5[6] = CreateTriggers(Triggers5) /\ \A t \in Triggers5 : t[1] \in New[5]
    <3>1. \A t \in Triggers5 : t[1] \in {"cost_preview", "approval"}
      BY TriggersAre DEF Triggers5
    <3> QED
      BY <3>1, Script5, NewAre
  <2>2. New[5] \subseteq First(12)
    BY NewPlaces
  <2> QED
    BY <1>8, <2>0, <2>1, <2>2, TriggersGo
<1>10. Along(d, h[7], 12) /\ CardKey \in h[7].keys
  <2>0. h[7] = Execute(h[6], Up5[7]) /\ Sound(Up5[7])
    BY <1>2
  <2>1. Plain(Up5[7], 12)
    BY Script5, PlainAre
  <2> QED
    BY <1>9, <2>0, <2>1, PlainGoes
<1> QED
  BY <1>2, <1>10 DEF Along

(* A statement back that takes no table and no key.                        *)
Mild(s, n) ==
  \/ s.do \in {"drop policies", "drop triggers", "drop functions"}
  \/ s.do = "unsecure" /\ s.tables \subseteq First(n)

(* Such are most statements of the downgrades.                             *)
LEMMA MildAre ==
  /\ \A n, t : Mild(DropPolicies(t), n) /\ Mild(DropTriggers(t), n)
  /\ \A n, f : Mild(DropFunctions(f), n)
  /\ \A n, t : t \subseteq First(n) => Mild(Unsecure(t), n)
  BY DEF Mild, DropPolicies, DropTriggers, DropFunctions, Unsecure

(* They are possible with whatever hangs on the tables.                    *)
LEMMA BackPlain ==
  ASSUME NEW n \in 0 .. 12, NEW c, Stage(c, n), NEW s, Sound(s), Mild(s, n)
  PROVE  LET e == Execute(c, s) IN Stage(e, n) /\ e.keys = c.keys
<1>1. c.tables = First(n)
  BY DEF Stage
<1>2. Possible(c, s)
  BY <1>1, SimplyPossible DEF Mild
<1>3. NoTable(s) /\ NoKey(s)
  BY DEF NoTable, NoKey, Mild
<1> QED
  BY <1>2, <1>3, OtherStage

(* A key that is there can be dropped;                                     *)
LEMMA BackKey ==
  ASSUME NEW n \in 0 .. 12, NEW c, Stage(c, n), NEW k \in c.keys, NEW s, Sound(s),
         s = DropKey(k)
  PROVE  LET e == Execute(c, s) IN Stage(e, n) /\ k \notin e.keys
<1> DEFINE e == Execute(c, s)
<1>1. s.do = "drop key" /\ s.key = k
  BY DEF DropKey
<1>2. Possible(c, s) /\ NoTable(s)
  BY <1>1 DEF Possible, NoTable
<1>3. n \in 0 .. 12 /\ Stage(c, n) /\ Sound(s) /\ Possible(c, s) /\ NoTable(s)
  BY <1>2
<1>4. Stage(e, n)
  BY ONLY <1>3, OtherStage
<1>5. e.keys = c.keys \ {s.key}
  <2>1. Sane(c) /\ c.ok /\ Shape(c)
    BY DEF Stage, Sane
  <2>2. e = Effect(c, s)
    BY <1>2, <2>1, Succeeds
  <2> QED
    BY <1>1, <2>1, <2>2, DropKeyEffect
<1> HIDE DEF e
<1> QED
  BY <1>1, <1>4, <1>5 DEF e

(* so can the last table, when no late key refers to it,                   *)
LEMMA BackTable ==
  ASSUME NEW n \in (1 .. 12) \ {6, 12}, NEW c, Stage(c, n), NEW s, s = DropTable(Built[n]),
         Sound(s)
  PROVE  LET e == Execute(c, s) IN Stage(e, n - 1) /\ \A k : k \notin c.keys => k \notin e.keys
<1>1. n \in 1 .. 12 /\ n # 6 /\ n # 12
  OBVIOUS
<1>2. LET e == Execute(c, s) IN Stage(e, n - 1) /\ e.keys \subseteq c.keys
  BY <1>1, DropStage
<1> QED
  BY <1>2

(* or when that key was dropped before.                                    *)
LEMMA BackLate ==
  ASSUME NEW n \in {6, 12}, NEW c, Stage(c, n), NEW s, s = DropTable(Built[n]),
         Sound(s), n = 6 => ScopeKey \notin c.keys, n = 12 => CardKey \notin c.keys
  PROVE  Stage(Execute(c, s), n - 1)
<1>1. n \in 1 .. 12
  OBVIOUS
<1> QED
  BY <1>1, DropStage

(* The downgrade of 0001 succeeds: it drops its tables in reverse order,   *)
LEMMA Back1 ==
  ASSUME NEW d, Stage(d, 5)
  PROVE  Stage(ExecuteAll(d, Down1), 0)
<1>0. Sane(d) /\ SoundScript(Down1) /\ Len(Down1) = 5
  <2>1. 1 \in 1 .. LastRevision /\ Downs[1] = Down1
    BY RevisionsAre
  <2> QED
    BY <2>1, AllParts, Script1 DEF Stage
<1>1. PICK h : Ran(h, d, Down1)
  BY <1>0, RanOnce
<1>2. /\ h[0] = d
      /\ \A n \in 1 .. 5 : h[n] = Execute(h[n - 1], Down1[n]) /\ Sound(Down1[n])
      /\ ExecuteAll(d, Down1) = h[5]
  BY <1>0, <1>1 DEF Ran
<1>3. Stage(h[1], 4)
  <2>0. h[1] = Execute(h[0], Down1[1]) /\ Sound(Down1[1])
    BY <1>2
  <2>1. Down1[1] = DropTable(Built[5])
    BY Script1, Places
  <2>2. 5 - 1 = 4 /\ 5 \in (1 .. 12) \ {6, 12}
    OBVIOUS
  <2> QED
    BY <1>2, <1>2, <2>0, <2>1, <2>2, BackTable
<1>4. Stage(h[2], 3)
  <2>0. h[2] = Execute(h[1], Down1[2]) /\ Sound(Down1[2])
    BY <1>2
  <2>1. Down1[2] = DropTable(Built[4])
    BY Script1, Places
  <2>2. 4 - 1 = 3 /\ 4 \in (1 .. 12) \ {6, 12}
    OBVIOUS
  <2> QED
    BY <1>2, <1>3, <2>0, <2>1, <2>2, BackTable
<1>5. Stage(h[3], 2)
  <2>0. h[3] = Execute(h[2], Down1[3]) /\ Sound(Down1[3])
    BY <1>2
  <2>1. Down1[3] = DropTable(Built[3])
    BY Script1, Places
  <2>2. 3 - 1 = 2 /\ 3 \in (1 .. 12) \ {6, 12}
    OBVIOUS
  <2> QED
    BY <1>2, <1>4, <2>0, <2>1, <2>2, BackTable
<1>6. Stage(h[4], 1)
  <2>0. h[4] = Execute(h[3], Down1[4]) /\ Sound(Down1[4])
    BY <1>2
  <2>1. Down1[4] = DropTable(Built[2])
    BY Script1, Places
  <2>2. 2 - 1 = 1 /\ 2 \in (1 .. 12) \ {6, 12}
    OBVIOUS
  <2> QED
    BY <1>2, <1>5, <2>0, <2>1, <2>2, BackTable
<1>7. Stage(h[5], 0)
  <2>0. h[5] = Execute(h[4], Down1[5]) /\ Sound(Down1[5])
    BY <1>2
  <2>1. Down1[5] = DropTable(Built[1])
    BY Script1, Places
  <2>2. 1 - 1 = 0 /\ 1 \in (1 .. 12) \ {6, 12}
    OBVIOUS
  <2> QED
    BY <1>2, <1>6, <2>0, <2>1, <2>2, BackTable
<1> QED
  BY <1>2, <1>7

(* that of 0002 drops no table,                                            *)
LEMMA Back2 ==
  ASSUME NEW d, Stage(d, 5)
  PROVE  Stage(ExecuteAll(d, Down2), 5)
<1>0. Sane(d) /\ SoundScript(Down2) /\ Len(Down2) = 3
  <2>1. 2 \in 1 .. LastRevision /\ Downs[2] = Down2
    BY RevisionsAre
  <2> QED
    BY <2>1, AllParts, Script2 DEF Stage
<1>1. PICK h : Ran(h, d, Down2)
  BY <1>0, RanOnce
<1>2. /\ h[0] = d
      /\ \A n \in 1 .. 3 : h[n] = Execute(h[n - 1], Down2[n]) /\ Sound(Down2[n])
      /\ ExecuteAll(d, Down2) = h[3]
  BY <1>0, <1>1 DEF Ran
<1>3. Stage(h[1], 5) /\ h[1].keys = d.keys
  <2>0. h[1] = Execute(h[0], Down2[1]) /\ Sound(Down2[1])
    BY <1>2
  <2>1. Mild(Down2[1], 5)
    BY Script2, MildAre
  <2> QED
    BY <1>2, <2>0, <2>1, BackPlain
<1>4. Stage(h[2], 5) /\ h[2].keys = d.keys
  <2>0. h[2] = Execute(h[1], Down2[2]) /\ Sound(Down2[2])
    BY <1>2
  <2>1. Mild(Down2[2], 5)
    BY Script2, MildAre
  <2> QED
    BY <1>2, <1>3, <2>0, <2>1, BackPlain
<1>5. Stage(h[3], 5) /\ h[3].keys = d.keys
  <2>0. h[3] = Execute(h[2], Down2[3]) /\ Sound(Down2[3])
    BY <1>2
  <2>1. Mild(Down2[3], 5)
    <3>1. Spine \subseteq First(5)
      BY NewPlaces
    <3> QED
      BY <3>1, Script2, MildAre
  <2> QED
    BY <1>2, <1>4, <2>0, <2>1, BackPlain
<1> QED
  BY <1>2, <1>5

(* that of 0003 drops the late key before the locations,                   *)
LEMMA Back3 ==
  ASSUME NEW d, Stage(d, 7), ScopeKey \in d.keys
  PROVE  Stage(ExecuteAll(d, Down3), 5)
<1>0. Sane(d) /\ SoundScript(Down3) /\ Len(Down3) = 5
  <2>1. 3 \in 1 .. LastRevision /\ Downs[3] = Down3
    BY RevisionsAre
  <2> QED
    BY <2>1, AllParts, Script3 DEF Stage
<1>1. PICK h : Ran(h, d, Down3)
  BY <1>0, RanOnce
<1>2. /\ h[0] = d
      /\ \A n \in 1 .. 5 : h[n] = Execute(h[n - 1], Down3[n]) /\ Sound(Down3[n])
      /\ ExecuteAll(d, Down3) = h[5]
  BY <1>0, <1>1 DEF Ran
<1>3. Stage(h[1], 7) /\ h[1].keys = d.keys
  <2>0. h[1] = Execute(h[0], Down3[1]) /\ Sound(Down3[1])
    BY <1>2
  <2>1. Mild(Down3[1], 7)
    BY Script3, MildAre
  <2> QED
    BY <1>2, <2>0, <2>1, BackPlain
<1>4. Stage(h[2], 7) /\ h[2].keys = d.keys
  <2>0. h[2] = Execute(h[1], Down3[2]) /\ Sound(Down3[2])
    BY <1>2
  <2>1. Mild(Down3[2], 7)
    BY Script3, MildAre
  <2> QED
    BY <1>2, <1>3, <2>0, <2>1, BackPlain
<1>5. Stage(h[3], 7) /\ ScopeKey \notin h[3].keys
  <2>0. h[3] = Execute(h[2], Down3[3]) /\ Sound(Down3[3])
    BY <1>2
  <2>1. Down3[3] = DropKey(ScopeKey)
    BY Script3
  <2>2. Stage(h[3], 7) /\ ScopeKey \notin h[3].keys
    BY <1>4, <2>0, <2>1, BackKey
  <2> QED
    BY <2>2
<1>6. Stage(h[4], 6) /\ ScopeKey \notin h[4].keys
  <2>0. h[4] = Execute(h[3], Down3[4]) /\ Sound(Down3[4])
    BY <1>2
  <2>1. Down3[4] = DropTable(Built[7])
    BY Script3, Places
  <2>2. 7 - 1 = 6 /\ 7 \in (1 .. 12) \ {6, 12}
    OBVIOUS
  <2> QED
    BY <1>2, <1>5, <2>0, <2>1, <2>2, BackTable
<1>7. Stage(h[5], 5)
  <2>0. h[5] = Execute(h[4], Down3[5]) /\ Sound(Down3[5])
    BY <1>2
  <2>1. Down3[5] = DropTable(Built[6])
    BY Script3, Places
  <2>2. 6 - 1 = 5 /\ 6 \in {6, 12}
    OBVIOUS
  <2> QED
    BY <1>2, <1>6, <2>0, <2>1, <2>2, BackLate
<1> QED
  BY <1>2, <1>7

(* that of 0004 drops its tables in reverse order,                         *)
LEMMA Back4 ==
  ASSUME NEW d, Stage(d, 10)
  PROVE  Stage(ExecuteAll(d, Down4), 7)
<1>0. Sane(d) /\ SoundScript(Down4) /\ Len(Down4) = 6
  <2>1. 4 \in 1 .. LastRevision /\ Downs[4] = Down4
    BY RevisionsAre
  <2> QED
    BY <2>1, AllParts, Script4 DEF Stage
<1>1. PICK h : Ran(h, d, Down4)
  BY <1>0, RanOnce
<1>2. /\ h[0] = d
      /\ \A n \in 1 .. 6 : h[n] = Execute(h[n - 1], Down4[n]) /\ Sound(Down4[n])
      /\ ExecuteAll(d, Down4) = h[6]
  BY <1>0, <1>1 DEF Ran
<1>3. Stage(h[1], 10) /\ h[1].keys = d.keys
  <2>0. h[1] = Execute(h[0], Down4[1]) /\ Sound(Down4[1])
    BY <1>2
  <2>1. Mild(Down4[1], 10)
    BY Script4, MildAre
  <2> QED
    BY <1>2, <2>0, <2>1, BackPlain
<1>4. Stage(h[2], 10) /\ h[2].keys = d.keys
  <2>0. h[2] = Execute(h[1], Down4[2]) /\ Sound(Down4[2])
    BY <1>2
  <2>1. Mild(Down4[2], 10)
    BY Script4, MildAre
  <2> QED
    BY <1>2, <1>3, <2>0, <2>1, BackPlain
<1>5. Stage(h[3], 10) /\ h[3].keys = d.keys
  <2>0. h[3] = Execute(h[2], Down4[3]) /\ Sound(Down4[3])
    BY <1>2
  <2>1. Mild(Down4[3], 10)
    BY Script4, MildAre
  <2> QED
    BY <1>2, <1>4, <2>0, <2>1, BackPlain
<1>6. Stage(h[4], 9)
  <2>0. h[4] = Execute(h[3], Down4[4]) /\ Sound(Down4[4])
    BY <1>2
  <2>1. Down4[4] = DropTable(Built[10])
    BY Script4, Places
  <2>2. 10 - 1 = 9 /\ 10 \in (1 .. 12) \ {6, 12}
    OBVIOUS
  <2> QED
    BY <1>2, <1>5, <2>0, <2>1, <2>2, BackTable
<1>7. Stage(h[5], 8)
  <2>0. h[5] = Execute(h[4], Down4[5]) /\ Sound(Down4[5])
    BY <1>2
  <2>1. Down4[5] = DropTable(Built[9])
    BY Script4, Places
  <2>2. 9 - 1 = 8 /\ 9 \in (1 .. 12) \ {6, 12}
    OBVIOUS
  <2> QED
    BY <1>2, <1>6, <2>0, <2>1, <2>2, BackTable
<1>8. Stage(h[6], 7)
  <2>0. h[6] = Execute(h[5], Down4[6]) /\ Sound(Down4[6])
    BY <1>2
  <2>1. Down4[6] = DropTable(Built[8])
    BY Script4, Places
  <2>2. 8 - 1 = 7 /\ 8 \in (1 .. 12) \ {6, 12}
    OBVIOUS
  <2> QED
    BY <1>2, <1>7, <2>0, <2>1, <2>2, BackTable
<1> QED
  BY <1>2, <1>8

(* and that of 0005 drops the late key before the approvals.               *)
LEMMA Back5 ==
  ASSUME NEW d, Stage(d, 12), CardKey \in d.keys
  PROVE  Stage(ExecuteAll(d, Down5), 10)
<1>0. Sane(d) /\ SoundScript(Down5) /\ Len(Down5) = 5
  <2>1. 5 \in 1 .. LastRevision /\ Downs[5] = Down5
    BY RevisionsAre
  <2> QED
    BY <2>1, AllParts, Script5 DEF Stage
<1>1. PICK h : Ran(h, d, Down5)
  BY <1>0, RanOnce
<1>2. /\ h[0] = d
      /\ \A n \in 1 .. 5 : h[n] = Execute(h[n - 1], Down5[n]) /\ Sound(Down5[n])
      /\ ExecuteAll(d, Down5) = h[5]
  BY <1>0, <1>1 DEF Ran
<1>3. Stage(h[1], 12) /\ h[1].keys = d.keys
  <2>0. h[1] = Execute(h[0], Down5[1]) /\ Sound(Down5[1])
    BY <1>2
  <2>1. Mild(Down5[1], 12)
    BY Script5, MildAre
  <2> QED
    BY <1>2, <2>0, <2>1, BackPlain
<1>4. Stage(h[2], 12) /\ h[2].keys = d.keys
  <2>0. h[2] = Execute(h[1], Down5[2]) /\ Sound(Down5[2])
    BY <1>2
  <2>1. Mild(Down5[2], 12)
    BY Script5, MildAre
  <2> QED
    BY <1>2, <1>3, <2>0, <2>1, BackPlain
<1>5. Stage(h[3], 12) /\ CardKey \notin h[3].keys
  <2>0. h[3] = Execute(h[2], Down5[3]) /\ Sound(Down5[3])
    BY <1>2
  <2>1. Down5[3] = DropKey(CardKey)
    BY Script5
  <2>2. Stage(h[3], 12) /\ CardKey \notin h[3].keys
    BY <1>4, <2>0, <2>1, BackKey
  <2> QED
    BY <2>2
<1>6. Stage(h[4], 11)
  <2>0. h[4] = Execute(h[3], Down5[4]) /\ Sound(Down5[4])
    BY <1>2
  <2>1. Down5[4] = DropTable(Built[12])
    BY Script5, Places
  <2>2. 12 - 1 = 11 /\ 12 \in {6, 12}
    OBVIOUS
  <2> QED
    BY <1>2, <1>5, <2>0, <2>1, <2>2, BackLate
<1>7. Stage(h[5], 10)
  <2>0. h[5] = Execute(h[4], Down5[5]) /\ Sound(Down5[5])
    BY <1>2
  <2>1. Down5[5] = DropTable(Built[11])
    BY Script5, Places
  <2>2. 11 - 1 = 10 /\ 11 \in (1 .. 12) \ {6, 12}
    OBVIOUS
  <2> QED
    BY <1>2, <1>6, <2>0, <2>1, <2>2, BackTable
<1> QED
  BY <1>2, <1>7

(* A database at version v has the first tables, and the late keys.        *)
Size(v) ==
  CASE v = 0 -> 0 [] v = 1 -> 5 [] v = 2 -> 5 [] v = 3 -> 7 [] v = 4 -> 10 [] OTHER -> 12
Full(v, d) ==
  /\ Stage(d, Size(v))
  /\ v \in {3, 4, 5} => ScopeKey \in d.keys
  /\ v = 5 => CardKey \in d.keys

(* The numbers of tables by version,                                       *)
LEMMA Sizes ==
  /\ Size(0) = 0 /\ Size(1) = 5 /\ Size(2) = 5 /\ Size(3) = 7 /\ Size(4) = 10 /\ Size(5) = 12
  BY DEF Size

(* and what a database has at each of them.                                *)
LEMMA FullByStage ==
  ASSUME NEW d
  PROVE  /\ Full(0, d) <=> Stage(d, 0)
         /\ Full(1, d) <=> Stage(d, 5)
         /\ Full(2, d) <=> Stage(d, 5)
         /\ Full(3, d) <=> Stage(d, 7) /\ ScopeKey \in d.keys
         /\ Full(4, d) <=> Stage(d, 10) /\ ScopeKey \in d.keys
         /\ Full(5, d) <=> Stage(d, 12) /\ ScopeKey \in d.keys /\ CardKey \in d.keys
  BY Sizes DEF Full

(* An empty database is where the first upgrade starts.                    *)
LEMMA EmptyStage == Stage(Empty, 0)
<1>1. First(0) = {}
  BY DEF First
<1> QED
  BY <1>1, EmptyIs DEF Stage

(* At every revision the tables are there that its keys, policies,         *)
(* triggers and grants name, and nothing it creates is.                    *)
LEMMA FreshFull == \A v \in 0 .. LastRevision : Full(v, Fresh[v])
<1>0. LastRevision = 5
  BY RevisionsAre
<1>1. /\ Fresh[0] = Empty /\ Fresh[1] = ExecuteAll(Fresh[0], Up1)
      /\ Fresh[2] = ExecuteAll(Fresh[1], Up2) /\ Fresh[3] = ExecuteAll(Fresh[2], Up3)
      /\ Fresh[4] = ExecuteAll(Fresh[3], Up4) /\ Fresh[5] = ExecuteAll(Fresh[4], Up5)
  <2>1. \A v \in 1 .. 5 : Fresh[v] = ExecuteAll(Fresh[v - 1], Ups[v])
    BY <1>0, FreshIs
  <2>2. /\ Fresh[1] = ExecuteAll(Fresh[0], Ups[1]) /\ Fresh[2] = ExecuteAll(Fresh[1], Ups[2])
        /\ Fresh[3] = ExecuteAll(Fresh[2], Ups[3]) /\ Fresh[4] = ExecuteAll(Fresh[3], Ups[4])
        /\ Fresh[5] = ExecuteAll(Fresh[4], Ups[5])
    BY <2>1
  <2> QED
    BY <2>2, FreshIs, RevisionsAre
<1>2. Full(0, Fresh[0])
  BY <1>1, EmptyStage, FullByStage
<1>3. Full(1, Fresh[1])
  <2>1. Stage(Fresh[1], 5)
    BY <1>1, EmptyStage, Goes1
  <2> QED
    BY <2>1, FullByStage
<1>4. Full(2, Fresh[2])
  <2>1. Stage(Fresh[1], 5)
    BY <1>3, FullByStage
  <2>2. Fresh[1].ok
    BY <2>1 DEF Stage
  <2>3. Bare(Fresh[1], Spine)
    BY <2>2, Fresh1 DEF Bare, NoPolicies, NoTriggers
  <2>4. Along(Fresh[1], Fresh[2], 5)
    BY <1>1, <2>1, <2>3, Goes2
  <2>5. Stage(Fresh[2], 5)
    BY <2>4 DEF Along
  <2> QED
    BY <2>5, FullByStage
<1>5. \A v \in 0 .. 5 : Fresh[v].rows = {}
  BY <1>0, FreshSane
<1>6. Full(3, Fresh[3])
  <2>1. Stage(Fresh[2], 5)
    BY <1>4, FullByStage
  <2>2. \A row \in Fresh[2].rows : Resolves(row, ScopeKey, Fresh[2].rows)
    BY <1>5
  <2>3. Along(Fresh[2], Fresh[3], 7) /\ ScopeKey \in Fresh[3].keys
    BY <1>1, <2>1, <2>2, Goes3
  <2>4. Stage(Fresh[3], 7)
    BY <2>3 DEF Along
  <2> QED
    BY <2>3, <2>4, FullByStage
<1>7. Full(4, Fresh[4])
  <2>1. Stage(Fresh[3], 7) /\ ScopeKey \in Fresh[3].keys
    BY <1>6, FullByStage
  <2>2. Along(Fresh[3], Fresh[4], 10)
    BY <1>1, <2>1, Goes4
  <2>3. Stage(Fresh[4], 10) /\ Fresh[3].keys \subseteq Fresh[4].keys
    BY <2>2 DEF Along
  <2> QED
    BY <2>1, <2>3, FullByStage
<1>8. Full(5, Fresh[5])
  <2>1. Stage(Fresh[4], 10) /\ ScopeKey \in Fresh[4].keys
    BY <1>7, FullByStage
  <2>2. \A row \in Fresh[4].rows : Resolves(row, CardKey, Fresh[4].rows)
    BY <1>5
  <2>3. Along(Fresh[4], Fresh[5], 12) /\ CardKey \in Fresh[5].keys
    BY <1>1, <2>1, <2>2, Goes5
  <2>4. Stage(Fresh[5], 12) /\ Fresh[4].keys \subseteq Fresh[5].keys
    BY <2>3 DEF Along
  <2> QED
    BY <2>1, <2>3, <2>4, FullByStage
<1> QED
  BY <1>0, <1>2, <1>3, <1>4, <1>6, <1>7, <1>8

(* alembic upgrade head succeeds on an empty database, to whatever         *)
(* revision.                                                               *)
THEOREM FirstUpgradeSucceeds == \A v \in 0 .. LastRevision : Fresh[v].ok
  BY FreshFull DEF Full, Stage

(* A database that is like a fresh one has what that has.                  *)
LEMMA LikeFull ==
  ASSUME NEW v \in 0 .. LastRevision, NEW d, Sane(d), d.ok, Like(v, d)
  PROVE  Full(v, d)
<1>1. Full(v, Fresh[v])
  BY FreshFull
<1>2. d.tables = Fresh[v].tables /\ d.keys = Fresh[v].keys
  BY LikeFresh
<1> QED
  BY <1>1, <1>2 DEF Full, Stage

(* One revision up succeeds where every row resolves the keys of the       *)
(* revision the command goes to.                                           *)
LEMMA UpGoes ==
  ASSUME NEW w \in 0 .. LastRevision, NEW v \in 1 .. LastRevision, v <= w,
         NEW d, Sane(d), d.ok, Like(v - 1, d),
         \A row \in d.rows, k \in Fresh[w].keys : Resolves(row, k, d.rows)
  PROVE  ExecuteAll(d, Ups[v]).ok
<1>0. LastRevision = 5 /\ v - 1 \in 0 .. LastRevision /\ v \in {1, 2, 3, 4, 5}
  BY RevisionsAre
<1>1. Full(v - 1, d)
  BY <1>0, LikeFull
<1>2. Full(w, Fresh[w])
  BY FreshFull
<1>3. CASE v = 1
  <2>1. Full(0, d)
    BY <1>1, <1>3
  <2>2. Stage(ExecuteAll(d, Up1), 5)
    BY <2>1, FullByStage, Goes1
  <2> QED
    BY <1>3, <2>2, RevisionsAre DEF Stage
<1>4. CASE v = 2
  <2>1. Full(1, d) /\ Like(1, d) /\ 1 \in 0 .. LastRevision
    BY <1>0, <1>1, <1>4
  <2>2. Fresh[1].ok /\ d.policies = Fresh[1].policies /\ d.triggers = Fresh[1].triggers
    BY <2>1, LikeFresh
  <2>3. Bare(d, Spine)
    BY <2>2, Fresh1 DEF Bare, NoPolicies, NoTriggers
  <2>4. Along(d, ExecuteAll(d, Up2), 5)
    BY <2>1, <2>3, FullByStage, Goes2
  <2> QED
    BY <1>4, <2>4, RevisionsAre DEF Along, Stage
<1>5. CASE v = 3
  <2>1. Full(2, d)
    BY <1>1, <1>5
  <2>2. ScopeKey \in Fresh[w].keys
    BY <1>0, <1>2, <1>5 DEF Full
  <2>3. \A row \in d.rows : Resolves(row, ScopeKey, d.rows)
    BY <2>2
  <2>4. Along(d, ExecuteAll(d, Up3), 7)
    BY <2>1, <2>3, FullByStage, Goes3
  <2> QED
    BY <1>5, <2>4, RevisionsAre DEF Along, Stage
<1>6. CASE v = 4
  <2>1. Full(3, d)
    BY <1>1, <1>6
  <2>2. Along(d, ExecuteAll(d, Up4), 10)
    BY <2>1, FullByStage, Goes4
  <2> QED
    BY <1>6, <2>2, RevisionsAre DEF Along, Stage
<1>7. CASE v = 5
  <2>1. Full(4, d)
    BY <1>1, <1>7
  <2>2. CardKey \in Fresh[w].keys
    BY <1>0, <1>2, <1>7 DEF Full
  <2>3. \A row \in d.rows : Resolves(row, CardKey, d.rows)
    BY <2>2
  <2>4. Along(d, ExecuteAll(d, Up5), 12)
    BY <2>1, <2>3, FullByStage, Goes5
  <2> QED
    BY <1>7, <2>4, RevisionsAre DEF Along, Stage
<1> QED
  BY <1>0, <1>3, <1>4, <1>5, <1>6, <1>7

(* One revision down always succeeds.                                      *)
LEMMA DownGoes ==
  ASSUME NEW v \in 1 .. LastRevision, NEW d, Sane(d), d.ok, Like(v, d)
  PROVE  ExecuteAll(d, Downs[v]).ok
<1>0. v \in {1, 2, 3, 4, 5} /\ v \in 0 .. LastRevision
  BY RevisionsAre
<1>1. Full(v, d)
  BY <1>0, LikeFull
<1>2. CASE v = 1
  <2>1. Stage(ExecuteAll(d, Down1), 0)
    BY <1>1, <1>2, FullByStage, Back1
  <2> QED
    BY <1>2, <2>1, RevisionsAre DEF Stage
<1>3. CASE v = 2
  <2>1. Stage(ExecuteAll(d, Down2), 5)
    BY <1>1, <1>3, FullByStage, Back2
  <2> QED
    BY <1>3, <2>1, RevisionsAre DEF Stage
<1>4. CASE v = 3
  <2>1. Stage(ExecuteAll(d, Down3), 5)
    BY <1>1, <1>4, FullByStage, Back3
  <2> QED
    BY <1>4, <2>1, RevisionsAre DEF Stage
<1>5. CASE v = 4
  <2>1. Stage(ExecuteAll(d, Down4), 7)
    BY <1>1, <1>5, FullByStage, Back4
  <2> QED
    BY <1>5, <2>1, RevisionsAre DEF Stage
<1>6. CASE v = 5
  <2>1. Stage(ExecuteAll(d, Down5), 10)
    BY <1>1, <1>6, FullByStage, Back5
  <2> QED
    BY <1>6, <2>1, RevisionsAre DEF Stage
<1> QED
  BY <1>0, <1>2, <1>3, <1>4, <1>5, <1>6

(* What a command passes, revision by revision.                            *)
Passes(h, d, steps) ==
  /\ h[0] = d
  /\ \A n \in 1 .. Len(steps) : h[n] = ExecuteAll(h[n - 1], steps[n])
  /\ ExecuteSteps(d, steps) = h[Len(steps)]

(* There is such a list, whether the command succeeds or not.              *)
LEMMA PassesOnce ==
  ASSUME NEW d, NEW steps, Len(steps) \in Nat
  PROVE  \E h : Passes(h, d, steps)
  BY StepsHistory DEF Passes

(* A whole upgrade succeeds unless a row is left without what it refers    *)
(* to; it changes no row on its way.                                       *)
LEMMA UpCommandGoes ==
  ASSUME NEW v \in 0 .. LastRevision, NEW w \in 0 .. LastRevision, v < w,
         NEW d, Sane(d), d.ok, Like(v, d),
         \A row \in d.rows, k \in Fresh[w].keys : Resolves(row, k, d.rows)
  PROVE  ExecuteSteps(d, Steps(v, w)).ok
<1> DEFINE steps == Steps(v, w)
           L == w - v
<1>0. LastRevision = 5
  BY RevisionsAre
<1>1. /\ L \in Nat /\ Len(steps) = L /\ v + L = w
      /\ \A n \in 1 .. L : steps[n] = Ups[v + n]
  <2>1. Len(steps) = L /\ \A n \in 1 .. L : steps[n] = Ups[v + n]
    BY StepsAre
  <2>2. L \in Nat /\ v + L = w
    BY <1>0
  <2> QED
    BY <2>1, <2>2
<1> HIDE DEF steps
<1>2. PICK h : Passes(h, d, steps)
  <2>1. Len(steps) \in Nat
    BY <1>1
  <2> QED
    BY <2>1, PassesOnce
<1>3. \A n \in 1 .. L : /\ v + n \in 1 .. LastRevision /\ (v + n) - 1 = v + (n - 1)
                        /\ v + n <= w
  BY <1>0
<1> HIDE DEF L
<1> DEFINE S == {n \in 0 .. L :
                   Sane(h[n]) /\ h[n].ok /\ Like(v + n, h[n]) /\ h[n].rows = d.rows}
<1>4. 0 \in S
  <2>1. v + 0 = v
    BY <1>0
  <2> QED
    BY <1>1, <1>2, <2>1 DEF Passes
<1>5. ASSUME NEW n \in 0 + 1 .. L, n - 1 \in S PROVE n \in S
  <2>1. n \in 1 .. L /\ n \in 0 .. L
    BY <1>1
  <2>2. /\ v + n \in 1 .. LastRevision /\ (v + n) - 1 = v + (n - 1) /\ v + n <= w
        /\ h[n] = ExecuteAll(h[n - 1], Ups[v + n])
    BY <1>1, <1>2, <1>3, <2>1 DEF Passes
  <2>3. /\ Sane(h[n - 1]) /\ h[n - 1].ok /\ Like((v + n) - 1, h[n - 1])
        /\ h[n - 1].rows = d.rows
    BY <1>5, <2>2
  <2>4. h[n].ok
    BY <2>2, <2>3, UpGoes
  <2>5. Sane(h[n]) /\ Like(v + n, h[n]) /\ h[n].rows = d.rows
    BY <2>2, <2>3, <2>4, UpRevision
  <2> QED
    BY <2>1, <2>4, <2>5
<1> HIDE DEF S
<1>6. 0 .. L \subseteq S
  BY <1>1, <1>4, <1>5, CountUp
<1>7. L \in S
  BY <1>1, <1>6
<1> QED
  BY <1>1, <1>2, <1>7 DEF S, Passes, steps

(* A whole downgrade always succeeds.                                      *)
LEMMA DownCommandGoes ==
  ASSUME NEW v \in 0 .. LastRevision, NEW w \in 0 .. LastRevision, w <= v,
         NEW d, Sane(d), d.ok, Like(v, d)
  PROVE  ExecuteSteps(d, Steps(v, w)).ok
<1> DEFINE steps == Steps(v, w)
           L == v - w
<1>0. LastRevision = 5
  BY RevisionsAre
<1>1. /\ L \in Nat /\ Len(steps) = L /\ v - L = w
      /\ \A n \in 1 .. L : steps[n] = Downs[v - n + 1]
  <2>1. v >= w
    BY <1>0
  <2>2. Len(steps) = L /\ \A n \in 1 .. L : steps[n] = Downs[v - n + 1]
    BY <2>1, StepsAre
  <2>3. L \in Nat /\ v - L = w
    BY <1>0
  <2> QED
    BY <2>2, <2>3
<1> HIDE DEF steps
<1>2. PICK h : Passes(h, d, steps)
  <2>1. Len(steps) \in Nat
    BY <1>1
  <2> QED
    BY <2>1, PassesOnce
<1>3. \A n \in 1 .. L : /\ v - n + 1 \in 1 .. LastRevision
                        /\ (v - n + 1) - 1 = v - n /\ v - n + 1 = v - (n - 1)
  BY <1>0
<1> HIDE DEF L
<1> DEFINE S == {n \in 0 .. L : Sane(h[n]) /\ h[n].ok /\ Like(v - n, h[n])}
<1>4. 0 \in S
  <2>1. v - 0 = v
    BY <1>0
  <2> QED
    BY <1>1, <1>2, <2>1 DEF Passes
<1>5. ASSUME NEW n \in 0 + 1 .. L, n - 1 \in S PROVE n \in S
  <2>1. n \in 1 .. L /\ n \in 0 .. L
    BY <1>1
  <2>2. /\ v - n + 1 \in 1 .. LastRevision
        /\ (v - n + 1) - 1 = v - n /\ v - n + 1 = v - (n - 1)
        /\ h[n] = ExecuteAll(h[n - 1], Downs[v - n + 1])
    BY <1>1, <1>2, <1>3, <2>1 DEF Passes
  <2>3. Sane(h[n - 1]) /\ h[n - 1].ok /\ Like(v - n + 1, h[n - 1])
    BY <1>5, <2>2
  <2>4. h[n].ok
    BY <2>2, <2>3, DownGoes
  <2>5. Sane(h[n]) /\ Like((v - n + 1) - 1, h[n])
    BY <2>2, <2>3, <2>4, DownRevision
  <2> QED
    BY <2>1, <2>2, <2>4, <2>5
<1> HIDE DEF S
<1>6. 0 .. L \subseteq S
  BY <1>1, <1>4, <1>5, CountUp
<1>7. L \in S
  BY <1>1, <1>6
<1> QED
  BY <1>1, <1>2, <1>7 DEF S, Passes, steps

(* A command ends as failed only by MigrateFails.                          *)
LEMMA FailsBy ==
  ASSUME SchemaInv, Next, NEW m \in Migrators, Fails(m)
  PROVE  MigrateFails(m)
<1>0. /\ command[m] # None /\ command'[m] = None /\ outcome'[m] = "failed"
      /\ DOMAIN command = Migrators /\ DOMAIN outcome = Migrators
      /\ command = [x \in Migrators |-> command[x]]
      /\ outcome = [x \in Migrators |-> outcome[x]]
  BY DEF Fails, SchemaInv, TypeOK
<1>1. ASSUME NEW x \in Migrators, Read(x) PROVE FALSE
  <2>1. PICK goal : command' = [command EXCEPT ![x] = [base |-> version, goal |-> goal]]
    BY <1>1 DEF Read
  <2>2. command[x] = None
    BY <1>1 DEF Read
  <2> QED
    BY <1>0, <2>1, <2>2
<1>2. ASSUME NEW x \in Migrators, Migrate(x) PROVE FALSE
  <2>1. /\ command' = [command EXCEPT ![x] = None]
        /\ outcome' = [outcome EXCEPT ![x] = "done"]
    BY <1>2 DEF Migrate, Ends
  <2>2. x = m
    BY <1>0, <2>1
  <2> QED
    BY <1>0, <2>1, <2>2
<1>3. ASSUME NEW x \in Migrators, MigrateFails(x) PROVE MigrateFails(m)
  <2>1. command' = [command EXCEPT ![x] = None]
    BY <1>3 DEF MigrateFails, Ends
  <2>2. x = m
    BY <1>0, <2>1
  <2> QED
    BY <1>3, <2>2
<1>4. ASSUME UNCHANGED command PROVE FALSE
  BY <1>0, <1>4
<1>5. ASSUME Seed PROVE UNCHANGED command
  BY <1>5 DEF Seed, Stores
<1>6. ASSUME NEW role, NEW s, Statement(role, s) PROVE UNCHANGED command
  BY <1>6, RowsNext
<1>7. ASSUME NEW role, NEW table \in db.tables, Truncate(role, table) PROVE UNCHANGED command
  BY <1>7, TruncateNext
<1> QED
  BY <1>1, <1>2, <1>3, <1>4, <1>5, <1>6, <1>7 DEF Next

(* A command that no other command overtakes fails only if it is an        *)
(* upgrade and rows refer to rows an earlier downgrade dropped, or that    *)
(* were never there (membership_location.location_id has its key from 0003 *)
(* on only): no statement of the ten scripts meets an object of another    *)
(* history, and a downgrade fails never.                                   *)
THEOREM FailuresExplained == Spec => FailuresAreExplained
<1>1. ASSUME SchemaInv, [Next]_vars
      PROVE  \A m \in Migrators : Fails(m) =>
               \/ version # command[m].base
               \/ command[m].goal > command[m].base /\ Orphans(command[m].goal) # {}
  <2>1. SUFFICES ASSUME NEW m \in Migrators, Fails(m), version = command[m].base,
                        command[m].goal > command[m].base => Orphans(command[m].goal) = {}
                 PROVE  FALSE
    OBVIOUS
  <2>2. Next
    <3>1. vars' = vars => command' = command
      BY DEF vars
    <3> QED
      BY <1>1, <2>1, <3>1 DEF Fails
  <2>3. MigrateFails(m)
    BY <1>1, <2>1, <2>2, FailsBy
  <2> DEFINE v == command[m].base
             w == command[m].goal
  <2>4. command[m] \in [base : Versions, goal : Versions]
    BY <1>1, <2>3 DEF SchemaInv, TypeOK, MigrateFails
  <2>5. /\ v \in 0 .. LastRevision /\ w \in 0 .. LastRevision /\ v = version
        /\ Sane(db) /\ db.ok /\ Like(v, db)
    BY <1>1, <2>1, <2>4 DEF SchemaInv, TypeOK, Versions
  <2>6. ~ExecuteSteps(db, Steps(v, w)).ok
    BY <2>1, <2>3 DEF MigrateFails, Migrated
  <2>7. w > v => \A row \in db.rows, k \in Fresh[w].keys : Resolves(row, k, db.rows)
    BY <2>1 DEF Orphans
  <2> HIDE DEF v, w
  <2>8. (v < w /\ w > v) \/ w <= v
    BY <2>5, RevisionsAre
  <2> QED
    BY <2>5, <2>6, <2>7, <2>8, UpCommandGoes, DownCommandGoes
<1> QED
  BY <1>1, SchemaInvariant, PTL DEF Spec, FailuresAreExplained

=============================================================================
