----------------------------- MODULE ServiceOrder -----------------------------
(***************************************************************************)
(* The services an install creates (setup/src/provision.mjs): their        *)
(* variables, the secrets made for them, and their order.                  *)
(*                                                                         *)
(* A service is its place in the template, 1 being the panel; a variable's *)
(* value a secret to be made, or a reference to the variable of the same   *)
(* name of a service; a literal refers to nothing and keeps nothing either.*)
(***************************************************************************)
EXTENDS InstallPlan, Relation

\* Every secret a template leaves to Railway is made here, one to a variable,
\* and the panel's setup token is the run's own.
Minted(template) ==
    [s \in DOMAIN template |->
        [v \in DOMAIN template[s] |->
            IF s = 1 /\ v = "SETUP_TOKEN" THEN <<"setup token">>
            ELSE IF template[s][v] = <<"secret">> THEN <<"made", s, v>> ELSE template[s][v]]]

RefersTo(services, s) == {d \in DOMAIN services : \E v \in DOMAIN services[s] : services[s][v] = <<"of", d>>}

RECURSIVE Place(_, _, _, _)
Place(refs, ordered, stack, s) ==
    IF s \in Range(ordered) \cup stack THEN ordered
    ELSE Append(FoldLeft(LAMBDA done, d : Place(refs, done, stack \cup {s}, d),
                         ordered, SetToSortSeq(refs[s], <)), s)

\* (mutant: what a service refers to is placed, what that refers to is not)
OrderShallow(refs) ==
    FoldLeft(LAMBDA done, s : done \o SelectSeq(Append(SetToSortSeq(refs[s] \ {s}, <), s),
                                                LAMBDA d : d \notin Range(done)),
             <<>>, [i \in DOMAIN refs |-> i])

\* Depth first: a service after those it refers to, a cycle cut where it closes.
OrderServices(refs) ==
    FoldLeft(LAMBDA done, s : Place(refs, done, {}, s), <<>>, [i \in DOMAIN refs |-> i])

BuildPlan(template) ==
    LET services == Minted(template) IN
    [services |-> services,
     order    |-> OrderServices([s \in DOMAIN services |-> RefersTo(services, s)])]

-----------------------------------------------------------------------------
TemplateInputs ==
    [of : {"services"}, template : [1..3 -> [{"ENCRYPTION_KEY", "SETUP_TOKEN"} -> {<<"secret">>} \cup {<<"of", d>> : d \in 1..3}]]]

\* Services come in an order that has each once, after all it refers to unless
\* they refer back to it, and no variable is left a secret to be made.
ServicesAreOrdered ==
    form.of = "services" =>
        LET plan   == BuildPlan(form.template)
            refs   == [s \in 1..3 |-> RefersTo(plan.services, s)]
            reach  == TransitiveClosure([p \in (1..3) \X (1..3) |-> p[2] \in refs[p[1]]], 1..3)
            At(s)  == CHOOSE i \in 1..3 : plan.order[i] = s
        IN  /\ Len(plan.order) = 3 /\ Range(plan.order) = 1..3
            /\ \A s \in 1..3 : \A d \in refs[s] : ~reach[d, s] => At(d) < At(s)
            /\ \A s \in 1..3 : <<"secret">> \notin Range(plan.services[s])
=============================================================================
