---------------------------- MODULE MCKeyClients ----------------------------
(* A device with two OTP entries, an API key and an SSH key. *)
EXTENDS KeyClients

CONSTANTS o1, o2, o3, o4, o5, a1, s1, s2, page, fill, term, shell, agent, agent2

TwoCodes == ("otp" :> <<o1, o2>>) @@ ("api" :> <<a1>>) @@ ("ssh" :> <<s1>>)
OneNew   == ("otp" :> {o3}) @@ ("api" :> {}) @@ ("ssh" :> {s2})
TwoFile  == <<o4, o5>>

\* Any two of the clients.
Pairs == {c \in SUBSET Clients : Cardinality(c) = 2}

Bounds == [w \in Pairs |-> IF page \in w \/ fill \in w THEN 2 ELSE 3]

\* Where a delete leaves a gap, one client deletes.
Apart == (term :> {"otp"}) @@ (page :> {"api"}) @@ (shell :> {"api"})
         @@ [c \in Fills \cup Signers |-> {}]

\* All of them together, any of them deleting OTP entries.
Together == {Clients}
Three    == [w \in Together |-> 3]
Shared   == [c \in Clients |-> {"otp"}]
=============================================================================
