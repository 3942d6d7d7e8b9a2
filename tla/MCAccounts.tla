----------------------------- MODULE MCAccounts -----------------------------
(* Two social accounts, at different providers, of people who may report    *)
(* the same e-mail address.                                                 *)
EXTENDS Accounts, TLC

CONSTANTS google, kakao

MCProvider == google :> "GOOGLE" @@ kakao :> "KAKAO"

CallSymmetry == Permutations(Calls)
UserSymmetry == Permutations(Users)
Symmetry == CallSymmetry \cup UserSymmetry
=============================================================================
