---------------------------- MODULE MCEventQueue ---------------------------
(* A small instance of EventQueue for TLC.                                 *)
EXTENDS EventQueue

(* A proposal, a challenge, and a contract that submits two transactions.  *)
Emitters == "propose" :> "State" @@ "challenge" :> "Challenges" @@ "submit" :> "Shield"
Emitted == "propose" :> <<"BlockProposed">> @@ "challenge" :> <<"Rollback">>
           @@ "submit" :> <<"TransactionSubmitted", "TransactionSubmitted">>
=============================================================================
