-------------------------- MODULE MCModelRouting --------------------------
(***************************************************************************)
(* Requests of the Prompt Assistant to two services, the first of which an *)
(* account has chosen, when the capabilities endpoint does not answer.     *)
(***************************************************************************)
EXTENDS ModelRouting

CONSTANTS night, day, q

MCServices  == {night, day}
MCDocuments == {[accepting |-> TRUE, up |-> up, slots |-> [s \in MCServices |-> 1],
                 means |-> [s \in MCServices |-> s], nsfw |-> {night}, vision |-> {day}] :
                   up \in {<<night, day>>, <<night>>}}
MCPin   == [r \in {q} |-> day]
MCNames == <<>>
=============================================================================
