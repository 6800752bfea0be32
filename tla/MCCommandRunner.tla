-------------------------- MODULE MCCommandRunner --------------------------
(* Values for the constants of CommandRunner: two routes to add and delete. *)
EXTENDS CommandRunner

MCRoutes == {"redirect", "bypass"}
MCCommands == [verb : {"add", "delete"}, route : MCRoutes]
===========================================================================
