---------------------------- MODULE MCConfigStore ----------------------------
(* A model-checking instance of ConfigStore in which every id and name hashes *)
(* to the same virtual MAC: a receiver with a device id, a service without    *)
(* one, and a player the user wrote.                                          *)
EXTENDS ConfigStore

MCHashOf == [k \in {"aa", "den", "tv"} |-> 1]

MCDevices == { [id |-> "aa", name |-> "bath"], [id |-> "tv", name |-> "tv"] }

User(key, val) == Line("key", key, val, "user")
Text(val) == Line("text", "", val, "user")
Player(name) == Header(name, "user")

\* A player without an id, and comments.
Plain == << Text("top"), Header("global", "user"), User("discovery", "ok"),
            Player("den"), Text("mine"), User("target", "ok") >>

\* A player bound to the receiver, with its MAC and credentials on file, and
\* a section the program does not know.
Bound == << Header("default", "user"), User("name", "ok"),
            Player("den"), User("id", "aa"),
            Line("key", "creds", "c0", "program"),
            Line("key", "mac", << 2, 1 >>, "program"),
            Line("unknown", "", "notes", "user"), BadLine("todo", "user") >>

Broken == << Player("den"), BadLine("protocol", "user") >>

MCFiles == { Plain, Bound, Broken }
=============================================================================
