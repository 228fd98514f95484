--------------------------- MODULE MCToolInstall ---------------------------
(* Two containers on one volume: one has an AppImage and a tool whose      *)
(* backend only the registry knows, the other AppImages and npm by name.   *)
EXTENDS ToolInstall

CONSTANTS c1, c2, v1, v2

MCNames == {"app", "codex", "npm:x", "pipx:y", "node", "uv", "pipx"}
MCBackend == [t \in MCNames |-> CASE t = "app" -> "appimage" [] t = "npm:x" -> "npm"
                                  [] t = "pipx:y" -> "pipx" [] OTHER -> "none"]
MCRegistry == [t \in MCNames |-> IF t = "codex" THEN "npm" ELSE "other"]
MCTools == [c \in Containers |-> IF c = c1 THEN {"app", "codex"} ELSE {"app", "npm:x", "pipx:y", "node"}]
AnyTpd == [c \in Containers |-> Versions]
OwnTpd == [c \in Containers |-> IF c = c1 THEN {v1} ELSE {v2}]
OneTpd == [c \in Containers |-> {v1}]
=============================================================================
