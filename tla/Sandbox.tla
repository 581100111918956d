------------------------------- MODULE Sandbox -------------------------------
(***************************************************************************)
(* scan_code: what its two passes find in a program.  A program is the set *)
(* of constructs it holds, each the spelling of one family of rules, and   *)
(* whether it parses; both passes read it with its confusables folded.     *)
(***************************************************************************)

\* _Visitor, over the syntax tree: calls to a name or to module.function, and
\* imports.
SeenInTree ==
    {"eval()", "exec()", "compile()", "__import__()", "execfile()",
     "getattr()", "setattr()", "globals()", "vars()",
     "os.system()", "os.popen()", "os.fork()", "subprocess.run()", "pty.spawn()",
     "ctypes.CDLL()", "importlib.import_module()",
     "import subprocess", "import ctypes", "import pty"}

\* _REGEX_RULES, over the text, comments and strings included.
SeenInText ==
    {"eval()", "exec()", "__import__()", "os.system()", "subprocess.run()",
     "ctypes.CDLL()", "import subprocess", "import ctypes",
     "the word subprocess", "bash -c", "/dev/tcp/", "\\x..\\x..", "__globals__"}

\* Calls neither pass takes for dangerous.
Plain == {"print()", "open()"}

Constructs == SeenInTree \cup SeenInText \cup Plain

\* The tree pass runs only when the program parses, the text pass always.
Found(program) ==
    program.has \cap (SeenInText \cup IF program.parses THEN SeenInTree ELSE {})

Dangerous(program) == Found(program) # {}
=============================================================================
