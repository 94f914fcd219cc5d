---------------------------- MODULE GslMessages ----------------------------
(***************************************************************************)
(* The messages of the interpreter and of the parser (gsl/ggcodem.c,       *)
(* gsl/ggparsm.c), in the notation of SmtMessages.  A job is an address     *)
(* that comes back as it was sent.                                          *)
(***************************************************************************)
EXTENDS SmtMessages

(* The interpreter.                                                         *)
ggcode_gsl == <<Text("command")>>
ggcode_evaluate == <<Text("expression")>>
ggcode_job == <<Value("job")>>
ggcode_error_reply ==
  <<Value("job"), Text("error_name"), Value("error_line"), Text("error_text")>>
ggcode_call_error == <<Text("error_name"), Value("error_line"), Text("error_text")>>
GGCODE_GSL == [name |-> "GGCODE GSL", body |-> ggcode_gsl]
GGCODE_EVALUATE == [name |-> "GGCODE EVALUATE", body |-> ggcode_evaluate]
GGCODE_OK == [name |-> "GGCODE OK", body |-> ggcode_job]
GGCODE_MESSAGE == [name |-> "GGCODE MESSAGE", body |-> ggcode_error_reply]
GGCODE_ERROR == [name |-> "GGCODE ERROR", body |-> ggcode_error_reply]
GGCODE_FATAL == [name |-> "GGCODE FATAL", body |-> ggcode_error_reply]
GGCODE_CALL_MESSAGE == [name |-> "GGCODE CALL MESSAGE", body |-> ggcode_call_error]
GGCODE_CALL_ERROR == [name |-> "GGCODE CALL ERROR", body |-> ggcode_call_error]

(* The parser.                                                              *)
ggpars_parse == <<Value("job")>>
ggpars_ok == <<Value("job"), Value("parse_root"), Value("parse_memtrn"), Value("size")>>
ggpars_eof == <<Value("job")>>
ggpars_error == <<Value("job"), Text("error_text")>>
GGPARS_TEMPLATE == [name |-> "GGPARS TEMPLATE", body |-> ggpars_parse]
GGPARS_GSL == [name |-> "GGPARS GSL", body |-> ggpars_parse]
GGPARS_EXPRESSION == [name |-> "GGPARS EXPRESSION", body |-> ggpars_parse]
GGPARS_OK == [name |-> "GGPARS OK", body |-> ggpars_ok]
GGPARS_EOF == [name |-> "GGPARS EOF", body |-> ggpars_eof]
GGPARS_ERROR == [name |-> "GGPARS ERROR", body |-> ggpars_error]

GslEvents ==
  {GGCODE_GSL, GGCODE_EVALUATE, GGCODE_OK, GGCODE_MESSAGE, GGCODE_ERROR, GGCODE_FATAL,
   GGCODE_CALL_MESSAGE, GGCODE_CALL_ERROR, GGPARS_TEMPLATE, GGPARS_GSL, GGPARS_EXPRESSION,
   GGPARS_OK, GGPARS_EOF, GGPARS_ERROR}
=============================================================================
