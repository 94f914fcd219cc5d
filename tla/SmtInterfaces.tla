--------------------------- MODULE SmtInterfaces ---------------------------
(***************************************************************************)
(* What the headers of the messages declare: for each body the types of    *)
(* its structure's fields, and for each event the types of what its lsend_ *)
(* function and its send_ macro take.  A send_ macro sends from the queue   *)
(* of the thread, asks for no answer and never expires.  For data the type  *)
(* is that of its size.                                                     *)
(***************************************************************************)
EXTENDS GslMessages

Structure(body, types)  == [body |-> body, types |-> types]
Interface(event, types) == [event |-> event, types |-> types]
Bare(name)              == Interface([name |-> name, body |-> << >>], << >>)

(* smtmsg.h.                                                                *)
struct_smtlib_shutdown == Structure(smtlib_shutdown, <<"word">>)
send_smtlib_shutdown == Interface(SMTLIB_SHUTDOWN, <<"word">>)
send_smtlog_plain == Bare("SMTLOG PLAIN")
send_smtlog_stamp == Bare("SMTLOG STAMP")
send_smtlog_close == Bare("SMTLOG CLOSE")
struct_smtlog_filename == Structure(smtlog_filename, <<"string">>)
send_smtlog_cycle == Interface(SMTLOG_CYCLE, <<"string">>)
send_smtlog_open == Interface(SMTLOG_OPEN, <<"string">>)
send_smtlog_append == Interface(SMTLOG_APPEND, <<"string">>)
struct_smtlog_text == Structure(smtlog_text, <<"string">>)
send_smtlog_put == Interface(SMTLOG_PUT, <<"string">>)
struct_smtxlog_open ==
  Structure(smtxlog_open, <<"string", "string", "string", "string", "string", "string",
                            "string", "string", "string", "string">>)
send_smtxlog_open ==
  Interface(SMTXLOG_OPEN, <<"string", "string", "string", "string", "string", "string",
                            "string", "string", "string", "string">>)
struct_smtxlog_log == Structure(smtxlog_log, <<"string", "word">>)
send_smtxlog_log == Interface(SMTXLOG_LOG, <<"string", "word">>)
struct_smtxlog_put == Structure(smtxlog_put, <<"string">>)
send_smtxlog_put == Interface(SMTXLOG_PUT, <<"string">>)
send_smtxlog_cycle == Bare("SMTXLOG CYCLE")
send_smtxlog_clear == Bare("SMTXLOG CLEAR")
send_smtxlog_close == Bare("SMTXLOG CLOSE")
struct_smtoper_set_log == Structure(smtoper_set_log, <<"string", "string">>)
send_smtoper_set_log == Interface(SMTOPER_SET_LOG, <<"string", "string">>)
struct_smtoper_message == Structure(smtoper_message, <<"string">>)
send_smtoper_error == Interface(SMTOPER_ERROR, <<"string">>)
send_smtoper_warning == Interface(SMTOPER_WARNING, <<"string">>)
send_smtoper_info == Interface(SMTOPER_INFO, <<"string">>)
send_smtoper_enable == Bare("SMTOPER ENABLE")
send_smtoper_disable == Bare("SMTOPER DISABLE")
struct_smtrdns_get_host_name == Structure(smtrdns_get_host_name, <<"qbyte", "string", "qbyte">>)
send_smtrdns_get_host_name == Interface(SMTRDNS_GET_HOST_NAME, <<"qbyte", "string", "qbyte">>)
struct_smtrdns_get_host_ip == Structure(smtrdns_get_host_ip, <<"string", "qbyte">>)
send_smtrdns_get_host_ip == Interface(SMTRDNS_GET_HOST_IP, <<"string", "qbyte">>)
struct_smtrdns_host_name == Structure(smtrdns_host_name, <<"qbyte", "string", "qbyte">>)
send_smtrdns_host_name == Interface(SMTRDNS_HOST_NAME, <<"qbyte", "string", "qbyte">>)
struct_smtrdns_host_ip == Structure(smtrdns_host_ip, <<"qbyte", "string", "qbyte">>)
send_smtrdns_host_ip == Interface(SMTRDNS_HOST_IP, <<"qbyte", "string", "qbyte">>)
send_smtrdns_host_error == Bare("SMTRDNS HOST ERROR")
send_smtrdns_host_end == Bare("SMTRDNS HOST END")
send_smtrdns_host_timeout == Bare("SMTRDNS HOST TIMEOUT")
struct_smtslot_specification == Structure(smtslot_specification, <<"string">>)
send_smtslot_specify == Interface(SMTSLOT_SPECIFY, <<"string">>)
send_smtslot_reset == Bare("SMTSLOT RESET")
send_smtslot_on == Bare("SMTSLOT ON")
send_smtslot_off == Bare("SMTSLOT OFF")
send_smtslot_finish == Bare("SMTSLOT FINISH")
struct_smtslot_error == Structure(smtslot_error, <<"string">>)
send_smtslot_error == Interface(SMTSLOT_ERROR, <<"string">>)
send_smtslot_switch_on == Bare("SMTSLOT SWITCH ON")
send_smtslot_switch_off == Bare("SMTSLOT SWITCH OFF")
struct_smtsock_read ==
  Structure(smtsock_read, <<"dbyte", "qbyte", "dbyte", "dbyte", "pointer">>)
send_smtsock_read == Interface(SMTSOCK_READ, <<"dbyte", "qbyte", "dbyte", "dbyte", "pointer">>)
send_smtsock_readr ==
  Interface(SMTSOCK_READR, <<"dbyte", "qbyte", "dbyte", "dbyte", "pointer">>)
struct_smtsock_write ==
  Structure(smtsock_write, <<"dbyte", "qbyte", "word", "Bool", "pointer">>)
send_smtsock_write == Interface(SMTSOCK_WRITE, <<"dbyte", "qbyte", "word", "Bool", "pointer">>)
struct_smtsock_close == Structure(smtsock_close, <<"dbyte", "qbyte", "Bool", "pointer">>)
send_smtsock_close == Interface(SMTSOCK_CLOSE, <<"dbyte", "qbyte", "Bool", "pointer">>)
struct_smtsock_readh ==
  Structure(smtsock_readh, <<"dbyte", "qbyte", "qbyte", "qbyte", "pointer">>)
send_smtsock_readh ==
  Interface(SMTSOCK_READH, <<"dbyte", "qbyte", "qbyte", "qbyte", "pointer">>)
send_smtsock_readrh ==
  Interface(SMTSOCK_READRH, <<"dbyte", "qbyte", "qbyte", "qbyte", "pointer">>)
struct_smtsock_writeh ==
  Structure(smtsock_writeh, <<"dbyte", "qbyte", "qbyte", "Bool", "pointer">>)
send_smtsock_writeh ==
  Interface(SMTSOCK_WRITEH, <<"dbyte", "qbyte", "qbyte", "Bool", "pointer">>)
struct_smtsock_input == Structure(smtsock_input, <<"dbyte", "qbyte", "pointer">>)
send_smtsock_input == Interface(SMTSOCK_INPUT, <<"dbyte", "qbyte", "pointer">>)
struct_smtsock_output == Structure(smtsock_output, <<"dbyte", "qbyte", "pointer">>)
send_smtsock_output == Interface(SMTSOCK_OUTPUT, <<"dbyte", "qbyte", "pointer">>)
struct_smtsock_connect ==
  Structure(smtsock_connect, <<"dbyte", "string", "string", "string", "dbyte", "qbyte",
                               "pointer">>)
send_smtsock_connect ==
  Interface(SMTSOCK_CONNECT, <<"dbyte", "string", "string", "string", "dbyte", "qbyte",
                               "pointer">>)
struct_smtsock_flush == Structure(smtsock_flush, <<"qbyte", "Bool">>)
send_smtsock_flush == Interface(SMTSOCK_FLUSH, <<"qbyte", "Bool">>)
struct_smtsock_read_reply == Structure(smtsock_read_reply, <<"word", "pointer">>)
send_smtsock_read_ok == Interface(SMTSOCK_READ_OK, <<"word", "pointer">>)
send_smtsock_read_closed == Interface(SMTSOCK_READ_CLOSED, <<"word", "pointer">>)
send_smtsock_read_timeout == Interface(SMTSOCK_READ_TIMEOUT, <<"word", "pointer">>)
struct_smtsock_readh_reply == Structure(smtsock_readh_reply, <<"qbyte", "pointer">>)
send_smtsock_readh_ok == Interface(SMTSOCK_READH_OK, <<"qbyte", "pointer">>)
send_smtsock_readh_closed == Interface(SMTSOCK_READH_CLOSED, <<"qbyte", "pointer">>)
send_smtsock_readh_timeout == Interface(SMTSOCK_READH_TIMEOUT, <<"qbyte", "pointer">>)
struct_smtsock_connect_ok == Structure(smtsock_connect_ok, <<"qbyte", "pointer">>)
send_smtsock_connect_ok == Interface(SMTSOCK_CONNECT_OK, <<"qbyte", "pointer">>)
struct_smtsock_reply == Structure(smtsock_reply, <<"pointer">>)
send_smtsock_ok == Interface(SMTSOCK_OK, <<"pointer">>)
send_smtsock_closed == Interface(SMTSOCK_CLOSED, <<"pointer">>)
send_smtsock_timeout == Interface(SMTSOCK_TIMEOUT, <<"pointer">>)
struct_smtsock_error == Structure(smtsock_error, <<"string", "pointer">>)
send_smtsock_error == Interface(SMTSOCK_ERROR, <<"string", "pointer">>)
struct_smttran_putb == Structure(smttran_putb, <<"qbyte", "word", "string">>)
send_smttran_put_block == Interface(SMTTRAN_PUT_BLOCK, <<"qbyte", "word", "string">>)
struct_smttran_getb == Structure(smttran_getb, <<"qbyte", "string">>)
send_smttran_get_block == Interface(SMTTRAN_GET_BLOCK, <<"qbyte", "string">>)
struct_smttran_puth == Structure(smttran_puth, <<"qbyte", "qbyte", "string">>)
send_smttran_put_huge == Interface(SMTTRAN_PUT_HUGE, <<"qbyte", "qbyte", "string">>)
struct_smttran_geth == Structure(smttran_geth, <<"qbyte", "string">>)
send_smttran_get_huge == Interface(SMTTRAN_GET_HUGE, <<"qbyte", "string">>)
struct_smttran_putf ==
  Structure(smttran_putf, <<"qbyte", "string", "dbyte", "qbyte", "qbyte", "string">>)
send_smttran_put_file ==
  Interface(SMTTRAN_PUT_FILE, <<"qbyte", "string", "dbyte", "qbyte", "qbyte", "string">>)
struct_smttran_getf ==
  Structure(smttran_getf, <<"qbyte", "string", "dbyte", "qbyte", "qbyte", "Bool", "qbyte",
                            "string">>)
send_smttran_get_file ==
  Interface(SMTTRAN_GET_FILE, <<"qbyte", "string", "dbyte", "qbyte", "qbyte", "Bool",
                                "qbyte", "string">>)
struct_smttran_putb_ok == Structure(smttran_putb_ok, <<"dbyte">>)
send_smttran_putb_ok == Interface(SMTTRAN_PUTB_OK, <<"dbyte">>)
struct_smttran_getb_ok == Structure(smttran_getb_ok, <<"word">>)
send_smttran_getb_ok == Interface(SMTTRAN_GETB_OK, <<"word">>)
struct_smttran_puth_ok == Structure(smttran_puth_ok, <<"qbyte">>)
send_smttran_puth_ok == Interface(SMTTRAN_PUTH_OK, <<"qbyte">>)
struct_smttran_geth_ok == Structure(smttran_geth_ok, <<"qbyte">>)
send_smttran_geth_ok == Interface(SMTTRAN_GETH_OK, <<"qbyte">>)
struct_smttran_putf_ok == Structure(smttran_putf_ok, <<"qbyte">>)
send_smttran_putf_ok == Interface(SMTTRAN_PUTF_OK, <<"qbyte">>)
struct_smttran_getf_ok == Structure(smttran_getf_ok, <<"qbyte">>)
send_smttran_getf_ok == Interface(SMTTRAN_GETF_OK, <<"qbyte">>)
struct_smttran_pipe_create == Structure(smttran_pipe_create, <<"string", "qbyte", "qbyte">>)
send_smttran_pipe_create == Interface(SMTTRAN_PIPE_CREATE, <<"string", "qbyte", "qbyte">>)
send_smttran_clear_pipes == Bare("SMTTRAN CLEAR PIPES")
send_smttran_commit == Bare("SMTTRAN COMMIT")
send_smttran_closed == Bare("SMTTRAN CLOSED")
struct_smttran_error == Structure(smttran_error, <<"string">>)
send_smttran_error == Interface(SMTTRAN_ERROR, <<"string">>)
struct_smtupm_message == Structure(smtupm_message, <<"dbyte", "string">>)
send_smtupm_put_block == Interface(SMTUPM_PUT_BLOCK, <<"dbyte", "string">>)
struct_smtpop_connection == Structure(smtpop_connection, <<"string", "string", "string">>)
send_smtpop_connect == Interface(SMTPOP_CONNECT, <<"string", "string", "string">>)
struct_smtpop_connect_ok == Structure(smtpop_connect_ok, <<"qbyte", "qbyte">>)
send_smtpop_connect_ok == Interface(SMTPOP_CONNECT_OK, <<"qbyte", "qbyte">>)
struct_smtpop_error == Structure(smtpop_error, <<"string", "dbyte">>)
send_smtpop_error == Interface(SMTPOP_ERROR, <<"string", "dbyte">>)
send_smtpop_get_session_info == Bare("SMTPOP GET_SESSION_INFO")
send_smtpop_quit == Bare("SMTPOP QUIT")
send_smtpop_quit_ok == Bare("SMTPOP QUIT_OK")
struct_smtpop_session_info == Structure(smtpop_session_info, <<"qbyte", "qbyte">>)
send_smtpop_session_info == Interface(SMTPOP_SESSION_INFO, <<"qbyte", "qbyte">>)
struct_smtpop_msg_session_info == Structure(smtpop_msg_session_info, <<"qbyte", "qbyte">>)
send_smtpop_msg_session_info == Interface(SMTPOP_MSG_SESSION_INFO, <<"qbyte", "qbyte">>)
struct_smtpop_msg_id == Structure(smtpop_msg_id, <<"qbyte", "string">>)
send_smtpop_get_msg_header == Interface(SMTPOP_GET_MSG_HEADER, <<"qbyte", "string">>)
send_smtpop_get_msg == Interface(SMTPOP_GET_MSG, <<"qbyte", "string">>)
send_smtpop_delete_msg == Interface(SMTPOP_DELETE_MSG, <<"qbyte", "string">>)
send_smtpop_delete_ok == Interface(SMTPOP_DELETE_OK, <<"qbyte", "string">>)
send_smtpop_get_msg_info == Interface(SMTPOP_GET_MSG_INFO, <<"qbyte", "string">>)
struct_smtpop_msg_header ==
  Structure(smtpop_msg_header, <<"qbyte", "string", "string", "string", "string", "string">>)
send_smtpop_msg_header ==
  Interface(SMTPOP_MSG_HEADER, <<"qbyte", "string", "string", "string", "string", "string">>)
struct_smtpop_msg ==
  Structure(smtpop_msg, <<"qbyte", "string", "string", "string", "string", "string",
                          "string", "string", "string">>)
send_smtpop_msg ==
  Interface(SMTPOP_MSG, <<"qbyte", "string", "string", "string", "string", "string",
                          "string", "string", "string">>)
struct_smtsmtp_message ==
  Structure(smtsmtp_message, <<"string", "string", "string", "string", "string">>)
send_smtsmtp_send_message ==
  Interface(SMTSMTP_SEND_MESSAGE, <<"string", "string", "string", "string", "string">>)
send_smtsmtp_open_message ==
  Interface(SMTSMTP_OPEN_MESSAGE, <<"string", "string", "string", "string", "string">>)
struct_smtsmtp_chunk == Structure(smtsmtp_chunk, <<"string">>)
send_smtsmtp_message_chunk == Interface(SMTSMTP_MESSAGE_CHUNK, <<"string">>)
send_smtsmtp_close_message == Bare("SMTSMTP CLOSE_MESSAGE")
struct_smtsmtp_reply == Structure(smtsmtp_reply, <<"qbyte", "string">>)
send_smtsmtp_ok == Interface(SMTSMTP_OK, <<"qbyte", "string">>)
send_smtsmtp_error == Interface(SMTSMTP_ERROR, <<"qbyte", "string">>)
struct_smttmtp_write == Structure(smttmtp_write, <<"string", "string", "word">>)
send_smttmtp_write == Interface(SMTTMTP_WRITE, <<"string", "string", "word">>)
struct_smttmtp_listen == Structure(smttmtp_listen, <<"string">>)
send_smttmtp_listen == Interface(SMTTMTP_LISTEN, <<"string">>)
send_smttmtp_write_ok == Bare("SMTTMTP WRITE OK")
send_smttmtp_listen_ok == Bare("SMTTMTP LISTEN OK")
struct_smttmtp_error == Structure(smttmtp_error, <<"string">>)
send_smttmtp_write_error == Interface(SMTTMTP_WRITE_ERROR, <<"string">>)
send_smttmtp_listen_error == Interface(SMTTMTP_LISTEN_ERROR, <<"string">>)
struct_smttmtp_incoming_message == Structure(smttmtp_incoming_message, <<"word">>)
send_smttmtp_incoming_data == Interface(SMTTMTP_INCOMING_DATA, <<"word">>)

(* ggcodem.h.                                                               *)
send_ggcode_execute == Bare("GGCODE EXECUTE")
send_ggcode_start == Bare("GGCODE START")
send_ggcode_spawn == Bare("GGCODE SPAWN")
send_ggcode_continue == Bare("GGCODE CONTINUE")
send_ggcode_next == Bare("GGCODE NEXT")
send_ggcode_step == Bare("GGCODE STEP")
send_ggcode_finish == Bare("GGCODE FINISH")
struct_ggcode_gsl == Structure(ggcode_gsl, <<"string">>)
send_ggcode_gsl == Interface(GGCODE_GSL, <<"string">>)
struct_ggcode_evaluate == Structure(ggcode_evaluate, <<"string">>)
send_ggcode_evaluate == Interface(GGCODE_EVALUATE, <<"string">>)
send_ggcode_call == Bare("GGCODE CALL")
struct_ggcode_job == Structure(ggcode_job, <<"pointer">>)
send_ggcode_ok == Interface(GGCODE_OK, <<"pointer">>)
struct_ggcode_error_reply ==
  Structure(ggcode_error_reply, <<"pointer", "string", "qbyte", "string">>)
send_ggcode_message == Interface(GGCODE_MESSAGE, <<"pointer", "string", "qbyte", "string">>)
send_ggcode_error == Interface(GGCODE_ERROR, <<"pointer", "string", "qbyte", "string">>)
send_ggcode_fatal == Interface(GGCODE_FATAL, <<"pointer", "string", "qbyte", "string">>)
send_ggcode_call_ok == Bare("GGCODE CALL OK")
struct_ggcode_call_error == Structure(ggcode_call_error, <<"string", "qbyte", "string">>)
send_ggcode_call_message == Interface(GGCODE_CALL_MESSAGE, <<"string", "qbyte", "string">>)
send_ggcode_call_error == Interface(GGCODE_CALL_ERROR, <<"string", "qbyte", "string">>)

(* ggparsm.h.                                                               *)
struct_ggpars_parse == Structure(ggpars_parse, <<"pointer">>)
send_ggpars_template == Interface(GGPARS_TEMPLATE, <<"pointer">>)
send_ggpars_gsl == Interface(GGPARS_GSL, <<"pointer">>)
send_ggpars_expression == Interface(GGPARS_EXPRESSION, <<"pointer">>)
struct_ggpars_ok == Structure(ggpars_ok, <<"pointer", "pointer", "pointer", "qbyte">>)
send_ggpars_ok == Interface(GGPARS_OK, <<"pointer", "pointer", "pointer", "qbyte">>)
struct_ggpars_eof == Structure(ggpars_eof, <<"pointer">>)
send_ggpars_eof == Interface(GGPARS_EOF, <<"pointer">>)
struct_ggpars_error == Structure(ggpars_error, <<"pointer", "string">>)
send_ggpars_error == Interface(GGPARS_ERROR, <<"pointer", "string">>)

Structures ==
  {struct_smtlib_shutdown, struct_smtlog_filename, struct_smtlog_text,
   struct_smtxlog_open, struct_smtxlog_log, struct_smtxlog_put, struct_smtoper_set_log,
   struct_smtoper_message, struct_smtrdns_get_host_name, struct_smtrdns_get_host_ip,
   struct_smtrdns_host_name, struct_smtrdns_host_ip, struct_smtslot_specification,
   struct_smtslot_error, struct_smtsock_read, struct_smtsock_write, struct_smtsock_close,
   struct_smtsock_readh, struct_smtsock_writeh, struct_smtsock_input,
   struct_smtsock_output, struct_smtsock_connect, struct_smtsock_flush,
   struct_smtsock_read_reply, struct_smtsock_readh_reply, struct_smtsock_connect_ok,
   struct_smtsock_reply, struct_smtsock_error, struct_smttran_putb, struct_smttran_getb,
   struct_smttran_puth, struct_smttran_geth, struct_smttran_putf, struct_smttran_getf,
   struct_smttran_putb_ok, struct_smttran_getb_ok, struct_smttran_puth_ok,
   struct_smttran_geth_ok, struct_smttran_putf_ok, struct_smttran_getf_ok,
   struct_smttran_pipe_create, struct_smttran_error, struct_smtupm_message,
   struct_smtpop_connection, struct_smtpop_connect_ok, struct_smtpop_error,
   struct_smtpop_session_info, struct_smtpop_msg_session_info, struct_smtpop_msg_id,
   struct_smtpop_msg_header, struct_smtpop_msg, struct_smtsmtp_message,
   struct_smtsmtp_chunk, struct_smtsmtp_reply, struct_smttmtp_write,
   struct_smttmtp_listen, struct_smttmtp_error, struct_smttmtp_incoming_message,
   struct_ggcode_gsl, struct_ggcode_evaluate, struct_ggcode_job,
   struct_ggcode_error_reply, struct_ggcode_call_error, struct_ggpars_parse,
   struct_ggpars_ok, struct_ggpars_eof, struct_ggpars_error}

Interfaces ==
  {send_smtlib_shutdown, send_smtlog_plain, send_smtlog_stamp, send_smtlog_close,
   send_smtlog_cycle, send_smtlog_open, send_smtlog_append, send_smtlog_put,
   send_smtxlog_open, send_smtxlog_log, send_smtxlog_put, send_smtxlog_cycle,
   send_smtxlog_clear, send_smtxlog_close, send_smtoper_set_log, send_smtoper_error,
   send_smtoper_warning, send_smtoper_info, send_smtoper_enable, send_smtoper_disable,
   send_smtrdns_get_host_name, send_smtrdns_get_host_ip, send_smtrdns_host_name,
   send_smtrdns_host_ip, send_smtrdns_host_error, send_smtrdns_host_end,
   send_smtrdns_host_timeout, send_smtslot_specify, send_smtslot_reset, send_smtslot_on,
   send_smtslot_off, send_smtslot_finish, send_smtslot_error, send_smtslot_switch_on,
   send_smtslot_switch_off, send_smtsock_read, send_smtsock_readr, send_smtsock_write,
   send_smtsock_close, send_smtsock_readh, send_smtsock_readrh, send_smtsock_writeh,
   send_smtsock_input, send_smtsock_output, send_smtsock_connect, send_smtsock_flush,
   send_smtsock_read_ok, send_smtsock_read_closed, send_smtsock_read_timeout,
   send_smtsock_readh_ok, send_smtsock_readh_closed, send_smtsock_readh_timeout,
   send_smtsock_connect_ok, send_smtsock_ok, send_smtsock_closed, send_smtsock_timeout,
   send_smtsock_error, send_smttran_put_block, send_smttran_get_block,
   send_smttran_put_huge, send_smttran_get_huge, send_smttran_put_file,
   send_smttran_get_file, send_smttran_putb_ok, send_smttran_getb_ok,
   send_smttran_puth_ok, send_smttran_geth_ok, send_smttran_putf_ok, send_smttran_getf_ok,
   send_smttran_pipe_create, send_smttran_clear_pipes, send_smttran_commit,
   send_smttran_closed, send_smttran_error, send_smtupm_put_block, send_smtpop_connect,
   send_smtpop_connect_ok, send_smtpop_error, send_smtpop_get_session_info,
   send_smtpop_quit, send_smtpop_quit_ok, send_smtpop_session_info,
   send_smtpop_msg_session_info, send_smtpop_get_msg_header, send_smtpop_get_msg,
   send_smtpop_delete_msg, send_smtpop_delete_ok, send_smtpop_get_msg_info,
   send_smtpop_msg_header, send_smtpop_msg, send_smtsmtp_send_message,
   send_smtsmtp_open_message, send_smtsmtp_message_chunk, send_smtsmtp_close_message,
   send_smtsmtp_ok, send_smtsmtp_error, send_smttmtp_write, send_smttmtp_listen,
   send_smttmtp_write_ok, send_smttmtp_listen_ok, send_smttmtp_write_error,
   send_smttmtp_listen_error, send_smttmtp_incoming_data, send_ggcode_execute,
   send_ggcode_start, send_ggcode_spawn, send_ggcode_continue, send_ggcode_next,
   send_ggcode_step, send_ggcode_finish, send_ggcode_gsl, send_ggcode_evaluate,
   send_ggcode_call, send_ggcode_ok, send_ggcode_message, send_ggcode_error,
   send_ggcode_fatal, send_ggcode_call_ok, send_ggcode_call_message,
   send_ggcode_call_error, send_ggpars_template, send_ggpars_gsl, send_ggpars_expression,
   send_ggpars_ok, send_ggpars_eof, send_ggpars_error}
-----------------------------------------------------------------------------
RangeOf(type) == IF type = "qbyte" THEN QBYTE ELSE WORD

Carries(f, type) ==
  CASE f.kind = "text"  -> type = "string"
    [] f.kind = "data"  -> type \in {"word", "qbyte"} /\ RangeOf(type) = f.range
    [] f.kind = "value" -> type \in {"dbyte", "word", "qbyte", "Bool", "pointer"}

(* What the functions of an event's body fill and read is what its structure *)
(* holds, in this order; the event is declared once, takes what its          *)
(* structure takes, and nothing is cut on the way but the size of data.      *)
InterfaceFits(event) ==
  \E e \in Interfaces :
    /\ e.event = event
    /\ \A f \in Interfaces \ {e} : f.event.name # event.name
    /\ \E s \in Structures :
         /\ s.body = event.body /\ s.types = e.types
         /\ Len(s.types) = Len(s.body)
         /\ \A i \in DOMAIN s.body : Carries(s.body[i], s.types[i])
=============================================================================
