------------------------------- MODULE Detectors -------------------------------
(***************************************************************************)
(* The tables of analysis/detectors.py: which detector looks at which      *)
(* files, and which of them a configuration can name.  What a detector     *)
(* looks for in the text is left out; a file is known by its traits (its   *)
(* language, its place, the frameworks it mentions).                       *)
(***************************************************************************)
EXTENDS Integers, Sequences, FiniteSets

(* An entrypoint detector: the trait it asks for, its pattern, the hint it *)
(* gives, and whether what it finds has a route or a handler.              *)
Detector(trait, pattern, hint, named) ==
  [trait |-> trait, pattern |-> pattern, hint |-> hint, named |-> named]

JavaScriptDetectors ==
  {Detector("next_api", "next_api_route", "nextjs", TRUE),
   Detector("nestjs", "nestjs_route", "nestjs", TRUE),
   Detector("hapi", "hapi_route", "hapi", TRUE)}

ServerConfigDetectors ==
  {Detector("web_xml", "tomcat_url_pattern", "tomcat-web-xml", TRUE),
   Detector("web_xml", "tomcat_servlet_class", "tomcat-web-xml", FALSE),
   Detector("web_xml", "tomcat_filter_class", "tomcat-web-xml", FALSE),
   Detector("web_xml", "tomcat_listener_class", "tomcat-web-xml", FALSE),
   Detector("web_xml", "tomcat_security_constraint", "tomcat-security-constraint", TRUE),
   Detector("server_xml", "tomcat_connector", "tomcat-connector", TRUE),
   Detector("zsec_xml", "zsec_security_url", "zsec-security", TRUE),
   Detector("product_api_xml", "product_api_xml", "product-api-xml", TRUE),
   Detector("servlet_forward", "servlet_forward_config", "servlet-forward-config", TRUE)}

JavaDetectors ==
  {Detector("java", "spark_route", "spark-java", TRUE),
   Detector("java", "java_webservlet", "java-webservlet", TRUE),
   Detector("java", "jax_rs", "jax-rs", TRUE),
   Detector("java", "java_soap", "java-soap", TRUE),
   Detector("java", "java_enterprise_handler", "java-enterprise-handler", TRUE)}

PythonDetectors ==
  {Detector("pyramid", "pyramid_route", "pyramid", TRUE),
   Detector("starlette", "starlette_route", "starlette", TRUE),
   Detector("sanic", "sanic_route", "sanic", TRUE),
   Detector("tornado", "tornado_route", "tornado", TRUE),
   Detector("aiohttp", "aiohttp_route", "aiohttp", TRUE),
   Detector("bottle", "bottle_route", "bottle", TRUE)}

OtherLanguageDetectors ==
  {Detector("go", "go_route", "go-http", TRUE),
   Detector("csharp", "aspnet_route", "aspnet-core", TRUE),
   Detector("rust", "rust_route", "rust-web", TRUE),
   Detector("kotlin", "kotlin_route", "kotlin-web", TRUE),
   Detector("play", "play_route", "scala-play", TRUE),
   Detector("elixir", "phoenix_route", "phoenix", TRUE),
   Detector("clojure", "clojure_route", "clojure-web", TRUE),
   Detector("haskell", "servant_route", "haskell-servant", TRUE)}

WebLanguageDetectors ==
  {Detector("sinatra", "sinatra_route", "sinatra", TRUE),
   Detector("ruby", "rails_route", "rails", TRUE),
   Detector("php", "laravel_route", "laravel", TRUE),
   Detector("url_config", "javascript_url_config", "javascript-url-config", TRUE),
   Detector("adap_xml", "adap_rest_api_mapping", "adap-rest-api", TRUE),
   Detector("urlpatterns", "django_urlpatterns", "django", TRUE),
   Detector("java", "spring_mapping", "spring", TRUE),
   Detector("kotlin", "spring_mapping", "spring", TRUE)}

(* ENTRYPOINT_PATTERNS but for django and spring, which have been there. *)
LineDetectors ==
  {Detector("any", "express_route", "express", TRUE),
   Detector("any", "fastapi_route", "fastapi", TRUE),
   Detector("any", "flask_route", "flask", TRUE),
   Detector("any", "generic_webhook", "generic", FALSE),
   Detector("any", "generic_graphql", "graphql", FALSE)}

EntrypointDetectors(traits) ==
  {d \in JavaScriptDetectors \cup ServerConfigDetectors \cup JavaDetectors
         \cup PythonDetectors \cup OtherLanguageDetectors
         \cup WebLanguageDetectors \cup LineDetectors :
     d.trait \in traits \cup {"any"}}

LineConsumers ==
  {"file_operation", "network_operation", "process_operation",
   "template_operation", "deserialization", "config_operation",
   "database_operation", "directory_operation", "queue_operation",
   "archive_operation", "parser_operation", "request_parameter"}

(* What patterns find in a line, and what a security configuration gives. *)
ConsumerPatterns(traits) ==
  LineConsumers \cup
    (IF "zsec_xml" \in traits THEN {"zsec_security_control", "zsec_zip_sanitizer"} ELSE {})

ConsumerType(pattern) ==
  CASE pattern = "request_parameter" -> "parser_operation"
    [] pattern = "zsec_security_control" -> "config_operation"
    [] pattern = "zsec_zip_sanitizer" -> "archive_operation"
    [] OTHER -> pattern

LineWorkers ==
  {"queue_process", "consume", "subscribe", "on_message", "celery_task",
   "bullmq", "sidekiq", "cron"}
-------------------------------------------------------------------------------
KnownEntrypoints ==
  {"express_route", "fastapi_route", "flask_route", "spring_mapping",
   "django_urlpatterns", "generic_webhook", "generic_graphql",
   "tomcat_url_pattern", "tomcat_servlet_class", "tomcat_filter_class",
   "tomcat_listener_class", "adap_rest_api_mapping", "aiohttp_route",
   "aspnet_route", "bottle_route", "go_route", "hapi_route",
   "java_enterprise_handler", "java_soap", "java_webservlet",
   "javascript_url_config", "kotlin_route", "laravel_route", "jax_rs",
   "clojure_route", "next_api_route", "nestjs_route", "phoenix_route",
   "pyramid_route", "servant_route", "play_route", "product_api_xml",
   "rails_route", "rust_route", "sanic_route", "servlet_forward_config",
   "starlette_route", "sinatra_route", "spark_route", "tomcat_connector",
   "tomcat_security_constraint", "tornado_route", "zsec_security_url"}

(* Slip: a detector's pattern is not listed. *)
KnownConsumersWithoutZip == LineConsumers \cup {"zsec_security_control"}

KnownConsumers == LineConsumers \cup {"zsec_security_control", "zsec_zip_sanitizer"}

KnownWorkers == LineWorkers \cup {"path_hint", "taskengine_task"}

Known(stage) ==
  CASE stage = "entrypoints" -> KnownEntrypoints
    [] stage = "consumers" -> KnownConsumers
    [] stage = "workers" -> KnownWorkers

(* A selection without includes allows all that are known. *)
Allowed(stage, selection) ==
  (IF selection.include = {} THEN Known(stage) ELSE selection.include)
    \ selection.exclude
================================================================================
